------------------------------ MODULE Sessions ------------------------------
(***************************************************************************)
(* SessionStore (sessions.py) and the turns that use it: each request to   *)
(* chat_completions (server.py) with a session id takes that session's     *)
(* Memory from the store and drives Agent.run_session against it.  The     *)
(* store is only touched when a request arrives; a turn then keeps its     *)
(* reference over several awaits, whatever the store does meanwhile.       *)
(* A Memory object is known by the number of its creation, and a stored    *)
(* block of messages by the turn that wrote it.                            *)
(***************************************************************************)
EXTENDS Naturals, Sequences, SequencesExt, Selection

CONSTANTS
    SessionIds,
    MaxSessions,   \* SessionStore.max_sessions
    Ttl,           \* SessionStore.ttl_seconds, in ticks of the clock
    Turns,         \* bound: the requests made, in order of arrival
    MaxClock       \* bound: last tick

ASSUME StoreAssumption ==
    MaxSessions \in Nat \ {0} /\ Ttl \in Nat /\ MaxClock \in Nat

VARIABLES
    clock,
    entries,   \* SessionStore._entries: least recently used first
    log,       \* what each Memory object holds, by its number
    pc,        \* of each turn: "unborn", "screening", "running", "answered", "failed"
    sid,       \* its session id, None before it arrives
    memory,    \* the Memory object it holds, 0 before it arrives
    raced      \* the sessions that had two turns at once (history variable)

vars == <<clock, entries, log, pc, sid, memory, raced>>

None == "none"

Ids(store) == {store[p].sid : p \in DOMAIN store}
(* Seeded fault of MemoryOf: any session gets the oldest memory.           *)
MemoryOf_Oldest(store, s) == store[1].memory

MemoryOf(store, s) == LET p == CHOOSE p \in DOMAIN store : store[p].sid = s
                      IN  store[p].memory

InFlight(t) == pc[t] \in {"screening", "running"}

Init ==
    /\ clock = 0
    /\ entries = <<>>
    /\ log = <<>>
    /\ pc = [t \in Turns |-> "unborn"]
    /\ sid = [t \in Turns |-> None]
    /\ memory = [t \in Turns |-> 0]
    /\ raced = {}

-----------------------------------------------------------------------------
(* get_or_create, step by step: expire, then look up, create or move.      *)
(* Seeded fault of Entry: the time it expires is kept as the time it was   *)
(* last used.                                                              *)
Entry_Deadline(s, m) == [sid |-> s, memory |-> m, last_seen |-> clock + Ttl]

Entry(s, m) == [sid |-> s, memory |-> m, last_seen |-> clock]

(* Seeded fault of Live: an entry outlives its lifetime by a tick.         *)
Live_OneTickMore(store) ==
    Select(store, {p \in DOMAIN store : clock - store[p].last_seen <= Ttl + 1})

Live(store) ==
    Select(store, {p \in DOMAIN store : clock - store[p].last_seen <= Ttl})

(* popitem(last=False) until the store is within its size.                 *)
Newest(store) ==
    IF Len(store) > MaxSessions
    THEN SubSeq(store, Len(store) - MaxSessions + 1, Len(store)) ELSE store

(* Seeded fault of Touch: the entry keeps its place.                       *)
Touch_InPlace(store, s) ==
    [p \in DOMAIN store |->
        IF store[p].sid = s THEN Entry(s, store[p].memory) ELSE store[p]]

(* last_seen = now and move_to_end.                                        *)
Touch(store, s) ==
    Append(Select(store, {p \in DOMAIN store : store[p].sid # s}),
           Entry(s, MemoryOf(store, s)))

(* A request arrives with a session id: run_session starts on the memory   *)
(* and awaits the input guardrail.                                         *)
Request(t, s) ==
    /\ pc[t] = "unborn" /\ \A u \in Turns : u < t => pc[u] # "unborn"
    /\ LET live == Live(entries)
           new == Len(log) + 1
       IN  IF s \in Ids(live)
           THEN /\ entries' = Touch(live, s)
                /\ memory' = [memory EXCEPT ![t] = MemoryOf(live, s)]
                /\ UNCHANGED log
           ELSE /\ entries' = Newest(Append(live, Entry(s, new)))
                /\ log' = Append(log, <<>>)
                /\ memory' = [memory EXCEPT ![t] = new]
    /\ pc' = [pc EXCEPT ![t] = "screening"]
    /\ sid' = [sid EXCEPT ![t] = s]
    /\ raced' = IF \E u \in Turns : sid[u] = s /\ InFlight(u) THEN raced \cup {s} ELSE raced
    /\ UNCHANGED clock

Block(t, part) == [turn |-> t, part |-> part]

(* Seeded fault of Store: the block replaces the history.                  *)
Store_Replacing(t, part) == log' = [log EXCEPT ![memory[t]] = <<Block(t, part)>>]

Store(t, part) == log' = [log EXCEPT ![memory[t]] = Append(@, Block(t, part))]

(* Seeded fault of Accept: the incoming turn goes to the model only.       *)
Accept_Unstored(t) ==
    /\ pc[t] = "screening"
    /\ pc' = [pc EXCEPT ![t] = "running"]
    /\ UNCHANGED <<clock, entries, log, sid, memory, raced>>

(* The incoming turn is appended and the history loaded in one step.       *)
Accept(t) ==
    /\ pc[t] = "screening"
    /\ Store(t, "incoming")
    /\ pc' = [pc EXCEPT ![t] = "running"]
    /\ UNCHANGED <<clock, entries, sid, memory, raced>>

(* The loop has ended: the new turns are appended, without an await        *)
(* between them, to the memory the turn was given.                         *)
Answer(t) ==
    /\ pc[t] = "running"
    /\ Store(t, "new")
    /\ pc' = [pc EXCEPT ![t] = "answered"]
    /\ UNCHANGED <<clock, entries, sid, memory, raced>>

(* The input is blocked, or an exception ends the turn: HTTP 500.          *)
Fail(t) ==
    /\ InFlight(t)
    /\ pc' = [pc EXCEPT ![t] = "failed"]
    /\ UNCHANGED <<clock, entries, log, sid, memory, raced>>

Tick ==
    /\ clock < MaxClock
    /\ clock' = clock + 1
    /\ UNCHANGED <<entries, log, pc, sid, memory, raced>>

Next ==
    \/ Tick
    \/ \E t \in Turns : \/ \E s \in SessionIds : Request(t, s)
                        \/ Accept(t) \/ Answer(t) \/ Fail(t)

Spec == Init /\ [][Next]_vars

-----------------------------------------------------------------------------
TypeOK ==
    /\ clock \in 0..MaxClock
    /\ \A p \in DOMAIN entries :
          /\ entries[p].sid \in SessionIds
          /\ entries[p].memory \in DOMAIN log
          /\ entries[p].last_seen \in 0..clock
    /\ \A t \in Turns :
          /\ pc[t] \in {"unborn", "screening", "running", "answered", "failed"}
          /\ pc[t] # "unborn" => sid[t] \in SessionIds /\ memory[t] \in DOMAIN log

(* The store is a map within its cap, ordered by last use: what            *)
(* _evict_overflow pops is what was idle longest.                          *)
StoreIsOrdered ==
    /\ Len(entries) <= MaxSessions
    /\ \A p, q \in DOMAIN entries :
          p < q => /\ entries[p].sid # entries[q].sid
                   /\ entries[p].last_seen <= entries[q].last_seen

(* A conversation is never mixed with another: every block in a memory was *)
(* written by a turn of one session, the one whose entry holds it.         *)
SessionsAreIsolated ==
    \A m \in DOMAIN log :
        \A b \in ToSet(log[m]) :
            /\ \A c \in ToSet(log[m]) : sid[b.turn] = sid[c.turn]
            /\ \A p \in DOMAIN entries : entries[p].memory = m => entries[p].sid = sid[b.turn]

Held(s) == IF s \in Ids(entries) THEN log[MemoryOf(entries, s)] ELSE <<>>

(* A step never rewrites the history a session is answered from: it        *)
(* extends it, or forgets the session whole.                               *)
KeepsHistory ==
    \A s \in SessionIds : IsPrefix(Held(s), Held(s)') \/ Held(s)' = <<>>

HistoryGrowsOrIsForgotten == [][KeepsHistory]_vars

(* A request that finds its session makes room for it first: of the others *)
(* it drops exactly those idle for longer than the ttl, and when it needs  *)
(* a new entry, the least recently used ones past the cap.                 *)
EvictsExactly ==
    entries' # entries =>
        LET s == Last(entries').sid
            others == Ids(entries) \ {s}
            live == {r \in others : \E p \in DOMAIN entries :
                        entries[p].sid = r /\ clock - entries[p].last_seen <= Ttl}
            kept == Ids(entries') \ {s}
        IN  /\ kept \subseteq live
            /\ live # kept => Len(entries') = MaxSessions
            /\ \A p, q \in DOMAIN entries :
                  entries[p].sid \in live \ kept /\ entries[q].sid \in kept => p < q

EvictionIsExact == [][EvictsExactly]_vars

(* "We do assume a single conversation is driven sequentially" (SessionStore *)
(* docstring).  Where it is, each answer stands right behind the message it  *)
(* answers, through failed turns, evictions and other sessions' turns.       *)
AnswersFollowQuestions ==
    \A m \in DOMAIN log : \A p \in DOMAIN log[m] :
        LET b == log[m][p]
        IN  b.part = "new" /\ sid[b.turn] \notin raced =>
                p > 1 /\ log[m][p - 1] = Block(b.turn, "incoming")

(* "Idle lifetime of a session before eviction" (docs/configuration.md):   *)
(* while a turn of a session is in flight the session is not idle.         *)
OnlyIdleSessionsExpire ==
    \A t \in Turns : InFlight(t) => memory[t] \in {entries[p].memory : p \in DOMAIN entries}
=============================================================================
