-------------------------- MODULE Sessions_proofs --------------------------
(***************************************************************************)
(* Proofs about Sessions for any number of sessions and turns, any cap and *)
(* any lifetime.                                                           *)
(***************************************************************************)
EXTENDS Sessions, Selection_proofs

Entries == [sid : SessionIds, memory : Nat, last_seen : Nat]
Blocks == [turn : Turns, part : {"incoming", "new"}]

Born(t) == pc[t] # "unborn"

Typed ==
    /\ clock \in 0..MaxClock
    /\ entries \in Seq(Entries)
    /\ log \in Seq(Seq(Blocks))
    /\ pc \in [Turns -> {"unborn", "screening", "running", "answered", "failed"}]
    /\ sid \in [Turns -> SessionIds \cup {None}]
    /\ memory \in [Turns -> Nat]

(* A memory belongs to one session: that of the entry that has it, of the  *)
(* turns that hold it, and of the turns that wrote to it.                  *)
OneOwner ==
    /\ \A t, u \in Turns : Born(t) /\ Born(u) /\ memory[t] = memory[u] => sid[t] = sid[u]
    /\ \A p \in DOMAIN entries, t \in Turns :
          Born(t) /\ entries[p].memory = memory[t] => entries[p].sid = sid[t]
    /\ \A p, q \in DOMAIN entries :
          entries[p].memory = entries[q].memory => entries[p].sid = entries[q].sid
    /\ \A m \in DOMAIN log : \A i \in DOMAIN log[m] :
          Born(log[m][i].turn) /\ memory[log[m][i].turn] = m

Races ==
    \A t, u \in Turns :
        t # u /\ InFlight(t) /\ InFlight(u) /\ sid[t] = sid[u] => sid[t] \in raced

(* What a turn has asked stands at the end of its memory until it answers. *)
Asked ==
    \A t \in Turns :
        pc[t] = "running" /\ sid[t] \notin raced =>
            LET h == log[memory[t]]
            IN  h # <<>> /\ h[Len(h)] = Block(t, "incoming")

IInv == Typed /\ TypeOK /\ StoreIsOrdered /\ OneOwner /\ Races /\ Asked /\ AnswersFollowQuestions

-----------------------------------------------------------------------------
(* The store as a sequence.                                                *)
Sorted(store) ==
    \A p, q \in DOMAIN store :
        p < q => /\ store[p].sid # store[q].sid
                 /\ store[p].last_seen <= store[q].last_seen

(* What is selected from a store: part of it, in its order.                *)
LEMMA SelectStore ==
    ASSUME NEW store \in Seq(Entries), Sorted(store), NEW P
    PROVE  LET kept == Select(store, P)
           IN  /\ kept \in Seq(Entries)
               /\ Sorted(kept)
               /\ \A p \in DOMAIN kept : \E q \in DOMAIN store : q \in P /\ kept[p] = store[q]
               /\ \A q \in DOMAIN store : q \in P => \E p \in DOMAIN kept : kept[p] = store[q]
<1> DEFINE kept == Select(store, P)
<1>1. kept \in Seq(Entries)
  BY SelectPicks
<1>2. PICK e : Picks(e, kept, store, Len(store), P)
  BY SelectPicks
<1> HIDE DEF kept
<1>3. DOMAIN kept = 1..Len(kept) /\ DOMAIN store = 1..Len(store)
  BY <1>1
<1>4. Sorted(kept)
  <2> SUFFICES ASSUME NEW p \in DOMAIN kept, NEW q \in DOMAIN kept, p < q
               PROVE  kept[p].sid # kept[q].sid /\ kept[p].last_seen <= kept[q].last_seen
    BY DEF Sorted
  <2>1. /\ e[p] \in DOMAIN store /\ e[q] \in DOMAIN store /\ e[p] < e[q]
        /\ kept[p] = store[e[p]] /\ kept[q] = store[e[q]]
    BY <1>2, <1>3 DEF Picks
  <2> QED
    BY <2>1 DEF Sorted
<1>5. \A p \in DOMAIN kept : \E q \in DOMAIN store : q \in P /\ kept[p] = store[q]
  BY <1>2, <1>3 DEF Picks
<1>6. \A q \in DOMAIN store : q \in P => \E p \in DOMAIN kept : kept[p] = store[q]
  BY <1>2, <1>3 DEF Picks
<1> QED
  BY <1>1, <1>4, <1>5, <1>6 DEF kept

LEMMA LiveStore ==
    ASSUME Typed, StoreIsOrdered
    PROVE  LET live == Live(entries)
           IN  /\ live \in Seq(Entries) /\ Sorted(live) /\ Len(live) <= MaxSessions
               /\ \A p \in DOMAIN live : \E q \in DOMAIN entries :
                     clock - entries[q].last_seen <= Ttl /\ live[p] = entries[q]
               /\ \A q \in DOMAIN entries :
                     clock - entries[q].last_seen <= Ttl => \E p \in DOMAIN live : live[p] = entries[q]
<1> DEFINE P == {p \in DOMAIN entries : clock - entries[p].last_seen <= Ttl}
           live == Select(entries, P)
<1>1. entries \in Seq(Entries) /\ Sorted(entries) /\ Len(entries) <= MaxSessions
  BY DEF Typed, StoreIsOrdered, Sorted
<1>2. /\ live \in Seq(Entries) /\ Sorted(live)
      /\ \A p \in DOMAIN live : \E q \in DOMAIN entries : q \in P /\ live[p] = entries[q]
      /\ \A q \in DOMAIN entries : q \in P => \E p \in DOMAIN live : live[p] = entries[q]
  <2> HIDE DEF P
  <2> QED
    BY <1>1, SelectStore
<1>3. Len(live) <= Len(entries)
  <2> HIDE DEF P
  <2> QED
    BY <1>1, SelectLen
<1>4. Len(live) <= MaxSessions
  <2> HIDE DEF live
  <2> QED
    BY <1>1, <1>2, <1>3, StoreAssumption
<1> HIDE DEF live
<1>5. live = Live(entries)
  BY DEF Live, live
<1> QED
  BY <1>2, <1>4, <1>5

LEMMA MemoryOfStore ==
    ASSUME NEW store, NEW s \in Ids(store)
    PROVE  \E p \in DOMAIN store : store[p].sid = s /\ store[p].memory = MemoryOf(store, s)
BY DEF Ids, MemoryOf

(* Behind the entries kept, of other sessions and no later last use, the   *)
(* one for this request.                                                   *)
LEMMA AppendStore ==
    ASSUME NEW store \in Seq(Entries), Sorted(store), NEW e \in Entries,
           \A p \in DOMAIN store : store[p].sid # e.sid /\ store[p].last_seen <= e.last_seen
    PROVE  LET longer == Append(store, e)
           IN  /\ longer \in Seq(Entries) /\ Sorted(longer)
               /\ Len(longer) = Len(store) + 1 /\ longer[Len(longer)] = e
               /\ \A p \in DOMAIN store : longer[p] = store[p]
<1> DEFINE longer == Append(store, e)
<1>1. /\ longer \in Seq(Entries) /\ Len(longer) = Len(store) + 1
      /\ longer[Len(longer)] = e /\ \A p \in DOMAIN store : longer[p] = store[p]
      /\ DOMAIN longer = 1..Len(longer) /\ DOMAIN store = 1..Len(store)
  OBVIOUS
<1> HIDE DEF longer
<1>2. \A p \in DOMAIN longer : p \in DOMAIN store \/ p = Len(longer)
  BY <1>1
<1>3. Sorted(longer)
  <2> SUFFICES ASSUME NEW p \in DOMAIN longer, NEW q \in DOMAIN longer, p < q
               PROVE  longer[p].sid # longer[q].sid /\ longer[p].last_seen <= longer[q].last_seen
    BY DEF Sorted
  <2>1. p \in DOMAIN store
    BY <1>1, <1>2
  <2>2. CASE q = Len(longer)
    BY <1>1, <2>1, <2>2
  <2>3. CASE q \in DOMAIN store
    BY <1>1, <2>1, <2>3 DEF Sorted
  <2> QED
    BY <1>2, <2>2, <2>3
<1> QED
  BY <1>1, <1>3 DEF longer

(* The newest entries, at most as many as fit.                             *)
LEMMA NewestStore ==
    ASSUME NEW store \in Seq(Entries), Sorted(store), Len(store) <= MaxSessions + 1, store # <<>>
    PROVE  LET kept == Newest(store)
           IN  /\ kept \in Seq(Entries) /\ Sorted(kept) /\ Len(kept) <= MaxSessions /\ kept # <<>>
               /\ kept[Len(kept)] = store[Len(store)]
               /\ \/ kept = store
                  \/ Len(kept) = MaxSessions /\ Len(store) = MaxSessions + 1
                     /\ \A p \in DOMAIN kept : kept[p] = store[p + 1]
<1>1. CASE Len(store) <= MaxSessions
  BY <1>1, StoreAssumption DEF Newest
<1>2. CASE Len(store) = MaxSessions + 1
  <2> DEFINE kept == SubSeq(store, 2, Len(store))
  <2>1. /\ kept \in Seq(Entries) /\ Len(kept) = MaxSessions
        /\ \A p \in 1..Len(kept) : kept[p] = store[p + 1]
    BY <1>2, StoreAssumption
  <2> HIDE DEF kept
  <2>2. Sorted(kept)
    <3> SUFFICES ASSUME NEW p \in 1..Len(kept), NEW q \in 1..Len(kept), p < q
                 PROVE  kept[p].sid # kept[q].sid /\ kept[p].last_seen <= kept[q].last_seen
      BY <2>1 DEF Sorted
    <3>1. p + 1 \in DOMAIN store /\ q + 1 \in DOMAIN store /\ p + 1 < q + 1
      BY <1>2, <2>1, StoreAssumption
    <3>2. kept[p] = store[p + 1] /\ kept[q] = store[q + 1]
      BY <2>1
    <3> QED
      BY <3>1, <3>2 DEF Sorted
  <2>3. Newest(store) = kept
    BY <1>2, StoreAssumption DEF Newest, kept
  <2> QED
    BY <1>2, <2>1, <2>2, <2>3, StoreAssumption
<1> QED
  BY <1>1, <1>2, StoreAssumption

(* What a request does to the store: at its end stands the session's entry,*)
(* before it only others that had not expired.  The memory is the          *)
(* session's, or a new one.                                                *)
LEMMA RequestStore ==
    ASSUME Typed, TypeOK, StoreIsOrdered, NEW t \in Turns, NEW s \in SessionIds, Request(t, s)
    PROVE  /\ entries' \in Seq(Entries) /\ Sorted(entries')
           /\ Len(entries') <= MaxSessions /\ entries' # <<>>
           /\ entries'[Len(entries')] = Entry(s, memory'[t])
           /\ \A p \in DOMAIN entries' : p < Len(entries') =>
                 \E q \in DOMAIN entries :
                     /\ entries'[p] = entries[q] /\ entries[q].sid # s
                     /\ clock - entries[q].last_seen <= Ttl
           /\ \/ /\ UNCHANGED log
                 /\ \E q \in DOMAIN entries : entries[q].sid = s /\ entries[q].memory = memory'[t]
              \/ log' = Append(log, <<>>) /\ memory'[t] = Len(log) + 1
<1> DEFINE live == Live(entries)
           new == Len(log) + 1
           E(m) == Entry(s, m)
<1>1. /\ live \in Seq(Entries) /\ Sorted(live) /\ Len(live) <= MaxSessions
      /\ \A p \in DOMAIN live : \E q \in DOMAIN entries :
             clock - entries[q].last_seen <= Ttl /\ live[p] = entries[q]
  BY LiveStore
<1>2. \A m \in Nat : E(m) \in Entries /\ E(m).sid = s /\ E(m).last_seen = clock
  BY DEF Typed, Entry, Entries
<1>3. \A q \in DOMAIN entries : entries[q].last_seen <= clock /\ entries[q].memory \in Nat
  BY DEF Typed, TypeOK, Entries
<1>4. /\ memory' = [memory EXCEPT ![t] = IF s \in Ids(live) THEN MemoryOf(live, s) ELSE new]
      /\ memory \in [Turns -> Nat]
  BY DEF Request, Typed
<1>5. CASE s \in Ids(live)
  <2> DEFINE P == {p \in DOMAIN live : live[p].sid # s}
             others == Select(live, P)
             m == MemoryOf(live, s)
  <2>1. PICK p \in DOMAIN live : live[p].sid = s /\ live[p].memory = m
    BY <1>5, MemoryOfStore
  <2>2. entries' = Append(others, E(m)) /\ UNCHANGED log /\ memory'[t] = m
    BY <1>4, <1>5 DEF Request, Touch
  <2> HIDE DEF live, E, m
  <2>3. /\ others \in Seq(Entries) /\ Sorted(others)
        /\ \A q \in DOMAIN others : \E r \in DOMAIN live : r \in P /\ others[q] = live[r]
    <3> HIDE DEF P
    <3> QED
      BY <1>1, SelectStore
  <2>4. Len(others) < Len(live)
    <3>1. p \in 1..Len(live) /\ p \notin P
      BY <1>1, <2>1
    <3> HIDE DEF P
    <3> QED
      BY <1>1, <3>1, SelectLen
  <2>5. \A q \in DOMAIN others : \E r \in DOMAIN entries :
            others[q] = entries[r] /\ entries[r].sid # s /\ clock - entries[r].last_seen <= Ttl
    BY <1>1, <2>3
  <2> HIDE DEF others, P
  <2>6. \E q \in DOMAIN entries : entries[q].sid = s /\ entries[q].memory = m
    BY <1>1, <2>1
  <2>7. m \in Nat
    BY <1>3, <2>6
  <2>8. /\ entries' \in Seq(Entries) /\ Sorted(entries')
        /\ Len(entries') = Len(others) + 1 /\ entries'[Len(entries')] = E(m)
        /\ \A q \in DOMAIN others : entries'[q] = others[q]
    <3>1. \A q \in DOMAIN others :
              others[q].sid # E(m).sid /\ others[q].last_seen <= E(m).last_seen
      BY <1>2, <1>3, <2>5, <2>7
    <3> QED
      BY <1>2, <2>2, <2>3, <2>7, <3>1, AppendStore
  <2>9. \A q \in DOMAIN entries' : q < Len(entries') => q \in DOMAIN others
    BY <2>3, <2>8
  <2> QED
    BY <1>1, <2>2, <2>3, <2>4, <2>5, <2>6, <2>8, <2>9, StoreAssumption DEF E
<1>6. CASE s \notin Ids(live)
  <2> DEFINE longer == Append(live, E(new))
  <2>1. entries' = Newest(longer) /\ log' = Append(log, <<>>) /\ memory'[t] = new
    BY <1>4, <1>6 DEF Request
  <2>2. new \in Nat
    BY DEF Typed
  <2>3. \A q \in DOMAIN live : live[q].sid # s
    BY <1>6 DEF Ids
  <2> HIDE DEF live, E, new
  <2>4. /\ longer \in Seq(Entries) /\ Sorted(longer)
        /\ Len(longer) = Len(live) + 1 /\ longer[Len(longer)] = E(new)
        /\ \A q \in DOMAIN live : longer[q] = live[q]
    <3>1. \A q \in DOMAIN live :
              live[q].sid # E(new).sid /\ live[q].last_seen <= E(new).last_seen
      BY <1>1, <1>2, <1>3, <2>2, <2>3
    <3> QED
      BY <1>1, <1>2, <2>2, <3>1, AppendStore
  <2> HIDE DEF longer
  <2>5. \A q \in DOMAIN longer : q < Len(longer) =>
            \E r \in DOMAIN entries :
                longer[q] = entries[r] /\ entries[r].sid # s /\ clock - entries[r].last_seen <= Ttl
    <3> SUFFICES ASSUME NEW q \in DOMAIN longer, q < Len(longer)
                 PROVE  \E r \in DOMAIN entries :
                            /\ longer[q] = entries[r] /\ entries[r].sid # s
                            /\ clock - entries[r].last_seen <= Ttl
      OBVIOUS
    <3>1. q \in DOMAIN live
      BY <1>1, <2>4
    <3> QED
      BY <1>1, <2>3, <2>4, <3>1
  <2>6. Len(longer) <= MaxSessions + 1 /\ longer # <<>>
    BY <1>1, <2>4, StoreAssumption
  <2>7. /\ entries' \in Seq(Entries) /\ Sorted(entries')
        /\ Len(entries') <= MaxSessions /\ entries' # <<>>
        /\ entries'[Len(entries')] = longer[Len(longer)]
        /\ \/ entries' = longer
           \/ /\ Len(entries') = MaxSessions /\ Len(longer) = MaxSessions + 1
              /\ \A p \in DOMAIN entries' : entries'[p] = longer[p + 1]
    BY <2>1, <2>4, <2>6, NewestStore
  <2>8. \A p \in DOMAIN entries' : p < Len(entries') =>
            \E q \in DOMAIN longer : q < Len(longer) /\ entries'[p] = longer[q]
    <3> SUFFICES ASSUME NEW p \in DOMAIN entries', p < Len(entries')
                 PROVE  \E q \in DOMAIN longer : q < Len(longer) /\ entries'[p] = longer[q]
      OBVIOUS
    <3>1. CASE entries' = longer
      BY <3>1
    <3>2. CASE entries' # longer
      <4>1. p + 1 \in DOMAIN longer /\ p + 1 < Len(longer) /\ entries'[p] = longer[p + 1]
        BY <2>4, <2>7, <3>2, StoreAssumption
      <4> QED
        BY <4>1
    <3> QED
      BY <3>1, <3>2
  <2>9. \A p \in DOMAIN entries' : p < Len(entries') =>
            \E q \in DOMAIN entries :
                /\ entries'[p] = entries[q] /\ entries[q].sid # s
                /\ clock - entries[q].last_seen <= Ttl
    BY <2>5, <2>8
  <2> QED
    BY <2>1, <2>4, <2>7, <2>9 DEF E, new
<1> QED
  BY <1>5, <1>6

-----------------------------------------------------------------------------
LEMMA InitInv == Init => IInv
<1> SUFFICES ASSUME Init PROVE IInv
  OBVIOUS
<1>1. Typed
  BY StoreAssumption DEF Init, Typed
<1>2. TypeOK /\ StoreIsOrdered
  BY StoreAssumption DEF Init, TypeOK, StoreIsOrdered
<1>3. OneOwner /\ Races /\ Asked /\ AnswersFollowQuestions
  BY DEF Init, OneOwner, Races, Asked, AnswersFollowQuestions, Born, InFlight
<1> QED
  BY <1>1, <1>2, <1>3 DEF IInv

LEMMA RequestInv ==
    ASSUME IInv, NEW t \in Turns, NEW s \in SessionIds, Request(t, s)
    PROVE  IInv'
<1>1. Typed /\ TypeOK /\ StoreIsOrdered /\ OneOwner /\ Races /\ Asked /\ AnswersFollowQuestions
  BY DEF IInv
<1>2. /\ entries' \in Seq(Entries) /\ Sorted(entries')
      /\ Len(entries') <= MaxSessions /\ entries' # <<>>
      /\ entries'[Len(entries')] = Entry(s, memory'[t])
      /\ \A p \in DOMAIN entries' : p < Len(entries') =>
            \E q \in DOMAIN entries :
                /\ entries'[p] = entries[q] /\ entries[q].sid # s
                /\ clock - entries[q].last_seen <= Ttl
      /\ \/ /\ UNCHANGED log
            /\ \E q \in DOMAIN entries : entries[q].sid = s /\ entries[q].memory = memory'[t]
         \/ log' = Append(log, <<>>) /\ memory'[t] = Len(log) + 1
  BY <1>1, RequestStore
<1>3. /\ pc[t] = "unborn" /\ pc' = [pc EXCEPT ![t] = "screening"]
      /\ sid' = [sid EXCEPT ![t] = s] /\ UNCHANGED clock
      /\ raced' = IF \E u \in Turns : sid[u] = s /\ InFlight(u) THEN raced \cup {s} ELSE raced
      /\ \E m : memory' = [memory EXCEPT ![t] = m]
  BY DEF Request
<1>4. /\ log' \in Seq(Seq(Blocks)) /\ DOMAIN log \subseteq DOMAIN log'
      /\ memory'[t] \in DOMAIN log'
      /\ \A m \in DOMAIN log' : IF m \in DOMAIN log THEN log'[m] = log[m] ELSE log'[m] = <<>>
  <2>1. CASE UNCHANGED log
    BY <1>1, <1>2, <2>1 DEF Typed, TypeOK
  <2>2. CASE log' = Append(log, <<>>) /\ memory'[t] = Len(log) + 1
    BY <1>1, <2>2 DEF Typed
  <2> QED
    BY <1>2, <2>1, <2>2
<1>5. /\ memory'[t] \in Nat /\ pc'[t] = "screening" /\ sid'[t] = s
      /\ \A u \in Turns : u # t => pc'[u] = pc[u] /\ sid'[u] = sid[u] /\ memory'[u] = memory[u]
  BY <1>1, <1>3, <1>4 DEF Typed
<1>6. Typed'
  BY <1>1, <1>2, <1>3, <1>4, <1>5 DEF Typed
(* An entry is the new one, or an old one of another session.              *)
<1>7. \A p \in DOMAIN entries' :
          \/ entries'[p] = Entry(s, memory'[t])
          \/ \E q \in DOMAIN entries : entries'[p] = entries[q] /\ entries[q].sid # s
  <2> SUFFICES ASSUME NEW p \in DOMAIN entries'
               PROVE  \/ entries'[p] = Entry(s, memory'[t])
                      \/ \E q \in DOMAIN entries : entries'[p] = entries[q] /\ entries[q].sid # s
    OBVIOUS
  <2>1. p = Len(entries') \/ p < Len(entries')
    BY <1>2
  <2> QED
    BY <1>2, <2>1
<1>8. TypeOK'
  <2>1. \A p \in DOMAIN entries' : /\ entries'[p].sid \in SessionIds
                                   /\ entries'[p].memory \in DOMAIN log'
                                   /\ entries'[p].last_seen \in 0..clock
    BY <1>1, <1>4, <1>7 DEF TypeOK, Entry
  <2>2. \A u \in Turns : pc'[u] # "unborn" => sid'[u] \in SessionIds /\ memory'[u] \in DOMAIN log'
    BY <1>1, <1>4, <1>5 DEF TypeOK
  <2> QED
    BY <1>3, <1>6, <2>1, <2>2 DEF TypeOK, Typed
<1>9. StoreIsOrdered'
  BY <1>2 DEF StoreIsOrdered, Sorted
(* The memory of the turn is that of its session only.                     *)
<1>10. /\ \A u \in Turns : Born(u) /\ memory[u] = memory'[t] => sid[u] = s
       /\ \A q \in DOMAIN entries : entries[q].memory = memory'[t] => entries[q].sid = s
  <2>1. CASE memory'[t] \in DOMAIN log
    BY <1>1, <1>2, <2>1 DEF OneOwner, Typed
  <2>2. CASE memory'[t] \notin DOMAIN log
    BY <1>1, <2>2 DEF TypeOK, Born
  <2> QED
    BY <2>1, <2>2
<1>11. OneOwner'
  <2>1. \A u, v \in Turns :
            pc'[u] # "unborn" /\ pc'[v] # "unborn" /\ memory'[u] = memory'[v] => sid'[u] = sid'[v]
    BY <1>1, <1>5, <1>10 DEF OneOwner, Born
  <2>2. \A p \in DOMAIN entries', u \in Turns :
            pc'[u] # "unborn" /\ entries'[p].memory = memory'[u] => entries'[p].sid = sid'[u]
    BY <1>1, <1>5, <1>7, <1>10 DEF OneOwner, Born, Entry
  <2>3. \A p, q \in DOMAIN entries' :
            entries'[p].memory = entries'[q].memory => entries'[p].sid = entries'[q].sid
    BY <1>1, <1>5, <1>7, <1>10 DEF OneOwner, Entry
  <2>4. \A m \in DOMAIN log' : \A i \in DOMAIN log'[m] :
            pc'[log'[m][i].turn] # "unborn" /\ memory'[log'[m][i].turn] = m
    BY <1>1, <1>3, <1>4, <1>5 DEF OneOwner, Born, Typed, Blocks
  <2> QED
    BY <2>1, <2>2, <2>3, <2>4 DEF OneOwner, Born
<1>12. Races'
  BY <1>1, <1>3, <1>5 DEF Races, InFlight
<1>13. Asked'
  <2> SUFFICES ASSUME NEW u \in Turns, pc'[u] = "running", sid'[u] \notin raced'
               PROVE  /\ log'[memory'[u]] # <<>>
                      /\ log'[memory'[u]][Len(log'[memory'[u]])] = Block(u, "incoming")
    BY DEF Asked, Block
  <2>1. pc[u] = "running" /\ sid[u] \notin raced /\ log'[memory'[u]] = log[memory[u]]
    BY <1>1, <1>3, <1>4, <1>5 DEF TypeOK
  <2> QED
    BY <1>1, <2>1 DEF Asked
<1>14. AnswersFollowQuestions'
  BY <1>1, <1>3, <1>4, <1>5 DEF AnswersFollowQuestions, OneOwner, Born
<1> QED
  BY <1>6, <1>8, <1>9, <1>11, <1>12, <1>13, <1>14 DEF IInv

(* What storing a block does to the logs.                                  *)
LEMMA StoreLog ==
    ASSUME IInv, NEW t \in Turns, NEW part \in {"incoming", "new"}, InFlight(t), Store(t, part)
    PROVE  /\ memory[t] \in DOMAIN log /\ Born(t)
           /\ log' \in Seq(Seq(Blocks)) /\ DOMAIN log' = DOMAIN log
           /\ log'[memory[t]] = Append(log[memory[t]], Block(t, part))
           /\ \A m \in DOMAIN log : m # memory[t] => log'[m] = log[m]
<1>1. memory[t] \in DOMAIN log /\ log \in Seq(Seq(Blocks)) /\ log[memory[t]] \in Seq(Blocks)
  BY DEF IInv, Typed, TypeOK, InFlight
<1>2. Append(log[memory[t]], Block(t, part)) \in Seq(Blocks)
  BY <1>1 DEF Blocks, Block
<1> QED
  BY <1>1, <1>2 DEF Store, Born, InFlight

(* Once a block is stored, the memory is still its session's, and nobody   *)
(* else's question is overwritten.                                         *)
LEMMA StoreInv ==
    ASSUME IInv, NEW t \in Turns, NEW part \in {"incoming", "new"}, InFlight(t), Store(t, part),
           UNCHANGED <<clock, entries, sid, memory, raced>>,
           \/ part = "incoming" /\ pc' = [pc EXCEPT ![t] = "running"]
           \/ /\ part = "new" /\ pc[t] = "running"
              /\ pc' = [pc EXCEPT ![t] = "answered"]
    PROVE  IInv'
<1>1. Typed /\ TypeOK /\ StoreIsOrdered /\ OneOwner /\ Races /\ Asked /\ AnswersFollowQuestions
  BY DEF IInv
<1>2. /\ memory[t] \in DOMAIN log /\ Born(t)
      /\ log' \in Seq(Seq(Blocks)) /\ DOMAIN log' = DOMAIN log
      /\ log'[memory[t]] = Append(log[memory[t]], Block(t, part))
      /\ \A m \in DOMAIN log : m # memory[t] => log'[m] = log[m]
  BY StoreLog
<1>3. /\ pc' \in [Turns -> {"unborn", "screening", "running", "answered", "failed"}]
      /\ pc'[t] # "unborn" /\ \A u \in Turns : u # t => pc'[u] = pc[u]
      /\ \A u \in Turns : pc'[u] # "unborn" <=> pc[u] # "unborn"
      /\ \A u \in Turns : pc'[u] \in {"screening", "running"} => pc[u] \in {"screening", "running"}
  BY <1>1, <1>2 DEF Typed, Born, InFlight
<1> DEFINE old == log[memory[t]]
           longer == log'[memory[t]]
<1>4. /\ old \in Seq(Blocks) /\ Len(longer) = Len(old) + 1 /\ longer # <<>>
      /\ longer[Len(longer)] = Block(t, part)
      /\ \A i \in 1..Len(old) : longer[i] = old[i]
      /\ DOMAIN longer = 1..Len(longer) /\ DOMAIN old = 1..Len(old)
  <2>1. old \in Seq(Blocks) /\ Block(t, part) \in Blocks
    BY <1>1, <1>2 DEF Typed, Block, Blocks
  <2>2. longer = Append(old, Block(t, part))
    BY <1>2
  <2> HIDE DEF old, longer
  <2> QED
    BY <2>1, <2>2
<1>5. \A i \in DOMAIN longer : i \in DOMAIN old \/ i = Len(longer)
  BY <1>4
<1> HIDE DEF old, longer
<1>6. Typed' /\ TypeOK' /\ StoreIsOrdered'
  BY <1>1, <1>2, <1>3 DEF Typed, TypeOK, StoreIsOrdered
<1>7. OneOwner'
  <2>1. ASSUME NEW m \in DOMAIN log', NEW i \in DOMAIN log'[m]
        PROVE  Born(log'[m][i].turn) /\ memory[log'[m][i].turn] = m
    <3>1. CASE m = memory[t] /\ i \in DOMAIN old
      <4>1. Born(old[i].turn) /\ memory[old[i].turn] = m
        BY <1>1, <1>2, <3>1 DEF OneOwner, old
      <4>2. log'[m][i] = old[i]
        BY <1>4, <3>1 DEF longer
      <4> QED
        BY <4>1, <4>2
    <3>2. CASE m = memory[t] /\ i = Len(longer)
      BY <1>2, <1>4, <3>2 DEF longer, Block
    <3>3. CASE m # memory[t]
      BY <1>1, <1>2, <3>3 DEF OneOwner
    <3> QED
      BY <1>5, <3>1, <3>2, <3>3 DEF longer
  <2>2. ASSUME NEW m \in DOMAIN log', NEW i \in DOMAIN log'[m]
        PROVE  log'[m][i].turn \in Turns
    <3>1. log'[m] \in Seq(Blocks)
      BY <1>2
    <3>2. log'[m][i] \in Blocks
      BY <3>1
    <3> QED
      BY <3>2 DEF Blocks
  <2> QED
    BY <1>1, <1>3, <2>1, <2>2 DEF OneOwner, Born
<1>8. Races'
  BY <1>1, <1>3 DEF Races, InFlight
<1>9. Asked'
  <2> SUFFICES ASSUME NEW u \in Turns, pc'[u] = "running", sid[u] \notin raced
               PROVE  /\ log'[memory[u]] # <<>>
                      /\ log'[memory[u]][Len(log'[memory[u]])] = Block(u, "incoming")
    BY DEF Asked, Block
  <2>1. CASE u = t
    BY <1>1, <1>4, <2>1 DEF longer, Typed
  <2>2. CASE u # t
    <3>1. pc[u] = "running" /\ memory[u] \in DOMAIN log
      BY <1>1, <1>3, <2>2 DEF TypeOK
    <3>2. memory[u] # memory[t]
      BY <1>1, <1>2, <2>2, <3>1 DEF OneOwner, Races, Born, InFlight
    <3> QED
      BY <1>1, <1>2, <3>1, <3>2 DEF Asked
  <2> QED
    BY <2>1, <2>2
<1>10. AnswersFollowQuestions'
  <2> SUFFICES ASSUME NEW m \in DOMAIN log', NEW i \in DOMAIN log'[m],
                      log'[m][i].part = "new", sid[log'[m][i].turn] \notin raced
               PROVE  i > 1 /\ log'[m][i - 1] = Block(log'[m][i].turn, "incoming")
    BY DEF AnswersFollowQuestions, Block
  <2>1. CASE m # memory[t]
    BY <1>1, <1>2, <2>1 DEF AnswersFollowQuestions
  <2>2. CASE m = memory[t] /\ i \in DOMAIN old
    <3>1. longer[i] = old[i]
      BY <1>4, <2>2
    <3>2. i > 1 /\ old[i - 1] = Block(old[i].turn, "incoming")
      BY <1>1, <1>2, <2>2, <3>1 DEF AnswersFollowQuestions, old, longer
    <3>3. longer[i - 1] = old[i - 1]
      BY <1>4, <2>2, <3>2
    <3> QED
      BY <2>2, <3>1, <3>2, <3>3 DEF longer
  <2>3. CASE m = memory[t] /\ i = Len(longer)
    <3>1. longer[i] = Block(t, part) /\ part = "new" /\ pc[t] = "running"
      BY <1>4, <2>3 DEF longer, Block
    <3>2. old # <<>> /\ old[Len(old)] = Block(t, "incoming")
      BY <1>1, <2>3, <3>1 DEF Asked, old, longer, Block
    <3>3. i - 1 = Len(old) /\ Len(old) \in DOMAIN old
      BY <1>4, <2>3, <3>2
    <3> QED
      BY <1>4, <2>3, <3>1, <3>2, <3>3 DEF longer, Block
  <2> QED
    BY <1>5, <2>1, <2>2, <2>3 DEF longer
<1> QED
  BY <1>6, <1>7, <1>8, <1>9, <1>10 DEF IInv

(* A step that leaves the store and the logs alone, where a turn may fail. *)
LEMMA QuietInv ==
    ASSUME IInv, UNCHANGED <<entries, log, sid, memory, raced>>,
           clock' \in 0..MaxClock, clock <= clock',
           \/ UNCHANGED pc
           \/ \E t \in Turns : InFlight(t) /\ pc' = [pc EXCEPT ![t] = "failed"]
    PROVE  IInv'
<1>1. Typed /\ TypeOK /\ StoreIsOrdered /\ OneOwner /\ Races /\ Asked /\ AnswersFollowQuestions
  BY DEF IInv
<1>2. /\ pc' \in [Turns -> {"unborn", "screening", "running", "answered", "failed"}]
      /\ \A u \in Turns : /\ pc'[u] # "unborn" <=> pc[u] # "unborn"
                          /\ pc'[u] = pc[u] \/ pc'[u] = "failed"
  BY <1>1 DEF Typed, InFlight
<1>3. Typed'
  BY <1>1, <1>2 DEF Typed
<1>4. TypeOK'
  <2>1. \A p \in DOMAIN entries : entries[p].last_seen \in 0..clock'
    BY <1>1 DEF TypeOK, Typed
  <2> QED
    BY <1>1, <1>2, <2>1 DEF TypeOK
<1>5. StoreIsOrdered'
  BY <1>1 DEF StoreIsOrdered
<1>6. OneOwner'
  <2>1. \A m \in DOMAIN log : \A i \in DOMAIN log[m] : log[m][i].turn \in Turns
    <3> SUFFICES ASSUME NEW m \in DOMAIN log, NEW i \in DOMAIN log[m]
                 PROVE  log[m][i].turn \in Turns
      OBVIOUS
    <3>1. log[m] \in Seq(Blocks)
      BY <1>1 DEF Typed
    <3>2. log[m][i] \in Blocks
      BY <3>1
    <3> QED
      BY <3>2 DEF Blocks
  <2> QED
    BY <1>1, <1>2, <2>1 DEF OneOwner, Born
<1>7. Races'
  BY <1>1, <1>2 DEF Races, InFlight
<1>8. Asked'
  BY <1>1, <1>2 DEF Asked, Block
<1>9. AnswersFollowQuestions'
  BY <1>1 DEF AnswersFollowQuestions, Block
<1> QED
  BY <1>1, <1>3, <1>4, <1>5, <1>6, <1>7, <1>8, <1>9 DEF IInv

LEMMA StepInv == IInv /\ [Next]_vars => IInv'
<1> SUFFICES ASSUME IInv, [Next]_vars
             PROVE  IInv'
  OBVIOUS
<1>1. clock \in 0..MaxClock
  BY DEF IInv, TypeOK
<1>2. ASSUME NEW t \in Turns, NEW s \in SessionIds, Request(t, s)
      PROVE  IInv'
  BY <1>2, RequestInv
<1>3. ASSUME NEW t \in Turns, Accept(t)
      PROVE  IInv'
  BY <1>3, StoreInv DEF Accept, InFlight
<1>4. ASSUME NEW t \in Turns, Answer(t)
      PROVE  IInv'
  BY <1>4, StoreInv DEF Answer, InFlight
<1>5. ASSUME NEW t \in Turns, Fail(t)
      PROVE  IInv'
  <2>1. /\ UNCHANGED <<entries, log, sid, memory, raced>>
        /\ clock' \in 0..MaxClock /\ clock <= clock'
        /\ InFlight(t) /\ pc' = [pc EXCEPT ![t] = "failed"]
    BY <1>1, <1>5 DEF Fail
  <2>2. \E u \in Turns : InFlight(u) /\ pc' = [pc EXCEPT ![u] = "failed"]
    BY <2>1, Zenon
  <2> QED
    BY <2>1, <2>2, QuietInv
<1>6. CASE Tick
  BY <1>1, <1>6, QuietInv, StoreAssumption DEF Tick
<1>7. CASE UNCHANGED vars
  BY <1>1, <1>7, QuietInv DEF vars
<1> QED
  BY <1>2, <1>3, <1>4, <1>5, <1>6, <1>7 DEF Next

LEMMA Invariance == Spec => []IInv
  BY InitInv, StepInv, PTL DEF Spec

-----------------------------------------------------------------------------
(* The type invariant.                                                     *)
THEOREM TypeCorrect == Spec => []TypeOK
<1>1. IInv => TypeOK
  BY DEF IInv
<1> QED
  BY Invariance, <1>1, PTL

(* The store stays a map within its cap, ordered by last use, so that what *)
(* _evict_overflow pops is what was idle longest.                          *)
THEOREM StoreInOrder == Spec => []StoreIsOrdered
<1>1. IInv => StoreIsOrdered
  BY DEF IInv
<1> QED
  BY Invariance, <1>1, PTL

(* However turns overlap, fail and outlive their session's entry, no two   *)
(* sessions ever share a memory.                                           *)
THEOREM Isolation == Spec => []SessionsAreIsolated
<1>1. ASSUME IInv PROVE SessionsAreIsolated
  <2> SUFFICES ASSUME NEW m \in DOMAIN log, NEW i \in DOMAIN log[m]
               PROVE  /\ \A j \in DOMAIN log[m] : sid[log[m][i].turn] = sid[log[m][j].turn]
                      /\ \A p \in DOMAIN entries :
                            entries[p].memory = m => entries[p].sid = sid[log[m][i].turn]
    BY DEF SessionsAreIsolated, ToSet
  <2>1. \A j \in DOMAIN log[m] : log[m][j].turn \in Turns
    <3>1. log[m] \in Seq(Blocks)
      BY <1>1 DEF IInv, Typed
    <3>2. \A j \in DOMAIN log[m] : log[m][j] \in Blocks
      BY <3>1
    <3> QED
      BY <3>2 DEF Blocks
  <2>2. \A j \in DOMAIN log[m] : Born(log[m][j].turn) /\ memory[log[m][j].turn] = m
    BY <1>1 DEF IInv, OneOwner
  <2> QED
    BY <1>1, <2>1, <2>2 DEF IInv, OneOwner
<1> QED
  BY Invariance, <1>1, PTL

(* A session driven by one client at a time is a list of questions, each   *)
(* followed by its answer or by nothing.                                   *)
THEOREM AnswersInPlace == Spec => []AnswersFollowQuestions
<1>1. IInv => AnswersFollowQuestions
  BY DEF IInv
<1> QED
  BY Invariance, <1>1, PTL

-----------------------------------------------------------------------------
(* The steps.                                                              *)
LEMMA MemoryIs ==
    ASSUME NEW store \in Seq(Entries), Sorted(store), NEW p \in DOMAIN store
    PROVE  store[p].sid \in Ids(store) /\ MemoryOf(store, store[p].sid) = store[p].memory
<1>1. \A q \in DOMAIN store : store[q].sid = store[p].sid => q = p
  BY DEF Sorted
<1> QED
  BY <1>1 DEF Ids, MemoryOf

LEMMA HeldIs ==
    ASSUME IInv, NEW r
    PROVE  /\ r \notin Ids(entries) => Held(r) = <<>>
           /\ \A p \in DOMAIN entries :
                 entries[p].sid = r =>
                    /\ Held(r) = log[entries[p].memory]
                    /\ entries[p].memory \in DOMAIN log /\ Held(r) \in Seq(Blocks)
<1>1. entries \in Seq(Entries) /\ Sorted(entries) /\ log \in Seq(Seq(Blocks))
  BY DEF IInv, Typed, StoreIsOrdered, Sorted
<1>2. ASSUME NEW p \in DOMAIN entries, entries[p].sid = r
      PROVE  /\ Held(r) = log[entries[p].memory]
             /\ entries[p].memory \in DOMAIN log /\ Held(r) \in Seq(Blocks)
  <2>1. entries[p].memory \in DOMAIN log
    BY DEF IInv, TypeOK
  <2>2. Held(r) = log[entries[p].memory]
    BY <1>1, <1>2, MemoryIs DEF Held
  <2> QED
    BY <1>1, <2>1, <2>2
<1> QED
  BY <1>2 DEF Held

LEMMA RequestKeepsHistory ==
    ASSUME IInv, NEW t \in Turns, NEW s \in SessionIds, Request(t, s), NEW r \in SessionIds
    PROVE  Held(r)' = Held(r) \/ Held(r)' = <<>>
<1>1. Typed /\ TypeOK /\ StoreIsOrdered
  BY DEF IInv
<1>2. /\ entries' \in Seq(Entries) /\ Sorted(entries') /\ entries' # <<>>
      /\ entries'[Len(entries')] = Entry(s, memory'[t])
      /\ \A p \in DOMAIN entries' : p < Len(entries') =>
            \E q \in DOMAIN entries : entries'[p] = entries[q]
      /\ \/ /\ UNCHANGED log
            /\ \E q \in DOMAIN entries : entries[q].sid = s /\ entries[q].memory = memory'[t]
         \/ log' = Append(log, <<>>) /\ memory'[t] = Len(log) + 1
  BY <1>1, RequestStore
<1>3. CASE r \notin Ids(entries')
  BY <1>3 DEF Held
<1>4. CASE r \in Ids(entries')
  <2>1. PICK p \in DOMAIN entries' : entries'[p].sid = r
    BY <1>4 DEF Ids
  <2>2. Held(r)' = log'[entries'[p].memory]
    BY <1>2, <1>4, <2>1, MemoryIs DEF Held
  <2>3. CASE p = Len(entries')
    <3>1. r = s /\ entries'[p].memory = memory'[t]
      BY <1>2, <2>1, <2>3 DEF Entry
    <3>2. CASE UNCHANGED log /\ \E q \in DOMAIN entries :
                  entries[q].sid = s /\ entries[q].memory = memory'[t]
      BY <2>2, <3>1, <3>2, HeldIs
    <3>3. CASE log' = Append(log, <<>>) /\ memory'[t] = Len(log) + 1
      BY <1>1, <2>2, <3>1, <3>3 DEF Typed
    <3> QED
      BY <1>2, <3>2, <3>3
  <2>4. CASE p < Len(entries')
    <3>1. PICK q \in DOMAIN entries : entries'[p] = entries[q]
      BY <1>2, <2>4
    <3>2. Held(r) = log[entries[q].memory] /\ entries[q].memory \in DOMAIN log
      BY <2>1, <3>1, HeldIs
    <3>3. \A m \in DOMAIN log : log'[m] = log[m]
      <4>1. CASE UNCHANGED log
        BY <4>1
      <4>2. CASE log' = Append(log, <<>>)
        BY <1>1, <4>2 DEF Typed
      <4> QED
        BY <1>2, <4>1, <4>2
    <3> QED
      BY <2>2, <3>1, <3>2, <3>3
  <2> QED
    BY <1>2, <2>3, <2>4
<1> QED
  BY <1>3, <1>4

LEMMA PrefixOfAppend ==
    ASSUME NEW S, NEW h \in Seq(S), NEW b \in S
    PROVE  IsPrefix(h, h) /\ IsPrefix(h, Append(h, b))
<1>1. Len(h) <= Len(Append(h, b))
  OBVIOUS
<1>2. SubSeq(h, 1, Len(h)) = SubSeq(Append(h, b), 1, Len(h))
  <2> DEFINE longer == Append(h, b)
  <2>1. \A i \in 1..Len(h) : longer[i] = h[i] /\ h[i] \in S
    OBVIOUS
  <2> HIDE DEF longer
  <2>2. /\ SubSeq(h, 1, Len(h)) \in Seq(S) /\ SubSeq(longer, 1, Len(h)) \in Seq(S)
        /\ Len(SubSeq(h, 1, Len(h))) = Len(h) /\ Len(SubSeq(longer, 1, Len(h))) = Len(h)
        /\ \A i \in 1..Len(h) : SubSeq(h, 1, Len(h))[i] = SubSeq(longer, 1, Len(h))[i]
    BY <2>1
  <2> QED
    BY <2>2, SeqEqual DEF longer
<1> QED
  BY <1>1, <1>2 DEF IsPrefix

LEMMA StoreKeepsHistory ==
    ASSUME IInv, NEW t \in Turns, NEW part \in {"incoming", "new"}, InFlight(t), Store(t, part),
           UNCHANGED entries, NEW r \in SessionIds
    PROVE  IsPrefix(Held(r), Held(r)') \/ Held(r)' = <<>>
<1>1. /\ log'[memory[t]] = Append(log[memory[t]], Block(t, part))
      /\ \A m \in DOMAIN log : m # memory[t] => log'[m] = log[m]
  BY StoreLog
<1>2. CASE r \notin Ids(entries)
  BY <1>2 DEF Held
<1>3. CASE r \in Ids(entries)
  <2>1. PICK p \in DOMAIN entries : entries[p].sid = r
    BY <1>3 DEF Ids
  <2>2. /\ Held(r) = log[entries[p].memory] /\ entries[p].memory \in DOMAIN log
        /\ Held(r) \in Seq(Blocks)
    BY <2>1, HeldIs
  <2>3. Held(r)' = log'[entries[p].memory]
    <3>1. MemoryOf(entries, r) = entries[p].memory
      <4>1. entries \in Seq(Entries) /\ Sorted(entries)
        BY DEF IInv, Typed, StoreIsOrdered, Sorted
      <4> QED
        BY <2>1, <4>1, MemoryIs
    <3> QED
      BY <1>3, <3>1 DEF Held
  <2>4. Held(r)' = Held(r) \/ Held(r)' = Append(Held(r), Block(t, part))
    BY <1>1, <2>2, <2>3
  <2>5. Block(t, part) \in Blocks
    BY DEF Block, Blocks
  <2> QED
    BY <2>2, <2>4, <2>5, PrefixOfAppend
<1> QED
  BY <1>2, <1>3

(* A step extends the history a session is answered from, or forgets the   *)
(* session whole: eviction and overlapping turns never rewrite it.         *)
THEOREM HistoryIsKept == Spec => HistoryGrowsOrIsForgotten
<1>1. ASSUME IInv, [Next]_vars
      PROVE  [KeepsHistory]_vars
  <2>1. ASSUME NEW r \in SessionIds
        PROVE  IsPrefix(Held(r), Held(r))
    <3>1. Held(r) \in Seq(Blocks)
      BY <1>1, HeldIs, EmptySeq DEF Ids
    <3>2. SubSeq(Held(r), 1, Len(Held(r))) = SubSeq(Held(r), 1, Len(Held(r)))
      OBVIOUS
    <3> QED
      BY <3>1, <3>2 DEF IsPrefix
  <2>2. ASSUME NEW t \in Turns, NEW s \in SessionIds, Request(t, s)
        PROVE  KeepsHistory
    BY <1>1, <2>1, <2>2, RequestKeepsHistory DEF KeepsHistory
  <2>3. ASSUME NEW t \in Turns, Accept(t)
        PROVE  KeepsHistory
    BY <1>1, <2>3, StoreKeepsHistory DEF Accept, InFlight, KeepsHistory
  <2>4. ASSUME NEW t \in Turns, Answer(t)
        PROVE  KeepsHistory
    BY <1>1, <2>4, StoreKeepsHistory DEF Answer, InFlight, KeepsHistory
  <2>5. ASSUME Tick \/ \E t \in Turns : Fail(t)
        PROVE  KeepsHistory
    BY <2>1, <2>5 DEF Tick, Fail, Held, KeepsHistory
  <2> QED
    BY <1>1, <2>2, <2>3, <2>4, <2>5 DEF Next
<1> QED
  BY Invariance, <1>1, PTL DEF Spec, HistoryGrowsOrIsForgotten

-----------------------------------------------------------------------------
(* What a request evicts.                                                  *)
LEMMA SidsDiffer ==
    ASSUME NEW store \in Seq(Entries), Sorted(store),
           NEW p \in DOMAIN store, NEW q \in DOMAIN store, store[p].sid = store[q].sid
    PROVE  p = q
<1>1. p \in Nat /\ q \in Nat
  OBVIOUS
<1>2. ~(p < q) /\ ~(q < p)
  BY DEF Sorted
<1> QED
  BY <1>1, <1>2

LEMMA SelectOrder ==
    ASSUME NEW store \in Seq(Entries), Sorted(store), NEW P,
           NEW p \in DOMAIN Select(store, P), NEW q \in DOMAIN Select(store, P), p < q,
           NEW a \in DOMAIN store, Select(store, P)[p] = store[a],
           NEW b \in DOMAIN store, Select(store, P)[q] = store[b]
    PROVE  a < b
<1> DEFINE kept == Select(store, P)
<1>1. kept \in Seq(Entries)
  BY SelectPicks
<1>2. PICK e : Picks(e, kept, store, Len(store), P)
  BY SelectPicks
<1> HIDE DEF kept
<1>3. DOMAIN kept = 1..Len(kept) /\ DOMAIN store = 1..Len(store)
  BY <1>1
<1>4. /\ e[p] \in DOMAIN store /\ e[q] \in DOMAIN store /\ e[p] < e[q]
      /\ kept[p] = store[e[p]] /\ kept[q] = store[e[q]]
  BY <1>2, <1>3 DEF Picks, kept
<1>5. a = e[p] /\ b = e[q]
  <2>1. store[a] = store[e[p]] /\ store[b] = store[e[q]]
    BY <1>4 DEF kept
  <2> QED
    BY <1>4, <2>1, SidsDiffer
<1> QED
  BY <1>4, <1>5

LEMMA RequestEvicts ==
    ASSUME Typed, TypeOK, StoreIsOrdered, NEW t \in Turns, NEW s \in SessionIds, Request(t, s)
    PROVE  \/ \A q \in DOMAIN entries :
                 entries[q].sid # s /\ clock - entries[q].last_seen <= Ttl =>
                    \E p \in DOMAIN entries' : entries'[p].sid = entries[q].sid
           \/ /\ Len(entries') = MaxSessions
              /\ \A p, q \in DOMAIN entries :
                    /\ clock - entries[p].last_seen <= Ttl
                    /\ entries[p].sid \notin Ids(entries')
                    /\ entries[q].sid \in Ids(entries') \ {s}
                    => p < q
<1> DEFINE Fresh == {p \in DOMAIN entries : clock - entries[p].last_seen <= Ttl}
           live == Select(entries, Fresh)
           new == Len(log) + 1
           E(m) == Entry(s, m)
<1>1. /\ live \in Seq(Entries) /\ Sorted(live) /\ Len(live) <= MaxSessions
      /\ \A q \in Fresh : \E p \in DOMAIN live : live[p] = entries[q]
      /\ \A p \in DOMAIN live : \E q \in DOMAIN entries : live[p] = entries[q]
  BY LiveStore DEF Live
<1>2. live = Live(entries)
  BY DEF Live
<1>3. entries \in Seq(Entries) /\ Sorted(entries)
  BY DEF Typed, StoreIsOrdered, Sorted
<1>4. \A p, q \in DOMAIN live : \A a, b \in DOMAIN entries :
          p < q /\ live[p] = entries[a] /\ live[q] = entries[b] => a < b
  <2> HIDE DEF Fresh
  <2> QED
    BY <1>3, SelectOrder
<1>5. \A q \in DOMAIN entries : q \in Fresh <=> clock - entries[q].last_seen <= Ttl
  OBVIOUS
<1> HIDE DEF live, Fresh, E, new
<1>9. Len(live) \in Nat /\ DOMAIN live = 1..Len(live) /\ MaxSessions \in Nat \ {0}
  BY <1>1, StoreAssumption
<1>6. CASE s \in Ids(live)
  <2> DEFINE P == {p \in DOMAIN live : live[p].sid # s}
             others == Select(live, P)
             m == MemoryOf(live, s)
  <2>1. entries' = Append(others, E(m))
    BY <1>2, <1>6 DEF Request, Touch, E
  <2> HIDE DEF m
  <2>2. /\ others \in Seq(Entries)
        /\ \A r \in DOMAIN live : r \in P => \E q \in DOMAIN others : others[q] = live[r]
    <3> HIDE DEF P
    <3>1. live \in Seq(Entries) /\ Sorted(live)
      BY <1>1
    <3>2. /\ others \in Seq(Entries) /\ Sorted(others)
          /\ \A q \in DOMAIN others : \E r \in DOMAIN live : r \in P /\ others[q] = live[r]
          /\ \A r \in DOMAIN live : r \in P => \E q \in DOMAIN others : others[q] = live[r]
      BY <3>1, SelectStore
    <3> QED
      BY <3>2
  <2> HIDE DEF others
  <2>3. \A q \in DOMAIN others : q \in DOMAIN entries' /\ entries'[q] = others[q]
    BY <2>1, <2>2
  <2>4. \A q \in Fresh : entries[q].sid # s => \E p \in DOMAIN entries' : entries'[p] = entries[q]
    <3> SUFFICES ASSUME NEW q \in Fresh, entries[q].sid # s
                 PROVE  \E p \in DOMAIN entries' : entries'[p] = entries[q]
      OBVIOUS
    <3>1. PICK r \in DOMAIN live : live[r] = entries[q]
      BY <1>1
    <3>2. PICK p \in DOMAIN others : others[p] = live[r]
      BY <2>2, <3>1
    <3> QED
      BY <2>3, <3>1, <3>2
  <2> QED
    BY <1>5, <2>4
<1>7. CASE s \notin Ids(live)
  <2> DEFINE longer == Append(live, E(new))
  <2>1. entries' = Newest(longer)
    BY <1>2, <1>7 DEF Request, E, new
  <2>2. E(new) \in Entries /\ E(new).sid = s
    BY DEF Typed, Entry, Entries, E, new
  <2>3. /\ longer \in Seq(Entries) /\ Len(longer) = Len(live) + 1
        /\ \A p \in DOMAIN live : p \in DOMAIN longer /\ longer[p] = live[p]
        /\ longer[Len(longer)].sid = s /\ DOMAIN longer = 1..Len(longer)
    BY <1>1, <2>2
  <2> HIDE DEF longer
  <2>4. CASE entries' = longer
    BY <1>1, <1>5, <2>3, <2>4
  <2>5. CASE Len(longer) > MaxSessions
    <3>0. Len(longer) = MaxSessions + 1
      BY <1>1, <1>9, <2>3, <2>5
    <3>1. entries' = SubSeq(longer, 2, Len(longer)) /\ Len(longer) = MaxSessions + 1
      BY <1>9, <2>1, <3>0 DEF Newest
    <3>2. /\ Len(entries') = MaxSessions /\ DOMAIN entries' = 1..MaxSessions
          /\ \A p \in 1..MaxSessions : entries'[p] = longer[p + 1]
      BY <2>3, <3>1, StoreAssumption
    <3>3. \A r \in DOMAIN live : r = 1 \/ live[r].sid \in Ids(entries')
      <4> SUFFICES ASSUME NEW r \in DOMAIN live, r # 1
                   PROVE  live[r].sid \in Ids(entries')
        OBVIOUS
      <4>1. r - 1 \in 1..MaxSessions /\ (r - 1) + 1 = r
        BY <1>1, <1>9
      <4>2. entries'[r - 1] = live[r]
        BY <2>3, <3>2, <4>1
      <4> QED
        BY <3>2, <4>1, <4>2 DEF Ids
    <3>4. \A x \in Ids(entries') \ {s} : \E r \in DOMAIN live : r > 1 /\ live[r].sid = x
      <4> SUFFICES ASSUME NEW i \in DOMAIN entries', entries'[i].sid # s
                   PROVE  \E r \in DOMAIN live : r > 1 /\ live[r].sid = entries'[i].sid
        BY DEF Ids
      <4>1. entries'[i] = longer[i + 1] /\ i + 1 \in 1..Len(longer) /\ i + 1 # Len(longer)
        BY <2>3, <3>1, <3>2, StoreAssumption
      <4>2. i + 1 \in DOMAIN live /\ i + 1 > 1
        BY <1>1, <2>3, <3>2, <4>1, StoreAssumption
      <4> QED
        BY <2>3, <4>1, <4>2
    <3> SUFFICES ASSUME NEW p \in DOMAIN entries, NEW q \in DOMAIN entries,
                        clock - entries[p].last_seen <= Ttl,
                        entries[p].sid \notin Ids(entries'),
                        entries[q].sid \in Ids(entries') \ {s}
                 PROVE  p < q
      BY <3>2
    <3>5. 1 \in DOMAIN live /\ live[1] = entries[p]
      BY <1>1, <1>5, <3>3
    <3>6. PICK r \in DOMAIN live : r > 1 /\ live[r].sid = entries[q].sid
      BY <3>4
    <3>7. live[r] = entries[q]
      BY <1>1, <1>3, <3>6, SidsDiffer
    <3> QED
      BY <1>4, <3>5, <3>6, <3>7
  <2> QED
    BY <1>1, <2>1, <2>3, <2>4, <2>5, StoreAssumption DEF Newest
<1> QED
  BY <1>6, <1>7

LEMMA RequestEvictsExactly ==
    ASSUME IInv, NEW t \in Turns, NEW s \in SessionIds, Request(t, s)
    PROVE  EvictsExactly
<1> DEFINE others == Ids(entries) \ {s}
           live == {r \in others : \E p \in DOMAIN entries :
                       entries[p].sid = r /\ clock - entries[p].last_seen <= Ttl}
           kept == Ids(entries') \ {s}
<1>1. Typed /\ TypeOK /\ StoreIsOrdered
  BY DEF IInv
<1>2. /\ entries' \in Seq(Entries) /\ Sorted(entries') /\ entries' # <<>>
      /\ entries'[Len(entries')] = Entry(s, memory'[t])
      /\ \A p \in DOMAIN entries' : p < Len(entries') =>
            \E q \in DOMAIN entries :
                /\ entries'[p] = entries[q] /\ entries[q].sid # s
                /\ clock - entries[q].last_seen <= Ttl
  BY <1>1, RequestStore
<1>3. Last(entries').sid = s
  BY <1>2 DEF Last, Entry
<1>4. kept \subseteq live
  <2> SUFFICES ASSUME NEW p \in DOMAIN entries', entries'[p].sid # s
               PROVE  entries'[p].sid \in live
    BY DEF Ids
  <2>1. p < Len(entries')
    BY <1>2 DEF Entry
  <2> QED
    BY <1>2, <2>1 DEF Ids
<1>5. \A p \in DOMAIN entries :
          entries[p].sid \in live => clock - entries[p].last_seen <= Ttl
  <2> SUFFICES ASSUME NEW p \in DOMAIN entries, NEW q \in DOMAIN entries,
                      entries[q].sid = entries[p].sid, clock - entries[q].last_seen <= Ttl
               PROVE  clock - entries[p].last_seen <= Ttl
    OBVIOUS
  <2>1. entries \in Seq(Entries) /\ Sorted(entries)
    BY <1>1 DEF Typed, StoreIsOrdered, Sorted
  <2>2. p = q
    BY <2>1, SidsDiffer
  <2> QED
    BY <2>2
<1>6. /\ live # kept => Len(entries') = MaxSessions
      /\ \A p, q \in DOMAIN entries :
            entries[p].sid \in live \ kept /\ entries[q].sid \in kept => p < q
  <2>1. CASE \A q \in DOMAIN entries :
                 entries[q].sid # s /\ clock - entries[q].last_seen <= Ttl =>
                    \E p \in DOMAIN entries' : entries'[p].sid = entries[q].sid
    <3>1. live \subseteq kept
      BY <2>1 DEF Ids
    <3> QED
      BY <1>4, <3>1
  <2>2. CASE /\ Len(entries') = MaxSessions
             /\ \A p, q \in DOMAIN entries :
                   /\ clock - entries[p].last_seen <= Ttl
                   /\ entries[p].sid \notin Ids(entries')
                   /\ entries[q].sid \in Ids(entries') \ {s}
                   => p < q
    BY <1>5, <2>2
  <2> QED
    BY <1>1, <2>1, <2>2, RequestEvicts
<1> QED
  BY <1>3, <1>4, <1>6 DEF EvictsExactly

(* A request drops only what has expired, and past the cap only what was   *)
(* used before everything it keeps.                                        *)
THEOREM EvictionIsRight == Spec => EvictionIsExact
<1>1. ASSUME IInv, [Next]_vars
      PROVE  [EvictsExactly]_vars
  <2>1. ASSUME NEW t \in Turns, NEW s \in SessionIds, Request(t, s)
        PROVE  EvictsExactly
    BY <1>1, <2>1, RequestEvictsExactly
  <2>2. ASSUME NEW t \in Turns, Accept(t) \/ Answer(t) \/ Fail(t)
        PROVE  EvictsExactly
    BY <2>2 DEF Accept, Answer, Fail, EvictsExactly
  <2>3. CASE Tick
    BY <2>3 DEF Tick, EvictsExactly
  <2> QED
    BY <1>1, <2>1, <2>2, <2>3 DEF Next
<1> QED
  BY Invariance, <1>1, PTL DEF Spec, EvictionIsExact
=============================================================================
