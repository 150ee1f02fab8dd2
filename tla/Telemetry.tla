----------------------------- MODULE Telemetry -----------------------------
(***************************************************************************)
(* What observes the agent: CostAccountant (accounting.py) and             *)
(* TracingHooks (tracing.py), callbacks of Hooks.emit, which calls them    *)
(* synchronously in the emitting task.  Several runs emit interleaved      *)
(* events.  A run emits what Agent._run_loop and _run_tool do; a run whose *)
(* tool call raised emits run_end while the sibling calls that gather left *)
(* behind go on emitting (ToolBatch).  A run carries the id of its session *)
(* or one of its own.  Nothing in the code keeps two turns of one session  *)
(* from overlapping, so runs with the same id do so here too.              *)
(***************************************************************************)
EXTENDS Naturals, FiniteSets, Functions

CONSTANTS
    Runs,       \* bound: the runs made
    Ids,        \* the run_ids (correlation_id) runs are given
    Calls,      \* the concurrent tool calls of a run; the model gives each
                \* call of each run an id of its own
    MaxRounds   \* Agent.max_iterations

ASSUME TelemetryAssumption == MaxRounds \in Nat /\ IsFiniteSet(Ids)

VARIABLES
    idOf,     \* the id of each run
    pc,       \* of each run: "new", "deciding", "model", "tools", "closing", "over"
    rounds,   \* its model calls
    call,     \* its tool calls: "idle", "queued", "open", "screening", "done", "raised"
    emitted,  \* the tally of all events emitted under an id (history variable)
    tallies,  \* CostAccountant._runs: run id -> tally
    grand,    \* CostAccountant.grand
    logged,   \* the sum of the scorecards logged for an id (history variable)
    spans,    \* spans started so far, each with its parent
    ended,    \* spans ended
    held,     \* TracingHooks._runs, _llm and _tools: the spans they hold
    raced     \* ids that two runs have carried at once (history variable)

run == <<idOf, pc, rounds, call>>
account == <<emitted, tallies, grand, logged>>
trace == <<spans, ended, held>>
vars == <<run, account, trace, raced>>

None == "none"

(* A RunTally: counts of what the events carry.                            *)
Zero == [llm |-> 0, tools |-> 0, errors |-> 0, trips |-> 0]
Plus(a, b) == [f \in DOMAIN Zero |-> a[f] + b[f]]
OrZero(t, id) == IF id \in DOMAIN t THEN t[id] ELSE Zero

Init ==
    /\ idOf \in [Runs -> Ids]
    /\ pc = [r \in Runs |-> "new"]
    /\ rounds = [r \in Runs |-> 0]
    /\ call = [r \in Runs |-> [c \in Calls |-> "idle"]]
    /\ emitted = [id \in Ids |-> Zero]
    /\ tallies = [id \in {} |-> Zero]
    /\ grand = Zero
    /\ logged = [id \in Ids |-> Zero]
    /\ spans = {} /\ ended = {} /\ held = {}
    /\ raced = {}

-----------------------------------------------------------------------------
(* CostAccountant.                                                         *)

Add(id, what) ==
    tallies' = [i \in DOMAIN tallies \cup {id} |->
        IF i = id THEN Plus(OrZero(tallies, id), what) ELSE tallies[i]]

(* Seeded fault of Tally: an event finds its tally only if the run is      *)
(* known already.                                                          *)
Tally_NoDefault(id, what) ==
    /\ IF id \in DOMAIN tallies THEN Add(id, what) ELSE UNCHANGED tallies
    /\ grand' = Plus(grand, what)
    /\ emitted' = [emitted EXCEPT ![id] = Plus(@, what)]
    /\ UNCHANGED logged

(* on_llm_end, on_tool_end, on_guardrail: setdefault, then add to the run  *)
(* and to the grand total.                                                 *)
Tally(id, what) ==
    /\ Add(id, what)
    /\ grand' = Plus(grand, what)
    /\ emitted' = [emitted EXCEPT ![id] = Plus(@, what)]
    /\ UNCHANGED logged

(* on_run_end: pop the tally, log it if there is one.                      *)
CloseTally(id) ==
    /\ tallies' = [i \in DOMAIN tallies \ {id} |-> tallies[i]]
    /\ logged' = [logged EXCEPT ![id] = Plus(@, OrZero(tallies, id))]
    /\ UNCHANGED <<grand, emitted>>

-----------------------------------------------------------------------------
(* TracingHooks.  A span is named by what it covers.  held maps a key (the *)
(* table, the run id and the call id) to one span.                         *)
Key(table, id, c) == <<table, id, c>>

HeldAt(key) == {h.span : h \in {h \in held : h.key = key}}

SpanOf(name, parent) == [name |-> name, parent |-> parent]

(* A run's span is a root; the parent of the others is the run span held   *)
(* for their id when they start, if there is one.                          *)
Root == {}
Under(id) == HeldAt(Key("run", id, None))

OpenSpan(key, name, parent) ==
    /\ spans' = spans \cup {SpanOf(name, parent)}
    /\ held' = {h \in held : h.key # key} \cup {[key |-> key, span |-> SpanOf(name, parent)]}
    /\ UNCHANGED ended

(* Nothing happens when no span is held under the key.                     *)
CloseSpan(key) ==
    /\ ended' = ended \cup HeldAt(key)
    /\ held' = {h \in held : h.key # key}
    /\ UNCHANGED spans

(* Seeded fault of CloseRun: only the run's own span is ended.             *)
CloseRun_OwnSpanOnly(id) ==
    /\ ended' = ended \cup HeldAt(Key("run", id, None))
    /\ held' = {h \in held : h.key[2] # id}
    /\ UNCHANGED spans

(* _run_end: children first, then the run.                                 *)
CloseRun(id) ==
    /\ ended' = ended \cup {h.span : h \in {h \in held : h.key[2] = id}}
    /\ held' = {h \in held : h.key[2] # id}
    /\ UNCHANGED spans

-----------------------------------------------------------------------------
(* The emitting side.                                                      *)
RunStart(r) ==
    /\ pc[r] = "new"
    /\ pc' = [pc EXCEPT ![r] = "deciding"]
    /\ raced' = raced \cup {idOf[u] : u \in {u \in Runs \ {r} :
                    idOf[u] = idOf[r] /\ pc[u] \notin {"new", "over"}}}
    /\ OpenSpan(Key("run", idOf[r], None), <<"run", r, 0>>, Root)
    /\ UNCHANGED <<idOf, rounds, call, account>>

(* run_end, whether the run returns or raises.                             *)
RunEnd(r) ==
    /\ pc' = [pc EXCEPT ![r] = "over"]
    /\ CloseTally(idOf[r])
    /\ CloseRun(idOf[r])
    /\ UNCHANGED <<idOf, rounds, call>>

LlmStart(r) ==
    /\ pc[r] = "deciding" /\ rounds[r] < MaxRounds
    /\ pc' = [pc EXCEPT ![r] = "model"]
    /\ rounds' = [rounds EXCEPT ![r] = @ + 1]
    /\ OpenSpan(Key("llm", idOf[r], None), <<"llm", r, rounds'[r]>>, Under(idOf[r]))
    /\ UNCHANGED <<idOf, call, account>>

(* A reply with tool calls when there are none yet, or a final answer.     *)
LlmEnd(r) ==
    /\ pc[r] = "model"
    /\ \/ pc' = [pc EXCEPT ![r] = "deciding"] /\ UNCHANGED call
       \/ /\ \A c \in Calls : call[r][c] = "idle"
          /\ pc' = [pc EXCEPT ![r] = "tools"]
          /\ call' = [call EXCEPT ![r] = [c \in Calls |-> "queued"]]
    /\ Tally(idOf[r], [Zero EXCEPT !.llm = 1])
    /\ CloseSpan(Key("llm", idOf[r], None))
    /\ UNCHANGED <<idOf, rounds>>

(* The model call raises: no llm_end, only run_end.                        *)
LlmFail(r) == pc[r] = "model" /\ RunEnd(r)

(* The guardrail blocks the input or redacts the answer: the run closes.   *)
Trip(r) ==
    /\ pc[r] = "deciding"
    /\ pc' = [pc EXCEPT ![r] = "closing"]
    /\ Tally(idOf[r], [Zero EXCEPT !.trips = 1])
    /\ UNCHANGED <<idOf, rounds, call, trace>>

Leave(r) == pc[r] \in {"deciding", "closing"} /\ RunEnd(r)

Step(r, c, from, to) ==
    /\ call[r][c] = from
    /\ call' = [call EXCEPT ![r][c] = to]
    /\ UNCHANGED <<idOf, pc, rounds>>

ToolStart(r, c) ==
    /\ Step(r, c, "queued", "open")
    /\ OpenSpan(Key("tool", idOf[r], <<r, c>>), <<"tool", r, c>>, Under(idOf[r]))
    /\ UNCHANGED account

ToolEnd(r, c) ==
    /\ Step(r, c, "open", "screening")
    /\ \E errors \in {0, 1} : Tally(idOf[r], [Zero EXCEPT !.tools = 1, !.errors = errors])
    /\ CloseSpan(Key("tool", idOf[r], <<r, c>>))

(* The call raises between tool_start and tool_end.                        *)
ToolRaise(r, c) == Step(r, c, "open", "raised") /\ UNCHANGED <<account, trace>>

(* The guardrail leaves the result alone, trips on it, or raises.          *)
Screen(r, c) ==
    /\ \/ Step(r, c, "screening", "done") /\ UNCHANGED account
       \/ Step(r, c, "screening", "done") /\ Tally(idOf[r], [Zero EXCEPT !.trips = 1])
       \/ Step(r, c, "screening", "raised") /\ UNCHANGED account
    /\ UNCHANGED trace

ToolsReturn(r) ==
    /\ pc[r] = "tools" /\ \A c \in Calls : call[r][c] = "done"
    /\ pc' = [pc EXCEPT ![r] = "deciding"]
    /\ UNCHANGED <<idOf, rounds, call, account, trace>>

ToolsRaise(r) ==
    /\ pc[r] = "tools" /\ \E c \in Calls : call[r][c] = "raised"
    /\ RunEnd(r)

RunStep(r) ==
    \/ LlmStart(r) \/ LlmEnd(r) \/ LlmFail(r) \/ Trip(r) \/ Leave(r)
    \/ ToolsReturn(r) \/ ToolsRaise(r)
    \/ \E c \in Calls : ToolStart(r, c) \/ ToolEnd(r, c) \/ ToolRaise(r, c) \/ Screen(r, c)

Next == \E r \in Runs : RunStart(r) \/ (RunStep(r) /\ UNCHANGED raced)

Spec == Init /\ [][Next]_vars

-----------------------------------------------------------------------------
Sum(tally) == [f \in DOMAIN Zero |-> SumFunction([id \in Ids |-> tally[id][f]])]

(* Under each id, the logged scorecards and the open tally add up to what   *)
(* has been emitted.                                                       *)
ScorecardsAdd == \A id \in Ids : emitted[id] = Plus(logged[id], OrZero(tallies, id))

(* No event is lost or counted twice, however the runs interleave and      *)
(* whenever stray calls report: what an id has emitted is what its logged  *)
(* scorecards and its open tally hold, and the grand total holds every     *)
(* event emitted, those of runs still open and those of stray calls too,   *)
(* as the code adds each when it comes (accounting.py:111-133).  The       *)
(* comments there have the grand total cover completed runs, "folded in at *)
(* ``run_end``": that is not what is claimed here, nor what the code does. *)
NothingIsLost == ScorecardsAdd /\ grand = Sum(emitted)

(* Unless its id has been carried by two runs at once, no span can be      *)
(* forgotten: one that has not ended is held in a table, where an end      *)
(* event still finds it ("leaving them open loses the whole subtree",      *)
(* tracing.py), and the run's span that covers it is still open.           *)
SpansCloseInOrder ==
    \A s \in spans \ ended :
        idOf[s.name[2]] \notin raced =>
            /\ \E h \in held : h.span = s
            /\ s.parent \cap ended = {}

(* "Per-run tallies are dropped on run_end so memory stays bounded"        *)
(* (accounting.py:9): an id whose runs are all over keeps no tally.        *)
TalliesAreDropped ==
    \A id \in Ids :
        (\A r \in Runs : idOf[r] = id => pc[r] = "over") => id \notin DOMAIN tallies
=============================================================================
