----------------------------- MODULE ToolBatch -----------------------------
(***************************************************************************)
(* Agent._execute_tool_calls and Agent._run_tool (agent.py): the tool      *)
(* calls of one assistant turn.  A maximal run of consecutive              *)
(* concurrency-safe calls is gathered as asyncio tasks behind a semaphore; *)
(* any other call is awaited alone.  Each call passes the permission       *)
(* policy, the tool and the output guardrail, and control only changes     *)
(* hands at an await: an action below is the code between two of them.     *)
(*                                                                         *)
(* asyncio.gather is called without return_exceptions, so the first call   *)
(* that raises ends the turn and leaves its siblings running.              *)
(***************************************************************************)
EXTENDS Naturals, FiniteSets

CONSTANTS N,                   \* number of tool calls in the turn
          MaxConcurrentTools   \* Agent.max_concurrent_tools

ASSUME NAssumption == N \in Nat \ {0}
ASSUME CapAssumption == MaxConcurrentTools \in Nat \ {0}

VARIABLES
    safe,       \* calls for which ToolRegistry.is_concurrency_safe holds
    permitted,  \* calls whose policy decision has allowed = True
    phase,      \* of the coroutine running _execute_tool_calls
    i,          \* its cursor: the first call of the run being executed
    j,          \* one past the last call of that run
    call,       \* call[k]: how far the k-th call's run_one has come
    results,    \* the list the turn returns, by position
    ended       \* calls whose tool_end event has been emitted

batch == <<safe, permitted>>
vars == <<safe, permitted, phase, i, j, call, results, ended>>

Calls == 1..N
Run == i..(j - 1)              \* the calls awaited now

Phases == {"deciding", "awaiting", "returned", "raised"}
CallStates == {"waiting", "queued", "tool", "screening", "done", "raised"}
Results == {"none", "blocked", "result", "redacted"}

TypeOK ==
    /\ safe \in SUBSET Calls
    /\ permitted \in SUBSET Calls
    /\ phase \in Phases
    /\ i \in 1..(N + 1)
    /\ j \in 1..(N + 1)
    /\ call \in [Calls -> CallStates]
    /\ results \in [Calls -> Results]
    /\ ended \in SUBSET Calls

Init ==
    /\ safe \in SUBSET Calls
    /\ permitted \in SUBSET Calls
    /\ phase = "deciding"
    /\ i = 1
    /\ j = 1
    /\ call = [k \in Calls |-> "waiting"]
    /\ results = [k \in Calls |-> "none"]
    /\ ended = {}

-----------------------------------------------------------------------------
(* One call.                                                               *)

(* The semaphore is held from tool_start until the guardrail has answered. *)
Holding == {k \in Calls : call[k] \in {"tool", "screening"}}

(* run_one up to its first suspension, given that the semaphore is free:   *)
(* tool_start is emitted and the policy consulted.  A denied call emits    *)
(* tool_end and finishes at once; the policy may also raise.               *)
Begin(k) ==
    \/ /\ k \in permitted
       /\ call' = [call EXCEPT ![k] = "tool"]
       /\ UNCHANGED <<results, ended>>
    \/ /\ k \notin permitted
       /\ call' = [call EXCEPT ![k] = "done"]
       /\ results' = [results EXCEPT ![k] = "blocked"]
       /\ ended' = ended \cup {k}
    \/ /\ call' = [call EXCEPT ![k] = "raised"]
       /\ UNCHANGED <<results, ended>>

(* Seeded faults of Start: a pool that is never consulted; a task that     *)
(* gives up its place in the queue when the turn it belongs to has failed. *)
Start_NoSemaphore(k) ==
    /\ call[k] = "queued"
    /\ \A a \in Calls : call[a] = "queued" => k <= a
    /\ Begin(k)
    /\ UNCHANGED <<batch, phase, i, j>>

Start_AbandonedWithTurn(k) ==
    /\ phase = "awaiting"
    /\ Start_NoSemaphore(k)
    /\ Cardinality(Holding) < MaxConcurrentTools

(* A gathered task acquires the semaphore.  asyncio.Semaphore is first-in  *)
(* first-out, and gather creates the tasks in call order.  Nothing asks    *)
(* whether the turn that queued the task is still there.                   *)
Start(k) ==
    /\ call[k] = "queued"
    /\ \A a \in Calls : call[a] = "queued" => k <= a
    /\ Cardinality(Holding) < MaxConcurrentTools
    /\ Begin(k)
    /\ UNCHANGED <<batch, phase, i, j>>

(* Seeded fault of ToolReturns: no tool_end for a call that ran.           *)
ToolReturns_Silent(k) ==
    /\ call[k] = "tool"
    /\ call' = [call EXCEPT ![k] = "screening"]
    /\ UNCHANGED <<batch, phase, i, j, results, ended>>

(* ToolRegistry.invoke returns: an exception of the tool is a result too.  *)
ToolReturns(k) ==
    /\ call[k] = "tool"
    /\ call' = [call EXCEPT ![k] = "screening"]
    /\ ended' = ended \cup {k}
    /\ UNCHANGED <<batch, phase, i, j, results>>

(* json.dumps of a value that is not serialisable is outside its try.      *)
ToolRaises(k) ==
    /\ call[k] = "tool"
    /\ call' = [call EXCEPT ![k] = "raised"]
    /\ UNCHANGED <<batch, phase, i, j, results, ended>>

(* guardrail.check_output keeps the text or replaces it.                   *)
ScreenReturns(k) ==
    /\ call[k] = "screening"
    /\ call' = [call EXCEPT ![k] = "done"]
    /\ \E r \in {"result", "redacted"} : results' = [results EXCEPT ![k] = r]
    /\ UNCHANGED <<batch, phase, i, j, ended>>

ScreenRaises(k) ==
    /\ call[k] = "screening"
    /\ call' = [call EXCEPT ![k] = "raised"]
    /\ UNCHANGED <<batch, phase, i, j, results, ended>>

-----------------------------------------------------------------------------
(* The loop of _execute_tool_calls.                                        *)

(* Seeded fault of GatherRun: the flat gather the docstring warns of.      *)
GatherRun_Flat ==
    /\ phase = "deciding"
    /\ i \in Calls
    /\ j' = N + 1
    /\ call' = [k \in Calls |-> IF k >= i THEN "queued" ELSE call[k]]
    /\ phase' = "awaiting"
    /\ UNCHANGED <<batch, i, results, ended>>

(* gather the maximal run of concurrency-safe calls that starts at i.      *)
GatherRun ==
    /\ phase = "deciding"
    /\ i \in safe
    /\ \E e \in (i + 1)..(N + 1) :
        /\ i..(e - 1) \subseteq safe
        /\ e \notin safe
        /\ j' = e
        /\ call' = [k \in Calls |-> IF k \in i..(e - 1) THEN "queued" ELSE call[k]]
    /\ phase' = "awaiting"
    /\ UNCHANGED <<batch, i, results, ended>>

(* await run_one(i): no task is created, the call begins in this step.     *)
RunAlone ==
    /\ phase = "deciding"
    /\ i \in Calls \ safe
    /\ Begin(i)
    /\ j' = i + 1
    /\ phase' = "awaiting"
    /\ UNCHANGED <<batch, i>>

(* Seeded faults of AwaitReturns: exceptions gathered as results; a cursor *)
(* that steps over a call.                                                 *)
AwaitReturns_IgnoringExceptions ==
    /\ phase = "awaiting"
    /\ \A k \in Run : call[k] \in {"done", "raised"}
    /\ i' = j
    /\ phase' = "deciding"
    /\ UNCHANGED <<batch, j, call, results, ended>>

AwaitReturns_OffByOne ==
    /\ phase = "awaiting"
    /\ \A k \in Run : call[k] = "done"
    /\ i' = j + 1
    /\ phase' = "deciding"
    /\ UNCHANGED <<batch, j, call, results, ended>>

(* Control is back in the loop once every call of the run has finished.    *)
AwaitReturns ==
    /\ phase = "awaiting"
    /\ \A k \in Run : call[k] = "done"
    /\ i' = j
    /\ phase' = "deciding"
    /\ UNCHANGED <<batch, j, call, results, ended>>

(* The first exception is delivered while siblings may still be running.   *)
AwaitRaises ==
    /\ phase = "awaiting"
    /\ \E k \in Run : call[k] = "raised"
    /\ phase' = "raised"
    /\ UNCHANGED <<batch, i, j, call, results, ended>>

Return ==
    /\ phase = "deciding"
    /\ i = N + 1
    /\ phase' = "returned"
    /\ UNCHANGED <<batch, i, j, call, results, ended>>

CallStep(k) ==
    \/ Start(k)
    \/ ToolReturns(k) \/ ToolRaises(k)
    \/ ScreenReturns(k) \/ ScreenRaises(k)

TurnStep == GatherRun \/ RunAlone \/ AwaitReturns \/ AwaitRaises \/ Return

Next == TurnStep \/ \E k \in Calls : CallStep(k)

Spec == Init /\ [][Next]_vars

(* The event loop runs every ready task and coroutine.  That a tool and    *)
(* the guardrail answer or raise is assumed: agent.py puts no deadline on  *)
(* them.                                                                   *)
Fairness ==
    /\ WF_vars(TurnStep)
    /\ \A k \in Calls : WF_vars(CallStep(k))

FairSpec == Spec /\ Fairness

-----------------------------------------------------------------------------
(* Safety.                                                                 *)

Begun(k) == call[k] \notin {"waiting", "queued"}
Busy == {k \in Calls : call[k] \in {"queued", "tool", "screening"}}

(* "A mutating call runs alone and acts as a barrier": when a call that is *)
(* not concurrency-safe is in flight every earlier call of the turn has    *)
(* finished and no later call has begun (agent.py, _execute_tool_calls).   *)
MutatorRunsAlone ==
    \A m \in Holding \ safe :
        \A k \in Calls : /\ k < m => call[k] = "done"
                         /\ k > m => call[k] = "waiting"

(* The pool is bounded by the semaphore and by running a mutator alone.    *)
PoolIsBounded == Cardinality(Holding) <= MaxConcurrentTools

(* A turn that returns has answered every call, with the result at the     *)
(* call's own position, and every tool_start has had its tool_end; nothing *)
(* of it is left running.                                                  *)
ReturnedIsComplete ==
    phase = "returned" =>
        /\ ended = Calls
        /\ \A k \in Calls : /\ call[k] = "done"
                            /\ results[k] # "none"
                            /\ results[k] = "blocked" <=> k \notin permitted

(* Once the turn has failed, the calls that may still begin are only those *)
(* of the run that failed: nothing past it, and in particular no mutating  *)
(* call behind it, is ever started.                                        *)
FailureStopsTheTurn ==
    \A k \in Calls : Begun(k) =>
        \A a \in Calls : a < k /\ (a \notin safe \/ k \notin safe) => call[a] = "done"

(* The turn ends, and so does every task it started, the siblings an       *)
(* exception left behind included.                                         *)
TurnSettles == <>[](phase \in {"returned", "raised"} /\ Busy = {})

-----------------------------------------------------------------------------
(* The turn implements ToolOrder: only success, failure and being in       *)
(* flight of a call are visible there.                                     *)
AbsState == [k \in Calls |->
    IF call[k] \in {"waiting", "queued"} THEN "pending"
    ELSE IF call[k] \in {"tool", "screening"} THEN "running"
    ELSE IF call[k] = "done" THEN "ok"
    ELSE "failed"]

Order == INSTANCE ToolOrder WITH state <- AbsState
OrderSpec == Order!Spec
=============================================================================
