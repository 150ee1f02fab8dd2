----------------------------- MODULE ToolOrder -----------------------------
(***************************************************************************)
(* What Agent._execute_tool_calls promises for one assistant turn, without *)
(* saying how: two calls of the turn conflict when at least one of them is *)
(* not concurrency-safe, a call takes effect only after every earlier call *)
(* it conflicts with has succeeded, and at most MaxConcurrentTools calls   *)
(* are in flight.  Nothing is said of batches, tasks or semaphores.        *)
(***************************************************************************)
EXTENDS Naturals, FiniteSets

CONSTANTS N,                   \* number of tool calls in the turn
          MaxConcurrentTools   \* Agent.max_concurrent_tools

VARIABLES safe,    \* the calls is_concurrency_safe accepts
          state    \* state[k] of the k-th call, in the order the model asked

vars == <<safe, state>>

Calls == 1..N
Running == {k \in Calls : state[k] = "running"}

Conflict(a, b) == a \notin safe \/ b \notin safe

Ready(k) ==
    /\ state[k] = "pending"
    /\ Cardinality(Running) < MaxConcurrentTools
    /\ \A a \in Calls : a < k /\ Conflict(a, k) => state[a] = "ok"

Init ==
    /\ safe \in SUBSET Calls
    /\ state = [k \in Calls |-> "pending"]

Start(k) == Ready(k) /\ state' = [state EXCEPT ![k] = "running"]

(* A call the policy refuses is answered without ever running.             *)
SettleAtOnce(k, s) == Ready(k) /\ state' = [state EXCEPT ![k] = s]

Finish(k, s) == state[k] = "running" /\ state' = [state EXCEPT ![k] = s]

Next ==
    /\ UNCHANGED safe
    /\ \E k \in Calls :
        \/ Start(k)
        \/ \E s \in {"ok", "failed"} : SettleAtOnce(k, s) \/ Finish(k, s)

Spec == Init /\ [][Next]_vars
=============================================================================
