-------------------------- MODULE ToolBatch_proofs --------------------------
(***************************************************************************)
(* Proofs about ToolBatch for turns and pools of every size: its safety    *)
(* invariants, from one inductive invariant, and that it implements        *)
(* ToolOrder.                                                              *)
(***************************************************************************)
EXTENDS ToolBatch, FiniteSetTheorems, TLAPS

(* Where the loop stands: what is behind the cursor has finished and what  *)
(* is past the awaited run has not been touched.                           *)
Frontier == IF phase \in {"awaiting", "raised"} THEN j ELSE i

BehindIsDone == \A k \in Calls : k < i => call[k] = "done"

AheadIsFresh == \A k \in Calls : k >= Frontier => call[k] = "waiting"

(* The awaited run is one call, or consists of concurrency-safe calls.     *)
RunIsSafeOrSingle ==
    phase \in {"awaiting", "raised"} =>
        /\ i < j
        /\ j = i + 1 \/ \A k \in Calls : i <= k /\ k < j => k \in safe

ReturnedAtEnd == phase = "returned" => i = N + 1

(* What a call has left behind at each stage.                              *)
Trace ==
    \A k \in Calls :
        /\ call[k] \in {"tool", "screening"} => k \in permitted
        /\ call[k] \in {"screening", "done"} => k \in ended
        /\ call[k] = "done" => /\ results[k] # "none"
                               /\ results[k] = "blocked" <=> k \notin permitted

Shape == BehindIsDone /\ AheadIsFresh /\ RunIsSafeOrSingle /\ ReturnedAtEnd

IInv == TypeOK /\ Shape /\ Trace /\ PoolIsBounded

-----------------------------------------------------------------------------
(* Beginning a call changes that call only, and takes at most its own      *)
(* place in the pool.                                                      *)
LEMMA BeginLocal ==
    ASSUME TypeOK, NEW k \in Calls, Begin(k)
    PROVE  /\ call' \in [Calls -> CallStates]
           /\ results' \in [Calls -> Results]
           /\ ended' \in SUBSET Calls
           /\ \A a \in Calls \ {k} : /\ call'[a] = call[a]
                                     /\ results'[a] = results[a]
                                     /\ a \in ended' <=> a \in ended
           /\ call'[k] \in {"tool", "done", "raised"}
           /\ call'[k] = "tool" => k \in permitted
           /\ call'[k] = "done" => /\ k \notin permitted
                                   /\ results'[k] = "blocked"
                                   /\ k \in ended'
           /\ Holding' \subseteq Holding \cup {k}
  BY DEF TypeOK, Begin, Holding, CallStates, Results

(* The calls in flight are finitely many.                                  *)
LEMMA HoldingFinite == IsFiniteSet(Holding)
  <1>1. IsFiniteSet(Calls)
    BY NAssumption, FS_Interval DEF Calls
  <1>2. Holding \subseteq Calls
    BY DEF Holding
  <1> QED
    BY <1>1, <1>2, FS_Subset

(* A pool that has not grown is still within its bound.                    *)
LEMMA PoolShrinks ==
    ASSUME PoolIsBounded, NEW S, S \subseteq Holding
    PROVE  Cardinality(S) <= MaxConcurrentTools
  <1>1. IsFiniteSet(S) /\ Cardinality(S) <= Cardinality(Holding)
    BY HoldingFinite, FS_Subset
  <1>2. Cardinality(S) \in Nat /\ Cardinality(Holding) \in Nat
    BY <1>1, HoldingFinite, FS_CardinalityType
  <1> QED
    BY <1>1, <1>2, CapAssumption DEF PoolIsBounded

(* One more call fits a pool that is not full.                             *)
LEMMA PoolGrows ==
    ASSUME NEW S,
           NEW k, S \subseteq Holding \cup {k},
           Cardinality(Holding) < MaxConcurrentTools
    PROVE  Cardinality(S) <= MaxConcurrentTools
  <1>1. /\ IsFiniteSet(Holding \cup {k})
        /\ \/ Cardinality(Holding \cup {k}) = Cardinality(Holding)
           \/ Cardinality(Holding \cup {k}) = Cardinality(Holding) + 1
    BY HoldingFinite, FS_AddElement
  <1>2. IsFiniteSet(S) /\ Cardinality(S) <= Cardinality(Holding \cup {k})
    BY <1>1, FS_Subset
  <1>3. /\ Cardinality(S) \in Nat
        /\ Cardinality(Holding) \in Nat
        /\ Cardinality(Holding \cup {k}) \in Nat
    BY <1>1, <1>2, HoldingFinite, FS_CardinalityType
  <1> QED
    BY <1>1, <1>2, <1>3, CapAssumption

(* Between two awaited runs nothing is in flight.                          *)
LEMMA IdleBetweenRuns ==
    ASSUME TypeOK, Shape, phase \in {"deciding", "returned"}
    PROVE  Holding = {} /\ Cardinality(Holding) = 0
  <1>1. Holding = {}
    BY NAssumption DEF TypeOK, Shape, BehindIsDone, AheadIsFresh, Frontier, Holding, Calls
  <1> QED
    BY <1>1, FS_EmptySet

-----------------------------------------------------------------------------
(* The inductive invariant.                                                *)

LEMMA InitInv == Init => IInv
  <1> SUFFICES ASSUME Init PROVE IInv
    OBVIOUS
  <1>1. TypeOK
    BY NAssumption DEF Init, TypeOK, Phases, CallStates, Results
  <1>2. Shape
    BY NAssumption
    DEF Init, Shape, BehindIsDone, AheadIsFresh, Frontier, RunIsSafeOrSingle,
        ReturnedAtEnd, Calls
  <1>3. Trace
    BY DEF Init, Trace
  <1>4. Holding = {}
    BY DEF Init, Holding
  <1>5. PoolIsBounded
    BY <1>4, FS_EmptySet, CapAssumption DEF PoolIsBounded
  <1> QED
    BY <1>1, <1>2, <1>3, <1>5 DEF IInv

(* A step of one call that is queued or in flight, and is known to leave   *)
(* the other calls and the cursor alone, disturbs neither the frontier nor *)
(* what is behind it.                                                      *)
LEMMA CallKeepsShape ==
    ASSUME TypeOK, Shape, NEW k \in Calls,
           call[k] \in {"queued", "tool", "screening"},
           \A a \in Calls \ {k} : call'[a] = call[a],
           UNCHANGED <<batch, phase, i, j>>
    PROVE  Shape'
  <1>1. ~(k < i) /\ ~(k >= Frontier)
    BY DEF Shape, BehindIsDone, AheadIsFresh
  <1>2. Frontier' = Frontier
    BY DEF Frontier
  <1>3. BehindIsDone'
    BY <1>1 DEF Shape, BehindIsDone
  <1>4. AheadIsFresh'
    BY <1>1, <1>2 DEF Shape, AheadIsFresh
  <1>5. RunIsSafeOrSingle'
    BY DEF Shape, RunIsSafeOrSingle, batch
  <1>6. ReturnedAtEnd'
    BY DEF Shape, ReturnedAtEnd
  <1> QED
    BY <1>3, <1>4, <1>5, <1>6 DEF Shape

LEMMA StepInv == IInv /\ [Next]_vars => IInv'
  <1> SUFFICES ASSUME IInv, [Next]_vars PROVE IInv'
    OBVIOUS
  <1> USE DEF IInv
  <1>1. ASSUME NEW k \in Calls, Start(k) PROVE IInv'
    <2> USE <1>1 DEF Start
    <2>1. TypeOK'
      BY BeginLocal DEF TypeOK, batch
    <2>2. Shape'
      BY BeginLocal, CallKeepsShape
    <2>3. Trace'
      BY BeginLocal DEF Trace, batch, TypeOK
    <2>4. PoolIsBounded'
      BY BeginLocal, PoolGrows DEF PoolIsBounded
    <2> QED
      BY <2>1, <2>2, <2>3, <2>4
  <1>2. ASSUME NEW k \in Calls,
               ToolReturns(k) \/ ToolRaises(k) \/ ScreenReturns(k) \/ ScreenRaises(k)
        PROVE  IInv'
    <2> USE <1>2 DEF ToolReturns, ToolRaises, ScreenReturns, ScreenRaises
    <2>1. TypeOK'
      BY DEF TypeOK, batch, CallStates, Results
    <2>2. Shape'
      BY CallKeepsShape DEF TypeOK
    <2>3. Trace'
      BY DEF Trace, batch, TypeOK
    <2>4. Holding' \subseteq Holding
      BY DEF Holding, TypeOK
    <2>5. PoolIsBounded'
      BY <2>4, PoolShrinks DEF PoolIsBounded
    <2> QED
      BY <2>1, <2>2, <2>3, <2>5
  <1>3. CASE GatherRun
    <2> USE <1>3, IdleBetweenRuns DEF GatherRun
    <2>1. PICK e \in (i + 1)..(N + 1) :
            /\ i..(e - 1) \subseteq safe
            /\ j' = e
            /\ call' = [k \in Calls |-> IF k \in i..(e - 1) THEN "queued" ELSE call[k]]
      OBVIOUS
    <2>2. i \in Nat /\ e \in Nat /\ e \in 1..(N + 1) /\ i < e
      BY NAssumption DEF TypeOK
    <2>3. TypeOK'
      BY <2>1, <2>2 DEF TypeOK, Phases, CallStates, batch
    <2>4. BehindIsDone'
      BY <2>1, <2>2 DEF Shape, BehindIsDone
    <2>5. AheadIsFresh'
      BY <2>1, <2>2, NAssumption DEF Shape, AheadIsFresh, Frontier, Calls
    <2>6. RunIsSafeOrSingle' /\ ReturnedAtEnd'
      BY <2>1, <2>2, NAssumption DEF RunIsSafeOrSingle, ReturnedAtEnd, Calls, batch
    <2>7. Trace'
      BY <2>1 DEF Trace, batch
    <2>8. Holding' \subseteq Holding
      BY <2>1 DEF Holding
    <2>9. PoolIsBounded'
      BY <2>8, PoolShrinks DEF PoolIsBounded
    <2> QED
      BY <2>3, <2>4, <2>5, <2>6, <2>7, <2>9 DEF Shape
  <1>4. CASE RunAlone
    <2> USE <1>4 DEF RunAlone
    <2>1. Holding = {} /\ Cardinality(Holding) < MaxConcurrentTools
      BY IdleBetweenRuns, CapAssumption
    <2>2. i \in Calls
      OBVIOUS
    <2>3. TypeOK'
      BY <2>2, BeginLocal, NAssumption DEF TypeOK, Phases, batch, Calls
    <2>4. Shape'
      BY <2>2, BeginLocal, NAssumption
      DEF Shape, BehindIsDone, AheadIsFresh, Frontier, RunIsSafeOrSingle,
          ReturnedAtEnd, TypeOK, Calls
    <2>5. Trace'
      BY <2>2, BeginLocal DEF Trace, batch, TypeOK
    <2>6. PoolIsBounded'
      BY <2>1, <2>2, BeginLocal, PoolGrows DEF PoolIsBounded
    <2> QED
      BY <2>3, <2>4, <2>5, <2>6
  <1>5. CASE AwaitReturns \/ AwaitRaises \/ Return
    <2> USE <1>5 DEF AwaitReturns, AwaitRaises, Return
    <2>1. TypeOK'
      BY DEF TypeOK, Phases, batch
    <2>2. Shape'
      BY NAssumption
      DEF Shape, BehindIsDone, AheadIsFresh, Frontier, RunIsSafeOrSingle,
          ReturnedAtEnd, TypeOK, batch, Calls, Run
    <2>3. Trace' /\ Holding' = Holding
      BY DEF Trace, Holding, batch
    <2>4. PoolIsBounded'
      BY <2>3 DEF PoolIsBounded
    <2> QED
      BY <2>1, <2>2, <2>3, <2>4
  <1>6. CASE UNCHANGED vars
    BY <1>6
    DEF vars, TypeOK, Shape, BehindIsDone, AheadIsFresh, Frontier,
        RunIsSafeOrSingle, ReturnedAtEnd, Trace, PoolIsBounded, Holding
  <1> QED
    BY <1>1, <1>2, <1>3, <1>4, <1>5, <1>6 DEF Next, CallStep, TurnStep

THEOREM Invariance == Spec => []IInv
  <1>1. Init => IInv
    BY InitInv
  <1>2. IInv /\ [Next]_vars => IInv'
    BY StepInv
  <1> QED
    BY <1>1, <1>2, PTL DEF Spec

-----------------------------------------------------------------------------
(* The safety invariants.                                                  *)

(* A mutating call is alone, after its predecessors and before its         *)
(* successors: it is past the cursor and before the frontier, so it is the *)
(* whole awaited run.                                                      *)
LEMMA MutatorAlone == IInv => MutatorRunsAlone
  <1> SUFFICES ASSUME IInv, NEW m \in Holding \ safe, NEW k \in Calls
               PROVE  /\ k < m => call[k] = "done"
                      /\ k > m => call[k] = "waiting"
    BY DEF MutatorRunsAlone
  <1>1. m \in Calls /\ m >= i /\ m < Frontier
    BY NAssumption
    DEF IInv, Shape, BehindIsDone, AheadIsFresh, Frontier, TypeOK, Holding, Calls
  <1>2. phase \in {"awaiting", "raised"} /\ j = i + 1 /\ m = i
    BY <1>1, NAssumption
    DEF IInv, Shape, RunIsSafeOrSingle, Frontier, TypeOK, Calls
  <1> QED
    BY <1>1, <1>2, NAssumption
    DEF IInv, Shape, BehindIsDone, AheadIsFresh, Frontier, TypeOK, Calls

(* A call that has begun is behind the cursor or in the awaited run, so an *)
(* earlier call it conflicts with is behind the cursor.                    *)
LEMMA FailureStops == IInv => FailureStopsTheTurn
  <1> SUFFICES ASSUME IInv, NEW k \in Calls, Begun(k), NEW a \in Calls,
                      a < k, a \notin safe \/ k \notin safe
               PROVE  call[a] = "done"
    BY DEF FailureStopsTheTurn
  <1>1. k < Frontier
    BY NAssumption DEF IInv, Shape, AheadIsFresh, Frontier, TypeOK, Begun, Calls
  <1>2. a < i
    BY <1>1, NAssumption
    DEF IInv, Shape, RunIsSafeOrSingle, Frontier, TypeOK, Calls
  <1> QED
    BY <1>2 DEF IInv, Shape, BehindIsDone

LEMMA Complete == IInv => ReturnedIsComplete
  <1> SUFFICES ASSUME IInv, phase = "returned" PROVE ReturnedIsComplete
    BY DEF ReturnedIsComplete
  <1>1. \A k \in Calls : call[k] = "done"
    BY NAssumption DEF IInv, Shape, BehindIsDone, ReturnedAtEnd, Calls
  <1> QED
    BY <1>1 DEF IInv, Trace, ReturnedIsComplete, TypeOK

(* TypeOK: every state of a turn has its type (Agent._execute_tool_calls). *)
THEOREM TypeCorrect == Spec => []TypeOK
  BY Invariance, PTL DEF IInv

(* MutatorRunsAlone: for a turn of any length, a call that is not          *)
(* concurrency-safe is a barrier (the loop of _execute_tool_calls).        *)
THEOREM MutatorIsBarrier == Spec => []MutatorRunsAlone
  BY Invariance, MutatorAlone, PTL

(* PoolIsBounded: whatever its size the pool is never exceeded, by the     *)
(* gathered tasks, the lone call or the siblings of a failed one.          *)
THEOREM PoolBound == Spec => []PoolIsBounded
  BY Invariance, PTL DEF IInv

(* ReturnedIsComplete: a turn that returns has an answer for each of its   *)
(* calls and has emitted a tool_end for every tool_start.                  *)
THEOREM TurnComplete == Spec => []ReturnedIsComplete
  BY Invariance, Complete, PTL

(* FailureStopsTheTurn: a call that raised holds back every call that      *)
(* conflicts with it, for ever.                                            *)
THEOREM FailureIsFinal == Spec => []FailureStopsTheTurn
  BY Invariance, FailureStops, PTL

-----------------------------------------------------------------------------
(* ToolBatch implements ToolOrder.                                         *)

LEMMA RunningIsHolding ==
    Order!Running = Holding /\ Order!Cardinality(Order!Running) = Cardinality(Holding)
  <1>1. Order!Running = Holding
    BY DEF Order!Running, Order!Calls, Calls, Holding, AbsState
  <1>2. ASSUME NEW S PROVE Order!Cardinality(S) = Cardinality(S)
    BY DEF Order!Cardinality, Cardinality
  <1> QED
    BY <1>1, <1>2

(* The guard of the abstract specification holds whenever a call begins.   *)
LEMMA BeginIsReady ==
    ASSUME IInv, NEW k \in Calls, call[k] \in {"waiting", "queued"},
           Cardinality(Holding) < MaxConcurrentTools,
           \A a \in Calls : a < k /\ (a \notin safe \/ k \notin safe) => call[a] = "done"
    PROVE  Order!Ready(k)
  <1>1. AbsState[k] = "pending"
    BY DEF AbsState
  <1>2. \A a \in Order!Calls : a < k /\ Order!Conflict(a, k) => AbsState[a] = "ok"
    BY DEF AbsState, Order!Calls, Calls, Order!Conflict
  <1> QED
    BY <1>1, <1>2, RunningIsHolding DEF Order!Ready

(* A step that changes one call maps to the change of that call.           *)
LEMMA AbsStateLocal ==
    ASSUME TypeOK, NEW k \in Calls, call' \in [Calls -> CallStates],
           \A a \in Calls \ {k} : call'[a] = call[a]
    PROVE  AbsState' = [AbsState EXCEPT ![k] = AbsState'[k]]
  BY DEF AbsState

LEMMA BeginRefines ==
    ASSUME IInv, NEW k \in Calls, call[k] \in {"waiting", "queued"},
           Begin(k), UNCHANGED safe, Order!Ready(k)
    PROVE  Order!Next
  <1>1. AbsState' = [AbsState EXCEPT ![k] = AbsState'[k]]
    BY BeginLocal, AbsStateLocal DEF IInv
  <1>2. AbsState'[k] \in {"running", "ok", "failed"}
    BY BeginLocal DEF IInv, AbsState
  <1> QED
    BY <1>1, <1>2
    DEF Order!Next, Order!Start, Order!SettleAtOnce, Order!Calls, Calls

LEMMA StepRefines == IInv /\ [Next]_vars => [Order!Next]_(Order!vars)
  <1> SUFFICES ASSUME IInv, [Next]_vars PROVE [Order!Next]_(Order!vars)
    OBVIOUS
  <1> USE DEF IInv
  <1>1. ASSUME NEW k \in Calls, Start(k) PROVE Order!Next
    <2>1. k < Frontier /\ k >= i
      BY <1>1, NAssumption
      DEF Start, Shape, BehindIsDone, AheadIsFresh, Frontier, TypeOK, Calls
    <2>2. \A a \in Calls : a < k /\ (a \notin safe \/ k \notin safe) => a < i
      BY <2>1, NAssumption DEF Shape, RunIsSafeOrSingle, Frontier, TypeOK, Calls
    <2>3. Order!Ready(k)
      BY <1>1, <2>2, BeginIsReady DEF Start, Shape, BehindIsDone
    <2> QED
      BY <1>1, <2>3, BeginRefines DEF Start, batch
  <1>2. ASSUME NEW k \in Calls,
               ToolReturns(k) \/ ToolRaises(k) \/ ScreenReturns(k) \/ ScreenRaises(k)
        PROVE  [Order!Next]_(Order!vars)
    <2> USE <1>2 DEF ToolReturns, ToolRaises, ScreenReturns, ScreenRaises
    <2>1. UNCHANGED safe
      BY DEF batch
    <2>2. AbsState[k] = "running" /\ AbsState'[k] \in {"running", "ok", "failed"}
      BY DEF AbsState, TypeOK
    <2>3. AbsState' = [AbsState EXCEPT ![k] = AbsState'[k]]
      BY AbsStateLocal DEF TypeOK, CallStates
    <2>4. CASE AbsState'[k] = "running"
      BY <2>1, <2>2, <2>3, <2>4 DEF Order!vars, AbsState
    <2>5. CASE AbsState'[k] \in {"ok", "failed"}
      BY <2>1, <2>2, <2>3, <2>5 DEF Order!Next, Order!Finish, Order!Calls, Calls
    <2> QED
      BY <2>2, <2>4, <2>5
  <1>3. CASE GatherRun
    <2>1. \A k \in Calls : call[k] \in {"waiting", "queued"}
                           <=> call'[k] \in {"waiting", "queued"}
      BY <1>3, NAssumption
      DEF GatherRun, Shape, AheadIsFresh, Frontier, TypeOK, Calls
    <2>2. \A k \in Calls : call'[k] = call[k] \/ call'[k] \in {"waiting", "queued"}
      BY <1>3 DEF GatherRun
    <2>3. AbsState' = AbsState
      BY <2>1, <2>2 DEF AbsState
    <2> QED
      BY <1>3, <2>3 DEF GatherRun, batch, Order!vars
  <1>4. CASE RunAlone
    <2>1. Cardinality(Holding) < MaxConcurrentTools
      BY <1>4, IdleBetweenRuns, CapAssumption DEF RunAlone
    <2>2. i \in Calls /\ call[i] = "waiting"
      BY <1>4, NAssumption DEF RunAlone, Shape, AheadIsFresh, Frontier, TypeOK, Calls
    <2>3. Order!Ready(i)
      BY <2>1, <2>2, BeginIsReady DEF Shape, BehindIsDone
    <2> QED
      BY <1>4, <2>2, <2>3, BeginRefines DEF RunAlone, batch
  <1>5. CASE AwaitReturns \/ AwaitRaises \/ Return \/ UNCHANGED vars
    BY <1>5
    DEF AwaitReturns, AwaitRaises, Return, vars, batch, Order!vars, AbsState
  <1> QED
    BY <1>1, <1>2, <1>3, <1>4, <1>5 DEF Next, CallStep, TurnStep

(* OrderSpec: the batches, tasks and semaphore of _execute_tool_calls give *)
(* every turn the ordering its docstring promises.                         *)
THEOREM ImplementsOrder == Spec => OrderSpec
  <1>1. Init => Order!Init
    BY DEF Init, Order!Init, AbsState, Order!Calls, Calls
  <1>2. IInv /\ [Next]_vars => [Order!Next]_(Order!vars)
    BY StepRefines
  <1> QED
    BY <1>1, <1>2, Invariance, PTL DEF Spec, OrderSpec, Order!Spec
=============================================================================
