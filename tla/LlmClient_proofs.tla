-------------------------- MODULE LlmClient_proofs --------------------------
(***************************************************************************)
(* Proofs that the retry loop of LlmClient raises exactly when it must and *)
(* waits no longer than it may, for every number of retries, cap, set of   *)
(* status codes and Retry-After delay.                                     *)
(***************************************************************************)
EXTENDS LlmClient, Selection_proofs, TLAPS

Shape ==
    /\ at \in {"calling", "waiting", "answered", "raised"}
    /\ attempt \in 1..(MaxRetries + 1)
    /\ errors \in Seq(Errors)

(* One error for each try made, and a try left while the call waits.       *)
TriesAreCounted ==
    /\ at \in {"calling", "answered"} => Len(errors) = attempt - 1
    /\ at = "waiting" => Len(errors) = attempt /\ attempt <= MaxRetries
    /\ at = "raised" => Len(errors) = attempt

IInv == Shape /\ TriesAreCounted /\ HopelessIsLast /\ ExhaustedOrHopeless

-----------------------------------------------------------------------------
(* The code's cascade of tests is the classification of its docstring.     *)
LEMMA Classified == \A e \in Errors : IsRetryable(e) <=> Transient(e)
  BY LlmAssumption DEF Errors, IsRetryable, Transient, NoStatus, Names

(* What a failing try does, its wait left aside.                           *)
LEMMA FailCases ==
    ASSUME Fail
    PROVE  /\ at = "calling" /\ attempt' = attempt
           /\ \E e \in Errors :
                 /\ errors' = Append(errors, e)
                 /\ \/ at' = "raised" /\ (attempt > MaxRetries \/ ~Transient(e))
                    \/ at' = "waiting" /\ attempt <= MaxRetries /\ Transient(e)
  BY Classified DEF Fail

LEMMA InitIInv == Init => IInv
  BY LlmAssumption DEF Init, IInv, Shape, TriesAreCounted, HopelessIsLast, ExhaustedOrHopeless

LEMMA FailIInv == ASSUME IInv, Fail PROVE IInv'
  <1>1. PICK e \in Errors :
          /\ errors' = Append(errors, e)
          /\ \/ at' = "raised" /\ (attempt > MaxRetries \/ ~Transient(e))
             \/ at' = "waiting" /\ attempt <= MaxRetries /\ Transient(e)
    BY FailCases
  <1>2. at = "calling" /\ attempt' = attempt /\ Len(errors) = attempt - 1
    BY FailCases DEF IInv, TriesAreCounted
  <1>3. /\ errors' \in Seq(Errors)
        /\ Len(errors') = attempt
        /\ errors'[attempt] = e
        /\ \A k \in 1..(attempt - 1) : errors'[k] = errors[k]
    BY <1>1, <1>2 DEF IInv, Shape
  <1>4. Shape'
    BY <1>1, <1>2, <1>3 DEF IInv, Shape
  <1>5. TriesAreCounted'
    BY <1>1, <1>2, <1>3 DEF TriesAreCounted
  <1>6. HopelessIsLast'
    <2>1. \A k \in 1..(attempt - 1) : Transient(errors[k])
      BY <1>2 DEF IInv, Shape, HopelessIsLast
    <2>2. ASSUME NEW k \in DOMAIN errors', ~Transient(errors'[k])
          PROVE  k = Len(errors') /\ at' = "raised"
      <3>1. k \in 1..attempt
        BY <1>3, <2>2
      <3>2. k = attempt
        BY <1>2, <1>3, <2>1, <2>2, <3>1, LlmAssumption DEF IInv, Shape
      <3> QED
        BY <1>1, <1>3, <2>2, <3>2
    <2> QED
      BY <2>2 DEF HopelessIsLast
  <1>7. ExhaustedOrHopeless'
    <2>1. ASSUME at' = "raised"
          PROVE  attempt = MaxRetries + 1 \/ ~Transient(e)
      BY <1>1, <2>1, LlmAssumption DEF IInv, Shape
    <2>2. errors' # <<>>
      BY <1>2, <1>3 DEF IInv, Shape
    <2> QED
      BY <1>3, <2>1, <2>2 DEF ExhaustedOrHopeless
  <1> QED
    BY <1>4, <1>5, <1>6, <1>7 DEF IInv

LEMMA StepIInv == IInv /\ [Next]_vars => IInv'
  <1> SUFFICES ASSUME IInv, [Next]_vars PROVE IInv'
    OBVIOUS
  <1> USE DEF IInv, Shape, TriesAreCounted, HopelessIsLast, ExhaustedOrHopeless
  <1>1. CASE Answer
    BY <1>1 DEF Answer
  <1>2. CASE Fail
    BY <1>2, FailIInv
  <1>3. CASE Wake
    BY <1>3, LlmAssumption DEF Wake
  <1>4. CASE UNCHANGED vars
    BY <1>4 DEF vars
  <1> QED
    BY <1>1, <1>2, <1>3, <1>4 DEF Next

THEOREM Invariance == Spec => []IInv
  BY InitIInv, StepIInv, PTL DEF Spec

(* With any number of retries, a call is tried at most that many times and *)
(* once more, is never retried after a permanent or unknown error, and     *)
(* raises only when one of the two has happened.                           *)
THEOREM RetryIsRight == Spec => []RaisesWhenItMust
  <1>1. IInv => RaisesWhenItMust
    BY LlmAssumption DEF IInv, Shape, TriesAreCounted, RaisesWhenItMust
  <1> QED
    BY <1>1, Invariance, PTL

-----------------------------------------------------------------------------
(* The delays.  Doubling is a recursion, so that its type is an induction. *)
IsDelay(f, k) == f = [i \in 0..k |-> IF i = 0 THEN 4 ELSE 2 * f[i - 1]]

LEMMA DoubledDef ==
  ASSUME NEW k \in Nat
  PROVE  \E f : IsDelay(f, k) /\ Doubled(k) = f[k]
  <1> DEFINE step == [i \in 1..k |-> [v \in Nat |-> 2 * v]]
             F == CHOOSE f : IsDelay(f, k)
  <1>1. step \in [1..k -> [Nat -> Nat]]
    OBVIOUS
  <1>2. PICK f \in [0..k -> Nat] : Recurses(f, k, 4, step)
    <2> HIDE DEF step
    <2> QED
      BY <1>1, PrimitiveRecursion
  <1>3. ASSUME NEW i \in 1..k
        PROVE  step[i][f[i - 1]] = 2 * f[i - 1]
    <2>1. f[i - 1] \in Nat
      OBVIOUS
    <2> QED
      BY <2>1
  <1>4. IsDelay(f, k)
    <2> HIDE DEF step
    <2>1. ASSUME NEW i \in 0..k
          PROVE  (IF i = 0 THEN 4 ELSE step[i][f[i - 1]]) = IF i = 0 THEN 4 ELSE 2 * f[i - 1]
      BY <1>3
    <2> QED
      BY <1>2, <2>1 DEF IsDelay, Recurses
  <1>5. IsDelay(F, k)
    BY <1>4
  <1> QED
    BY <1>5 DEF Doubled, IsDelay

LEMMA DoubledIs == ASSUME NEW k \in Nat PROVE Doubled(k) \in Nat
  <1>1. PICK f : IsDelay(f, k) /\ Doubled(k) = f[k]
    BY DoubledDef
  <1> DEFINE T == {i \in 0..k : f[i] \in Nat}
  <1>2. f[0] = 4 /\ \A i \in 1..k : f[i] = 2 * f[i - 1]
    BY <1>1 DEF IsDelay
  <1>3. 0 \in T
    BY <1>2
  <1>4. ASSUME NEW i \in 1..k, i - 1 \in T
        PROVE  i \in T
    BY <1>2, <1>4
  <1> HIDE DEF T
  <1>5. 0..k \subseteq T
    BY <1>3, <1>4, IntervalInduction
  <1> QED
    BY <1>1, <1>5 DEF T

Allowed(e) == IF e.retry_after = NoDelay THEN Cap + 1 ELSE e.retry_after[1]

LEMMA DelaysAre ==
  ASSUME NEW e \in Errors, NEW n \in 1..MaxRetries, NEW d \in Delays(e, n)
  PROVE  d \in Nat /\ d <= Allowed(e)
  <1>1. n - 1 \in Nat
    BY LlmAssumption
  <1>2. Doubled(n - 1) \in Nat
    <2> DEFINE k == n - 1
    <2> HIDE DEF k
    <2>1. Doubled(k) \in Nat
      BY <1>1, DoubledIs DEF k
    <2> QED
      BY <2>1 DEF k
  <1>3. Raw(n) \in Nat /\ Raw(n) <= Cap
    BY <1>2, LlmAssumption DEF Raw
  <1>4. CASE e.retry_after = NoDelay
    BY <1>3, <1>4, LlmAssumption DEF Delays, Allowed
  <1>5. CASE e.retry_after # NoDelay
    <2>1. e.retry_after \in {<<x>> : x \in RetryAfters}
      BY <1>5 DEF Errors
    <2>2. e.retry_after[1] \in Nat
      BY <2>1, LlmAssumption
    <2> QED
      BY <1>5, <2>2 DEF Delays, Allowed
  <1> QED
    BY <1>4, <1>5

(* One wait for each error that was not the last, within what it allows.   *)
Waited ==
    /\ waits \in Seq(Nat)
    /\ Len(waits) = IF at = "raised" THEN Len(errors) - 1 ELSE Len(errors)
    /\ \A k \in 1..Len(waits) : waits[k] <= Allowed(errors[k])

LEMMA StepWaited == IInv /\ Waited /\ [Next]_vars => Waited'
  <1> SUFFICES ASSUME IInv, Waited, [Next]_vars PROVE Waited'
    OBVIOUS
  <1>1. errors \in Seq(Errors) /\ waits \in Seq(Nat) /\ Len(errors) \in Nat
    BY DEF IInv, Shape, Waited
  <1>2. CASE Fail
    <2>1. at = "calling" /\ Len(waits) = Len(errors) /\ Len(errors) = attempt - 1
      BY <1>2 DEF Fail, Waited, IInv, TriesAreCounted
    <2>2. PICK e \in Errors :
            /\ errors' = Append(errors, e)
            /\ \/ at' = "raised" /\ waits' = waits
               \/ /\ attempt <= MaxRetries /\ at' = "waiting"
                  /\ \E d \in Delays(e, attempt) : waits' = Append(waits, d)
      BY <1>2 DEF Fail
    <2>3. /\ Len(errors') = Len(errors) + 1 /\ errors'[Len(errors) + 1] = e
          /\ \A k \in 1..Len(errors) : errors'[k] = errors[k]
      BY <1>1, <2>2
    <2>4. CASE at' = "raised" /\ waits' = waits
      BY <1>1, <2>1, <2>3, <2>4 DEF Waited
    <2>5. CASE /\ attempt <= MaxRetries /\ at' = "waiting"
               /\ \E d \in Delays(e, attempt) : waits' = Append(waits, d)
      <3>1. PICK d \in Delays(e, attempt) : waits' = Append(waits, d)
        BY <2>5
      <3>2. attempt \in 1..MaxRetries
        BY <2>5, LlmAssumption DEF IInv, Shape
      <3>3. d \in Nat /\ d <= Allowed(e)
        BY <3>2, DelaysAre
      <3>4. /\ waits' \in Seq(Nat) /\ Len(waits') = Len(waits) + 1
            /\ waits'[Len(waits) + 1] = d
            /\ \A k \in 1..Len(waits) : waits'[k] = waits[k]
        BY <1>1, <3>1, <3>3
      <3>5. ASSUME NEW k \in 1..Len(waits')
            PROVE  waits'[k] <= Allowed(errors'[k])
        <4>1. k \in 1..Len(waits) \/ k = Len(waits) + 1
          BY <1>1, <2>1, <3>4
        <4>2. CASE k \in 1..Len(waits)
          BY <2>1, <2>3, <3>4, <4>2 DEF Waited
        <4>3. CASE k = Len(waits) + 1
          BY <2>1, <2>3, <3>3, <3>4, <4>3
        <4> QED
          BY <4>1, <4>2, <4>3
      <3> QED
        BY <2>1, <2>3, <2>5, <3>4, <3>5 DEF Waited
    <2> QED
      BY <2>2, <2>4, <2>5
  <1>3. CASE Answer
    BY <1>3 DEF Answer, Waited
  <1>4. CASE Wake
    BY <1>4 DEF Wake, Waited
  <1>5. CASE UNCHANGED vars
    BY <1>5 DEF vars, Waited
  <1> QED
    BY <1>2, <1>3, <1>4, <1>5 DEF Next

(* A call sleeps at most max_retries times, each time for what the         *)
(* provider asked or for no more than the cap and a quarter of the base    *)
(* (_complete_with_retry, backoff_delay).                                  *)
THEOREM WaitsBound == Spec => []WaitsAreBounded
  <1>1. Init => Waited
    BY DEF Init, Waited
  <1>2. IInv /\ Waited => WaitsAreBounded
    <2> SUFFICES ASSUME IInv, Waited PROVE WaitsAreBounded
      OBVIOUS
    <2>1. Len(waits) <= MaxRetries
      BY LlmAssumption DEF IInv, Shape, TriesAreCounted, Waited
    <2>2. DOMAIN waits = 1..Len(waits)
      BY DEF Waited
    <2> QED
      BY <2>1, <2>2 DEF Waited, WaitsAreBounded, Allowed
  <1> QED
    BY Invariance, StepWaited, <1>1, <1>2, PTL DEF Spec
=============================================================================
