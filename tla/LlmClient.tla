----------------------------- MODULE LlmClient -----------------------------
(***************************************************************************)
(* LLM.complete (llm.py): one call of the model, retried while the         *)
(* provider's errors are transient.  An error keeps what the code looks    *)
(* at: its status code, the kind of its class name, its Retry-After.       *)
(* Delays are counted in quarters of retry_base_delay, so that the jitter  *)
(* of at most a quarter of it lies between two numbers.                    *)
(***************************************************************************)
EXTENDS Naturals, Sequences

CONSTANTS
    Statuses,     \* the status codes the provider sends
    RetryAfters,  \* the Retry-After delays it sends
    MaxRetries,   \* LLM.max_retries
    Cap           \* LLM.retry_max_delay

ASSUME LlmAssumption ==
    MaxRetries \in Nat /\ Cap \in Nat /\ Statuses \subseteq Nat /\ RetryAfters \subseteq Nat

NoStatus == 0
NoDelay == <<>>
Names == {"transient", "permanent", "unknown"}

(* retry_after is <<>> or <<delay>>.                                       *)
Errors == [status : Statuses \cup {NoStatus}, name : Names,
           retry_after : {NoDelay} \cup {<<d>> : d \in RetryAfters}]

VARIABLES
    at,       \* "calling", "waiting", "answered", "raised"
    attempt,  \* the loop variable
    errors,   \* the errors so far (history variable)
    waits     \* the delays slept so far (history variable)

vars == <<at, attempt, errors, waits>>

Init == at = "calling" /\ attempt = 1 /\ errors = <<>> /\ waits = <<>>

-----------------------------------------------------------------------------
(* A status of 408, 409, 429 or 5xx is transient, any other 4xx is not;    *)
(* with any other status, or none, the name decides.                       *)
IsRetryable(e) ==
    \/ e.status \in {408, 409, 429} \/ e.status \in 500..599
    \/ e.status \notin 400..599 /\ e.name = "transient"

(* The base delay, doubled k times.                                        *)
Doubled(k) ==
    LET delay[i \in 0..k] == IF i = 0 THEN 4 ELSE 2 * delay[i - 1]
    IN  delay[k]

(* min(base * 2^(n-1), cap), before the jitter.                            *)
Raw(n) == IF Doubled(n - 1) < Cap THEN Doubled(n - 1) ELSE Cap

(* Seeded fault of Delays: the cap is forgotten.                           *)
Delays_NoCap(e, n) ==
    IF e.retry_after # NoDelay THEN {e.retry_after[1]} ELSE {Doubled(n - 1)}

(* The provider's delay, else the backoff and up to a quarter of the base. *)
Delays(e, n) ==
    IF e.retry_after # NoDelay THEN {e.retry_after[1]} ELSE {Raw(n), Raw(n) + 1}

-----------------------------------------------------------------------------
Answer ==
    /\ at = "calling" /\ at' = "answered"
    /\ UNCHANGED <<attempt, errors, waits>>

(* Seeded fault of Fail: the first try counts as a retry.                  *)
Fail_OneTryLess ==
    /\ at = "calling"
    /\ \E e \in Errors :
          /\ errors' = Append(errors, e)
          /\ \/ /\ attempt >= MaxRetries \/ ~IsRetryable(e)
                /\ at' = "raised" /\ UNCHANGED waits
             \/ /\ attempt < MaxRetries /\ IsRetryable(e)
                /\ at' = "waiting"
                /\ \E d \in Delays(e, attempt) : waits' = Append(waits, d)
    /\ UNCHANGED attempt

Fail ==
    /\ at = "calling"
    /\ \E e \in Errors :
          /\ errors' = Append(errors, e)
          /\ \/ /\ attempt > MaxRetries \/ ~IsRetryable(e)
                /\ at' = "raised" /\ UNCHANGED waits
             \/ /\ attempt <= MaxRetries /\ IsRetryable(e)
                /\ at' = "waiting"
                /\ \E d \in Delays(e, attempt) : waits' = Append(waits, d)
    /\ UNCHANGED attempt

Wake ==
    /\ at = "waiting" /\ at' = "calling" /\ attempt' = attempt + 1
    /\ UNCHANGED <<errors, waits>>

Next == Answer \/ Fail \/ Wake

Spec == Init /\ [][Next]_vars

-----------------------------------------------------------------------------
(* No try is wasted: an error that will not change on retry ("never other  *)
(* 4xx", "unknown errors are NOT retried") ends the call at once.  And no  *)
(* error is raised early: a call that fails has met one that is not        *)
(* transient, or has been tried max_retries + 1 times.                     *)
Transient(e) ==
    IF e.status \in {408, 409, 429} \cup 500..599 THEN TRUE
    ELSE IF e.status \in 400..499 THEN FALSE
    ELSE e.name = "transient"

HopelessIsLast ==
    \A k \in DOMAIN errors : ~Transient(errors[k]) => k = Len(errors) /\ at = "raised"

ExhaustedOrHopeless ==
    at = "raised" => \/ Len(errors) = MaxRetries + 1
                     \/ errors # <<>> /\ ~Transient(errors[Len(errors)])

RaisesWhenItMust ==
    /\ Len(errors) <= MaxRetries + 1
    /\ HopelessIsLast
    /\ ExhaustedOrHopeless

(* How long a caller can be kept waiting: with m retries it has slept at   *)
(* most m times, each for what the provider asked or for no more than the  *)
(* cap and a quarter of the base.                                          *)
WaitsAreBounded ==
    /\ Len(waits) <= MaxRetries
    /\ \A k \in DOMAIN waits :
          waits[k] <= IF errors[k].retry_after = NoDelay THEN Cap + 1
                      ELSE errors[k].retry_after[1]
=============================================================================
