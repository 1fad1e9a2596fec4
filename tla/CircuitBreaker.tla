--------------------------- MODULE CircuitBreaker ---------------------------
(***************************************************************************)
(* services/common/circuit_breaker.py, one breaker shared by concurrent    *)
(* coroutines.  call() holds the lock while it admits and while it records *)
(* an outcome, never across `await func`: outcomes of calls admitted in    *)
(* one state are recorded in another.                                      *)
(*                                                                         *)
(* failure_count saturates at Threshold: it is read only by CLOSED, where  *)
(* it is below, and HALF_OPEN -> CLOSED resets it.  success_count is read  *)
(* by nothing and left out.                                                *)
(***************************************************************************)
EXTENDS Naturals, FiniteSets

CONSTANTS
    Callers,        \* coroutines sharing the breaker
    Swallowing,     \* those whose func returns its failures: adapter.remember
    Threshold,      \* config.failure_threshold
    ResetTimeout,   \* config.reset_timeout, in ticks
    MaxOperatorOps  \* bound: reset() and force_open() calls

ASSUME BreakerAssumption ==
    /\ Swallowing \subseteq Callers
    /\ Threshold \in Nat \ {0}
    /\ ResetTimeout \in Nat
    /\ MaxOperatorOps \in Nat

VARIABLES
    state,      \* _state, which moves to HALF_OPEN only when looked at
    failures,   \* _failure_count
    age,        \* time since _last_failure_time, up to ResetTimeout
    call,       \* what each coroutine is doing
    streak,     \* failures raised since the last success recorded (history)
    ops         \* operator calls so far

vars == <<state, failures, age, call, streak, ops>>

CircuitState == {"closed", "half_open", "open"}
CallPc == {"idle", "running", "rejected"}

(* Mutant of Observed: nothing leaves OPEN.                                *)
ObservedRaw == state

(* The state property: OPEN turns HALF_OPEN once the timeout has elapsed.  *)
Observed ==
    IF state = "open" /\ age >= ResetTimeout THEN "half_open" ELSE state

Init ==
    /\ state = "closed"
    /\ failures = 0
    /\ age = ResetTimeout
    /\ call = [c \in Callers |-> "idle"]
    /\ streak = 0
    /\ ops = 0

(* state, is_open and get_all_circuit_breaker_states, read by anyone.      *)
Peek ==
    /\ state' = Observed
    /\ UNCHANGED <<failures, age, call, streak, ops>>

(* The first locked section of call(): fast-fail or admit.                 *)
Admit(c) ==
    /\ call[c] # "running"
    /\ state' = Observed
    /\ call' = [call EXCEPT ![c] = IF Observed = "open" THEN "rejected"
                                                          ELSE "running"]
    /\ UNCHANGED <<failures, age, streak, ops>>

Finish(c) ==
    /\ call[c] = "running"
    /\ call' = [call EXCEPT ![c] = "idle"]

(* Mutant of RecordSuccess: any success closes the circuit.                *)
RecordSuccessAnyState ==
    /\ state' = "closed"
    /\ failures' = IF state = "half_open" THEN 0
                   ELSE IF failures > 0 THEN failures - 1 ELSE 0

(* func returned: the locked section of the success path, which looks at   *)
(* _state, not at the state the call was admitted in.                      *)
RecordSuccess ==
    \/ /\ state = "half_open"
       /\ state' = "closed"
       /\ failures' = 0
    \/ /\ state = "closed"
       /\ failures' = IF failures > 0 THEN failures - 1 ELSE 0
       /\ UNCHANGED state
    \/ /\ state = "open"
       /\ UNCHANGED <<state, failures>>

Saturated(n) == IF n < Threshold THEN n ELSE Threshold

(* Mutant of RecordFailure: the threshold is compared with >.              *)
RecordFailureLate ==
    LET n == Saturated(failures + 1) IN
    /\ failures' = n
    /\ age' = 0
    /\ state' = IF state = "half_open" \/ (state = "closed" /\ failures >= Threshold)
                THEN "open" ELSE state

(* Mutant of RecordFailure: a straggler's failure leaves HALF_OPEN alone.  *)
RecordFailureOnlyClosed ==
    LET n == Saturated(failures + 1) IN
    /\ failures' = n
    /\ age' = 0
    /\ state' = IF state = "closed" /\ n >= Threshold THEN "open" ELSE state

(* func raised: the locked section of the failure path.                    *)
RecordFailure ==
    LET n == Saturated(failures + 1) IN
    /\ failures' = n
    /\ age' = 0
    /\ state' = IF state = "half_open" \/ (state = "closed" /\ n >= Threshold)
                THEN "open" ELSE state

(* SomaBrainAdapter.remember "returns a failed ack, never raises": to the  *)
(* breaker a failed write of a Swallowing coroutine is this success too.   *)
Return(c) ==
    /\ Finish(c)
    /\ RecordSuccess
    /\ streak' = 0
    /\ UNCHANGED <<age, ops>>

Raise(c) ==
    /\ c \notin Swallowing
    /\ Finish(c)
    /\ RecordFailure
    /\ streak' = Saturated(streak + 1)
    /\ UNCHANGED ops

(* CancelledError (a caller's wait_for) is not an Exception: no outcome.   *)
Cancel(c) ==
    /\ Finish(c)
    /\ UNCHANGED <<state, failures, age, streak, ops>>

Reset ==
    /\ ops < MaxOperatorOps
    /\ ops' = ops + 1
    /\ state' = "closed"
    /\ failures' = 0
    /\ age' = ResetTimeout
    /\ streak' = 0
    /\ UNCHANGED call

ForceOpen ==
    /\ ops < MaxOperatorOps
    /\ ops' = ops + 1
    /\ state' = "open"
    /\ age' = 0
    /\ UNCHANGED <<failures, call, streak>>

(* The monotonic clock.                                                    *)
Tick ==
    /\ age < ResetTimeout
    /\ age' = age + 1
    /\ UNCHANGED <<state, failures, call, streak, ops>>

Outcome(c) == Return(c) \/ Raise(c) \/ Cancel(c)

Next ==
    \/ \E c \in Callers : Admit(c) \/ Outcome(c)
    \/ Peek \/ Reset \/ ForceOpen \/ Tick

Spec == Init /\ [][Next]_vars

(* Time passes, a call in flight ends (the adapter's HTTP client has a     *)
(* timeout) with whatever outcome, and some caller keeps coming back.      *)
FairSpec ==
    /\ Spec
    /\ WF_vars(Tick)
    /\ \A c \in Callers : WF_vars(Outcome(c))
    /\ WF_vars(\E c \in Callers : Admit(c))

-----------------------------------------------------------------------------
(* Type correctness of every variable.                                     *)
TypeOK ==
    /\ state \in CircuitState
    /\ failures \in 0..Threshold
    /\ age \in 0..ResetTimeout
    /\ call \in [Callers -> CallPc]
    /\ streak \in 0..Threshold
    /\ ops \in 0..MaxOperatorOps

(* An outage that raises trips the breaker: it never stays CLOSED through  *)
(* Threshold failures in a row, although outcomes of calls admitted before *)
(* and after a trip are recorded in any order and successes only decrement.*)
TripsAfterThreshold == state = "closed" => streak < Threshold

(* HALF_OPEN is reached, and kept, only while no failure was recorded for  *)
(* reset_timeout: a straggler's failure re-opens it.                       *)
QuietBeforeProbe == state = "half_open" => age >= ResetTimeout

(* A success recorded while OPEN, from a call admitted before the trip,    *)
(* does not close the circuit: only reset() goes from OPEN to CLOSED.      *)
StragglerNeverCloses ==
    [][state = "open" /\ state' = "closed" => ops' = ops + 1]_vars

(* OPEN ends: stragglers may push the timeout back, but only so many of    *)
(* them are in flight, and the next caller after it is let through.        *)
OpenEnds == (state = "open") ~> (state # "open")

=============================================================================
