------------------------ MODULE CircuitBreakerProofs ------------------------
(***************************************************************************)
(* Proofs about CircuitBreaker for every number of callers, threshold and  *)
(* reset timeout.                                                          *)
(***************************************************************************)
EXTENDS CircuitBreaker, TLAPS

(* What the two safety properties rest on: a CLOSED breaker is below its   *)
(* threshold, and has counted every failure raised since the last success. *)
ClosedBelowThreshold == state = "closed" => failures < Threshold
FailuresCounted == state = "closed" => streak <= failures
BreakerInv ==
    /\ TypeOK
    /\ ClosedBelowThreshold
    /\ FailuresCounted
    /\ QuietBeforeProbe

(* The breaker starts CLOSED with nothing counted.                         *)
LEMMA InitBreaker == Init => BreakerInv
  BY BreakerAssumption DEF Init, BreakerInv, TypeOK, CircuitState, CallPc,
     ClosedBelowThreshold, FailuresCounted, QuietBeforeProbe

(* Recording an outcome keeps the invariant whatever state the call was    *)
(* admitted in.                                                            *)
LEMMA OutcomeBreaker ==
  ASSUME BreakerInv, NEW c \in Callers, Outcome(c)
  PROVE  BreakerInv'
<1> USE BreakerAssumption DEF BreakerInv, TypeOK, CircuitState, CallPc,
        Finish, Saturated
<1>1. CASE Return(c)
  <2>1. TypeOK'
    BY <1>1 DEF Return, RecordSuccess
  <2>2. ClosedBelowThreshold' /\ FailuresCounted' /\ QuietBeforeProbe'
    BY <1>1 DEF Return, RecordSuccess, ClosedBelowThreshold, FailuresCounted,
       QuietBeforeProbe
  <2> QED BY <2>1, <2>2
<1>2. CASE Raise(c)
  <2>1. TypeOK'
    BY <1>2 DEF Raise, RecordFailure
  <2>2. ClosedBelowThreshold' /\ FailuresCounted' /\ QuietBeforeProbe'
    BY <1>2 DEF Raise, RecordFailure, ClosedBelowThreshold, FailuresCounted,
       QuietBeforeProbe
  <2> QED BY <2>1, <2>2
<1>3. CASE Cancel(c)
  BY <1>3 DEF Cancel, ClosedBelowThreshold, FailuresCounted, QuietBeforeProbe
<1> QED BY <1>1, <1>2, <1>3 DEF Outcome

(* Every step keeps the invariant.                                         *)
LEMMA NextBreaker == BreakerInv /\ [Next]_vars => BreakerInv'
<1> SUFFICES ASSUME BreakerInv, [Next]_vars PROVE BreakerInv'
  OBVIOUS
<1> USE BreakerAssumption DEF BreakerInv, TypeOK, CircuitState, CallPc,
        ClosedBelowThreshold, FailuresCounted, QuietBeforeProbe
<1>1. ASSUME NEW c \in Callers, Admit(c) PROVE BreakerInv'
  BY <1>1 DEF Admit, Observed
<1>2. ASSUME NEW c \in Callers, Outcome(c) PROVE BreakerInv'
  BY <1>2, OutcomeBreaker
<1>3. CASE Peek
  BY <1>3 DEF Peek, Observed
<1>4. CASE Reset
  BY <1>4 DEF Reset
<1>5. CASE ForceOpen
  BY <1>5 DEF ForceOpen
<1>6. CASE Tick
  BY <1>6 DEF Tick
<1>7. CASE UNCHANGED vars
  BY <1>7 DEF vars
<1> QED BY <1>1, <1>2, <1>3, <1>4, <1>5, <1>6, <1>7 DEF Next

(* The invariant holds in every reachable state.                           *)
LEMMA BreakerInvariant == Spec => []BreakerInv
  BY InitBreaker, NextBreaker, PTL DEF Spec

(* Type correctness of CircuitBreaker.                                     *)
THEOREM BreakerTypeOK == Spec => []TypeOK
<1>1. BreakerInv => TypeOK BY DEF BreakerInv
<1> QED BY <1>1, BreakerInvariant, PTL

(* CircuitBreaker.call never stays CLOSED through failure_threshold        *)
(* failures raised in a row.                                               *)
THEOREM BreakerTrips == Spec => []TripsAfterThreshold
<1>1. BreakerInv => TripsAfterThreshold
  BY BreakerAssumption DEF BreakerInv, TypeOK, ClosedBelowThreshold,
     FailuresCounted, TripsAfterThreshold
<1> QED BY <1>1, BreakerInvariant, PTL

(* HALF_OPEN means no failure was recorded for reset_timeout.              *)
THEOREM BreakerQuiet == Spec => []QuietBeforeProbe
<1>1. BreakerInv => QuietBeforeProbe BY DEF BreakerInv
<1> QED BY <1>1, BreakerInvariant, PTL

(* No recorded outcome takes the circuit from OPEN to CLOSED.              *)
THEOREM BreakerStragglers == Spec => StragglerNeverCloses
<1>1. ASSUME BreakerInv, [Next]_vars
      PROVE  [state = "open" /\ state' = "closed" => ops' = ops + 1]_vars
  <2> SUFFICES ASSUME state = "open", state' = "closed", Next
               PROVE  ops' = ops + 1
    BY <1>1 DEF vars
  <2> QED
    BY DEF Next, Admit, Outcome, Observed, Return, Raise,
       Cancel, Finish, RecordSuccess, RecordFailure, Peek, Reset, ForceOpen,
       Tick
<1> QED BY <1>1, BreakerInvariant, PTL DEF Spec, StragglerNeverCloses

=============================================================================
