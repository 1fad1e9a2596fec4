--------------------------- MODULE EventBusProofs ---------------------------
(***************************************************************************)
(* Proofs about the consumer loop, for every topic length and every        *)
(* max_consecutive_failures.  RedeliveryWindow and CommitsOnlyHandled are  *)
(* not inductive: they rest on where a running consumer stands relative to *)
(* the group's offset (InStep), and, before the group's first commit, on   *)
(* "latest" never starting below a message already handled (Behind).       *)
(***************************************************************************)
EXTENDS EventBus, TLAPS

Fetching == consumer \in {"polling", "handling", "commit"}

(* A failure count at its limit means that the loop has ended.             *)
Budget == failures < MaxFailures \/ consumer = "gaveUp"

(* Once the group has an offset, the running consumer is at it, or one     *)
(* past it with a message in hand.                                         *)
InStep ==
    /\ committed <= logEnd
    /\ Fetching => position <= logEnd
    /\ consumer \in {"handling", "commit"} => position > 0
    /\ consumer = "commit" => Current \in handled
    /\ committed > 0 =>
          /\ consumer = "polling" => position = committed
          /\ consumer \in {"handling", "commit"} => position = committed + 1

(* Before the first commit, everything handled is behind the consumer and  *)
(* behind the end of the log, where "latest" would start.                  *)
Behind ==
    committed = 0 => \A o \in handled : o < logEnd /\ (Fetching => o < position)

BusInv == TypeOK /\ Budget /\ InStep /\ Behind /\ RedeliveryWindow

(* The loop starts in a state of the invariant.                            *)
LEMMA BusInit == Init => BusInv
<1> SUFFICES ASSUME Init
             PROVE  BusInv
  OBVIOUS
<1> USE EventBusAssumption DEF Init
<1>1. TypeOK
  <2>1. stop \in BOOLEAN /\ consumer \in ConsumerPc
    BY Zenon DEF ConsumerPc
  <2>2. /\ logEnd \in Offset /\ committed \in Offset /\ position \in Offset
        /\ failures \in 0..MaxFailures
    BY DEF Offset
  <2>3. delivered \subseteq Offset /\ handled \subseteq Offset
    BY DEF Offset
  <2> QED BY <2>1, <2>2, <2>3, Zenon DEF TypeOK
<1>2. Budget /\ InStep
  BY DEF Budget, InStep, Fetching
<1>3. Behind /\ RedeliveryWindow
  BY DEF Behind, RedeliveryWindow
<1> QED BY <1>1, <1>2, <1>3 DEF BusInv

(* What an exception does to the loop's own variables.                     *)
LEMMA FailFacts ==
  ASSUME TypeOK, Budget, consumer # "gaveUp", Fail
  PROVE  /\ failures' \in 0..MaxFailures
         /\ consumer' \in {"backoff", "gaveUp"}
         /\ failures' < MaxFailures \/ consumer' = "gaveUp"
  BY EventBusAssumption DEF TypeOK, Budget, Fail

(* Every step of the loop preserves the invariant.                         *)
LEMMA BusStep == BusInv /\ [Next]_busVars => BusInv'
<1> SUFFICES ASSUME BusInv, [Next]_busVars
             PROVE  BusInv'
  OBVIOUS
<1> USE EventBusAssumption
<1>t. /\ TypeOK /\ Budget /\ InStep /\ Behind /\ RedeliveryWindow
      /\ MaxLog \in Nat
  BY DEF BusInv
<1>1. CASE Produce
  BY <1>1, <1>t DEF Produce, BusInv, TypeOK, Budget, InStep, Behind,
     RedeliveryWindow, Fetching, Offset, Current
<1>2. CASE Start
  BY <1>2, <1>t DEF Start, StartPosition, BusInv, TypeOK, Budget, InStep,
     Behind, RedeliveryWindow, Fetching, Offset, Current, ConsumerPc
<1>3. CASE Deliver
  BY <1>3, <1>t DEF Deliver, BusInv, TypeOK, Budget, InStep, Behind,
     RedeliveryWindow, Fetching, Offset, Current, ConsumerPc
<1>4. CASE HandlerReturns
  BY <1>4, <1>t DEF HandlerReturns, BusInv, TypeOK, Budget, InStep, Behind,
     RedeliveryWindow, Fetching, Offset, Current, ConsumerPc
<1>5. CASE Commit
  BY <1>5, <1>t DEF Commit, BusInv, TypeOK, Budget, InStep, Behind,
     RedeliveryWindow, Fetching, Offset, Current, ConsumerPc
<1>6. CASE Raises
  <2>1. consumer # "gaveUp" /\ Fail
    BY <1>6 DEF Raises
  <2> QED BY <1>6, <2>1, <1>t, FailFacts DEF Raises, BusInv, TypeOK, Budget,
     InStep, Behind, RedeliveryWindow, Fetching, Offset, Current, ConsumerPc
<1>7. CASE CommitRaises
  <2>1. consumer # "gaveUp" /\ Fail
    BY <1>7 DEF CommitRaises
  <2>2. /\ committed' \in {committed, position}
        /\ consumer = "commit"
        /\ UNCHANGED <<logEnd, position, stop, delivered, handled>>
    BY <1>7 DEF CommitRaises
  <2>3. TypeOK' /\ Budget' /\ consumer' \in {"backoff", "gaveUp"}
    BY <2>1, <2>2, <1>t, FailFacts DEF TypeOK, Budget, ConsumerPc
  <2>4. InStep'
    BY <2>2, <2>3, <1>t DEF TypeOK, InStep, Fetching, Offset
  <2>5. Behind' /\ RedeliveryWindow'
    BY <2>2, <2>3, <1>t DEF TypeOK, InStep, Behind, RedeliveryWindow, Fetching, Offset
  <2> QED BY <2>3, <2>4, <2>5 DEF BusInv
<1>8. CASE BackoffElapses
  BY <1>8, <1>t DEF BackoffElapses, BusInv, TypeOK, Budget, InStep, Behind,
     RedeliveryWindow, Fetching, Offset, Current, ConsumerPc
<1>9. CASE RequestStop
  BY <1>9, <1>t DEF RequestStop, BusInv, TypeOK, Budget, InStep, Behind,
     RedeliveryWindow, Fetching, Offset, Current, ConsumerPc
<1>10. CASE Crash \/ Restart
  <2>1. NewProcess
    BY <1>10 DEF Crash, Restart
  <2>2. TypeOK'
    <3>1. stop' \in BOOLEAN /\ consumer' \in ConsumerPc
      BY <2>1, Zenon DEF NewProcess, ConsumerPc
    <3>2. failures' \in 0..MaxFailures
      BY <2>1 DEF NewProcess
    <3>3. UNCHANGED <<logEnd, committed, position, delivered, handled>>
      BY <2>1 DEF NewProcess
    <3> QED BY <3>1, <3>2, <3>3, <1>t, Zenon DEF TypeOK, Offset, ConsumerPc
  <2>3. Budget' /\ InStep' /\ Behind' /\ RedeliveryWindow'
    BY <2>1, <1>t DEF NewProcess, TypeOK, Budget, InStep, Behind,
       RedeliveryWindow, Fetching, Offset
  <2> QED BY <2>2, <2>3 DEF BusInv
<1>11. CASE UNCHANGED busVars
  BY <1>11, <1>t DEF busVars, BusInv, TypeOK, Budget, InStep, Behind,
     RedeliveryWindow, Fetching, Offset, Current, ConsumerPc
<1> QED
  BY <1>1, <1>2, <1>3, <1>4, <1>5, <1>6, <1>7, <1>8, <1>9, <1>10, <1>11
     DEF Next, ConsumerNext

(* The invariant holds in every reachable state.                           *)
LEMMA BusInvariant == Spec => []BusInv
  BY BusInit, BusStep, PTL DEF Spec

(* The variables of KafkaEventBus.consume keep their types; failure_count  *)
(* never passes max_consecutive_failures.                                  *)
THEOREM BusTypeOK == Spec => []TypeOK
<1>1. BusInv => TypeOK
  BY DEF BusInv
<1> QED BY <1>1, BusInvariant, PTL

(* Commit-after-handler bounds what a failure repeats: at most the one     *)
(* message at the group's offset is handled again.                         *)
THEOREM BusRedeliveryWindow == Spec => []RedeliveryWindow
<1>1. BusInv => RedeliveryWindow
  BY DEF BusInv
<1> QED BY <1>1, BusInvariant, PTL

(* Once the group has an offset, no step of the loop moves it past a       *)
(* message whose handler has not returned.                                 *)
THEOREM BusCommitsOnlyHandled == Spec => CommitsOnlyHandled
<1> DEFINE A == committed' # committed =>
                  /\ committed' > committed
                  /\ committed > 0 => committed..(committed' - 1) \subseteq handled
<1>1. BusInv /\ [Next]_busVars => [A]_busVars
  <2> SUFFICES ASSUME BusInv, Next, committed' # committed
               PROVE  A
    BY DEF busVars
  <2>1. Commit \/ CommitRaises
    BY DEF Next, ConsumerNext, Produce, Start, Deliver, HandlerReturns, Raises,
       BackoffElapses, RequestStop, Crash, Restart, NewProcess
  <2>2. consumer = "commit" /\ committed' = position
    BY <2>1 DEF Commit, CommitRaises
  <2>3. /\ committed \in Nat /\ position \in Nat /\ position > 0
        /\ Current \in handled
        /\ committed > 0 => position = committed + 1
    BY <2>2, EventBusAssumption DEF BusInv, TypeOK, InStep, Offset
  <2> QED BY <2>2, <2>3 DEF Current
<1> QED BY <1>1, BusInvariant, PTL DEF Spec, CommitsOnlyHandled
=============================================================================
