------------------------- MODULE ToolExecutorProofs -------------------------
(***************************************************************************)
(* Proofs about the tool executor, for every topic length, retry budget    *)
(* and set of bad requests, with and without a store that appends.  What   *)
(* the service answers is settled before the loop can commit, which is an  *)
(* invariant of the handler's position (Handling, Reached); the loop's own *)
(* theorems come from EventBusProofs.                                      *)
(***************************************************************************)
EXTENDS ToolExecutor, TLAPS

BusP == INSTANCE EventBusProofs

(* The loop's own part: types, budget, and a message in hand while one is  *)
(* being handled or committed.                                             *)
LoopInv ==
    /\ Bus!TypeOK
    /\ failures < MaxFailures \/ consumer = "gaveUp"
    /\ consumer \in {"handling", "commit"} => position > 0

(* The handler runs exactly while the loop awaits it, and holds a status   *)
(* from the moment that it has something to publish; a count-out is owed   *)
(* only from there on.                                                     *)
Handling ==
    /\ step # "idle" <=> consumer = "handling"
    /\ step \in {"requeue", "index", "append", "publish", "telemetry"} => status \in Status
    /\ owesDec => step \in {"append", "publish", "telemetry", "returned", "raised"}

(* What has been done for the current request by the time that the handler *)
(* stands at a step.                                                       *)
Reached ==
    /\ step = "telemetry" => answers[current] # {}
    /\ step = "returned" => current \in Invalid \/ answers[current] # {}
    /\ step = "index" => current \in payloads
    /\ status = "blocked" /\ step \in {"append", "publish", "telemetry"} =>
          current \in payloads \cap keyset

(* An execution the gauge still counts in, and has to count out.           *)
Counted == \/ step = "running"
           \/ owesDec /\ step \in {"append", "publish", "telemetry", "raised"}

(* Each count that leaked went with one failure of the loop.               *)
Gauge ==
    /\ inflight \in Nat
    /\ IF Counted THEN inflight \in 1..(failures + 1) ELSE inflight \in 0..failures

HandlerTypeOK ==
    /\ step \in HandlerStep
    /\ status \in Status \cup {None}
    /\ answers \in [Request -> SUBSET Status]
    /\ payloads \subseteq Request
    /\ keyset \subseteq Request
    /\ owesDec \in BOOLEAN

(* The handler's part of the invariant.                                    *)
HandlerInv ==
    /\ HandlerTypeOK
    /\ Handling
    /\ Reached
    /\ Gauge
    /\ HandledIsAnswered
    /\ BlockedIsListed

-----------------------------------------------------------------------------
(* Every step of the service is a step of the loop or leaves it alone.     *)
LEMMA StepSimulates == [Next]_vars => [Bus!Next]_(Bus!busVars)
<1> SUFFICES ASSUME [Next]_vars
             PROVE  Bus!Next \/ UNCHANGED Bus!busVars
  OBVIOUS
<1>1. CASE Handle
  BY <1>1 DEF Handle, Validate, CheckPolicy, RequeueSet, RequeueIndex, Lookup,
     Execute, ToolReturns, ToolRaises, AppendEvent, PublishResult,
     EmitTelemetry, StepRaises, busVars, Bus!busVars
<1>2. CASE Loop
  BY <1>2 DEF Loop, Deliver, HandlerReturns, HandlerRaises, Start, Commit,
     BackoffElapses, BusError, BusStep, Bus!Next, Bus!ConsumerNext
<1>3. CASE Produce \/ Crash \/ Restart
  BY <1>3 DEF Produce, Crash, Restart, Bus!Next
<1>4. CASE UNCHANGED vars
  BY <1>4 DEF vars, busVars, Bus!busVars
<1> QED BY <1>1, <1>2, <1>3, <1>4 DEF Next

(* So what EventBusProofs proves of the loop can be used of the service.   *)
LEMMA ExecutorLoop == Spec => Bus!Spec
<1>1. Init => Bus!Init
  BY DEF Init
<1> QED BY <1>1, StepSimulates, PTL DEF Spec, Bus!Spec

-----------------------------------------------------------------------------
(* The request in hand is one of the topic's.                              *)
LEMMA CurrentRequest ==
  ASSUME LoopInv, consumer = "handling"
  PROVE  current \in Request
  BY ExecutorAssumption DEF LoopInv, Bus!TypeOK, Bus!Offset, Request, current

(* What a step of the loop does to the loop's invariant.                   *)
LEMMA LoopStep ==
  ASSUME LoopInv, Bus!Next \/ UNCHANGED busVars
  PROVE  LoopInv'
<1> USE ExecutorAssumption DEF LoopInv, Bus!TypeOK, Bus!Offset, Bus!ConsumerPc
<1>1. CASE Bus!Produce
  BY <1>1 DEF Bus!Produce
<1>2. CASE Bus!RequestStop
  <2>1. stop' \in BOOLEAN
    BY <1>2, Zenon DEF Bus!RequestStop
  <2> QED BY <1>2, <2>1 DEF Bus!RequestStop
<1>3. CASE UNCHANGED busVars
  BY <1>3 DEF busVars
<1>4. CASE Bus!Start
  BY <1>4 DEF Bus!Start, Bus!StartPosition
<1>5. CASE Bus!Deliver
  <2>1. position \in 0..MaxLog /\ position + 1 \in 0..MaxLog /\ position + 1 > 0
    BY <1>5 DEF Bus!Deliver
  <2> QED BY <1>5, <2>1 DEF Bus!Deliver
<1>6. CASE Bus!HandlerReturns
  <2>1. position - 1 \in 0..MaxLog
    BY <1>6 DEF Bus!HandlerReturns
  <2> QED BY <1>6, <2>1 DEF Bus!HandlerReturns, Bus!Current
<1>7. CASE Bus!Commit
  BY <1>7 DEF Bus!Commit
<1>8. CASE Bus!Raises \/ Bus!CommitRaises
  <2>1. /\ Bus!Fail /\ consumer # "gaveUp"
        /\ committed' \in {committed, position}
        /\ UNCHANGED <<logEnd, position, stop, delivered, handled>>
    BY <1>8 DEF Bus!Raises, Bus!CommitRaises
  <2>2. /\ failures' \in 0..MaxFailures
        /\ consumer' \in {"backoff", "gaveUp"}
        /\ failures' < MaxFailures \/ consumer' = "gaveUp"
    BY <2>1 DEF Bus!Fail
  <2> QED BY <2>1, <2>2
<1>9. CASE Bus!BackoffElapses
  BY <1>9 DEF Bus!BackoffElapses
<1>10. CASE Bus!Crash \/ Bus!Restart
  <2>1. Bus!NewProcess
    BY <1>10 DEF Bus!Crash, Bus!Restart
  <2>2. stop' \in BOOLEAN /\ consumer' = "starting"
    BY <2>1, Zenon DEF Bus!NewProcess
  <2>3. failures' = 0
    BY <2>1 DEF Bus!NewProcess
  <2> QED BY <2>1, <2>2, <2>3 DEF Bus!NewProcess
<1> QED BY <1>1, <1>2, <1>3, <1>4, <1>5, <1>6, <1>7, <1>8, <1>9, <1>10
        DEF Bus!Next, Bus!ConsumerNext

(* The service starts in a state of the invariant.                         *)
LEMMA ExecutorInit == Init => LoopInv /\ HandlerInv
<1> SUFFICES ASSUME Init
             PROVE  LoopInv /\ HandlerInv
  OBVIOUS
<1> USE ExecutorAssumption DEF Init, Bus!Init
<1>1. Bus!TypeOK
  <2>1. stop \in BOOLEAN /\ consumer \in Bus!ConsumerPc
    BY Zenon DEF Bus!ConsumerPc
  <2>2. /\ logEnd \in Bus!Offset /\ committed \in Bus!Offset /\ position \in Bus!Offset
        /\ failures \in 0..MaxFailures
    BY DEF Bus!Offset
  <2> QED BY <2>1, <2>2, Zenon DEF Bus!TypeOK
<1>2. LoopInv
  BY <1>1 DEF LoopInv
<1>3. HandlerTypeOK
  <2>1. owesDec \in BOOLEAN /\ step \in HandlerStep /\ status \in Status \cup {None}
    BY Zenon DEF HandlerStep
  <2>2. answers \in [Request -> SUBSET Status]
    OBVIOUS
  <2> QED BY <2>1, <2>2 DEF HandlerTypeOK
<1>4. Handling /\ Reached /\ Gauge /\ HandledIsAnswered /\ BlockedIsListed
  BY DEF Handling, Reached, Gauge, Counted, HandledIsAnswered, BlockedIsListed
<1> QED BY <1>2, <1>3, <1>4 DEF HandlerInv

(* Every step of RequestHandler.handle and ResultPublisher.publish keeps   *)
(* the handler's part of the invariant.                                    *)
LEMMA HandleStep ==
  ASSUME LoopInv, HandlerInv, Handle
  PROVE  HandlerInv'
<1> USE ExecutorAssumption DEF HandlerInv
<1>1. UNCHANGED busVars /\ step # "idle"
  BY DEF Handle, Validate, CheckPolicy, RequeueSet, RequeueIndex, Lookup,
     Execute, ToolReturns, ToolRaises, AppendEvent, PublishResult,
     EmitTelemetry, StepRaises, Goto
<1>2. /\ current \in Request /\ current' = current
      /\ consumer = "handling" /\ consumer' = "handling"
      /\ handled' = handled /\ failures' = failures /\ failures \in Nat
  BY <1>1, CurrentRequest DEF busVars, current, Handling, LoopInv, Bus!TypeOK
<1>3. CASE Validate
  BY <1>2, <1>3 DEF Validate, Goto, HandlerTypeOK, HandlerStep, Handling, Reached,
     Gauge, Counted, HandledIsAnswered, BlockedIsListed, requeueVars, gaugeVars
<1>4. CASE CheckPolicy
  <2> USE <1>2, <1>4 DEF CheckPolicy, Goto
  <2>1. HandlerTypeOK'
    BY DEF HandlerTypeOK, HandlerStep, Handling, Status, requeueVars, gaugeVars
  <2>2. Handling' /\ Reached'
    BY DEF HandlerTypeOK, HandlerStep, Handling, Reached, Status, requeueVars, gaugeVars
  <2>3. Gauge'
    BY DEF HandlerTypeOK, Handling, Gauge, Counted, requeueVars, gaugeVars
  <2>4. HandledIsAnswered' /\ BlockedIsListed'
    BY DEF HandlerTypeOK, Handling, Reached, HandledIsAnswered, BlockedIsListed, requeueVars, gaugeVars
  <2> QED BY <2>1, <2>2, <2>3, <2>4
<1>5. CASE RequeueSet
  <2> USE <1>2, <1>5 DEF RequeueSet, Goto
  <2>1. HandlerTypeOK'
    BY DEF HandlerTypeOK, HandlerStep, Handling, Status, requeueVars, gaugeVars
  <2>2. Handling' /\ Reached'
    BY DEF HandlerTypeOK, HandlerStep, Handling, Reached, Status, requeueVars, gaugeVars
  <2>3. Gauge'
    BY DEF HandlerTypeOK, Handling, Gauge, Counted, requeueVars, gaugeVars
  <2>4. HandledIsAnswered' /\ BlockedIsListed'
    BY DEF HandlerTypeOK, Handling, Reached, HandledIsAnswered, BlockedIsListed, requeueVars, gaugeVars
  <2> QED BY <2>1, <2>2, <2>3, <2>4
<1>6. CASE RequeueIndex
  <2> USE <1>2, <1>6 DEF RequeueIndex, Goto
  <2>1. HandlerTypeOK'
    BY DEF HandlerTypeOK, HandlerStep, Handling, Status, requeueVars, gaugeVars
  <2>2. Handling' /\ Reached'
    BY DEF HandlerTypeOK, HandlerStep, Handling, Reached, Status, requeueVars, gaugeVars
  <2>3. Gauge'
    BY DEF HandlerTypeOK, Handling, Gauge, Counted, requeueVars, gaugeVars
  <2>4. HandledIsAnswered' /\ BlockedIsListed'
    BY DEF HandlerTypeOK, Handling, Reached, HandledIsAnswered, BlockedIsListed, requeueVars, gaugeVars
  <2> QED BY <2>1, <2>2, <2>3, <2>4
<1>7. CASE Lookup
  BY <1>2, <1>7 DEF Lookup, Goto, HandlerTypeOK, HandlerStep, Status, Handling,
     Reached, Gauge, Counted, HandledIsAnswered, BlockedIsListed, requeueVars, gaugeVars
<1>8. CASE Execute
  BY <1>2, <1>8 DEF Execute, Goto, HandlerTypeOK, HandlerStep, Handling,
     Reached, Gauge, Counted, HandledIsAnswered, BlockedIsListed, requeueVars
<1>9. CASE ToolReturns
  BY <1>2, <1>9 DEF ToolReturns, Goto, HandlerTypeOK, HandlerStep, Status, Handling,
     Reached, Gauge, Counted, HandledIsAnswered, BlockedIsListed, requeueVars
<1>10. CASE ToolRaises
  BY <1>2, <1>10 DEF ToolRaises, Goto, HandlerTypeOK, HandlerStep, Status, Handling,
     Reached, Gauge, Counted, HandledIsAnswered, BlockedIsListed, requeueVars
<1>11. CASE AppendEvent
  BY <1>2, <1>11 DEF AppendEvent, HandlerTypeOK, HandlerStep, Handling,
     Reached, Gauge, Counted, HandledIsAnswered, BlockedIsListed, requeueVars, gaugeVars
<1>12. CASE PublishResult
  BY <1>2, <1>12 DEF PublishResult, Answer, Goto, HandlerTypeOK, HandlerStep, Handling,
     Reached, Gauge, Counted, HandledIsAnswered, BlockedIsListed, requeueVars, gaugeVars
<1>13. CASE EmitTelemetry
  BY <1>2, <1>13 DEF EmitTelemetry, Goto, HandlerTypeOK, HandlerStep, Handling,
     Reached, Gauge, Counted, HandledIsAnswered, BlockedIsListed, requeueVars
<1>14. CASE StepRaises
  <2> USE <1>2, <1>14 DEF StepRaises
  <2>1. HandlerTypeOK'
    BY DEF Answer, HandlerTypeOK, HandlerStep, Handling, Status, requeueVars, gaugeVars
  <2>2. Handling' /\ Reached'
    BY DEF Answer, HandlerTypeOK, HandlerStep, Handling, Reached, Status, requeueVars, gaugeVars
  <2>3. Gauge'
    BY DEF HandlerTypeOK, Handling, Gauge, Counted, requeueVars, gaugeVars
  <2>4. CASE UNCHANGED answers
    <3>1. HandledIsAnswered' /\ BlockedIsListed'
      BY <2>4 DEF HandledIsAnswered, BlockedIsListed, requeueVars
    <3> QED BY <3>1, <2>1, <2>2, <2>3
  <2>5. CASE step = "publish" /\ Answer
    <3>1. answers' = [answers EXCEPT ![current] = @ \cup {status}]
      BY <2>5 DEF Answer
    <3>2. HandledIsAnswered'
      BY <3>1 DEF HandlerTypeOK, HandledIsAnswered
    <3>3. BlockedIsListed'
      BY <3>1, <2>5 DEF HandlerTypeOK, Reached, BlockedIsListed, requeueVars
    <3> QED BY <3>2, <3>3, <2>1, <2>2, <2>3
  <2> QED BY <2>4, <2>5
<1> QED BY <1>3, <1>4, <1>5, <1>6, <1>7, <1>8, <1>9, <1>10, <1>11, <1>12, <1>13,
           <1>14 DEF Handle

(* What the loop does around the handler keeps it too: it commits only     *)
(* what the handler has returned from, and a new process forgets only what *)
(* the handler held in its locals.                                         *)
LEMMA LoopKeepsHandler ==
  ASSUME LoopInv, HandlerInv, Loop \/ Produce \/ Crash \/ Restart
  PROVE  HandlerInv'
<1> USE ExecutorAssumption DEF HandlerInv
<1>0. failures \in Nat /\ position \in Nat
  BY DEF LoopInv, Bus!TypeOK, Bus!Offset
<1>1. CASE Deliver
  <2>1. /\ step' = "validate" /\ consumer' = "handling" /\ ~owesDec
        /\ UNCHANGED <<failures, handled, status, answers, requeueVars, gaugeVars>>
    BY <1>1 DEF Deliver, Goto, Bus!Deliver, Handling
  <2>2. HandlerTypeOK'
    BY <2>1 DEF HandlerTypeOK, HandlerStep, requeueVars, gaugeVars
  <2>3. step = "idle"
    BY <1>1 DEF Deliver, Goto
  <2>4. Handling' /\ Gauge'
    BY <2>1, <2>3, <1>0 DEF Handling, Gauge, Counted, gaugeVars
  <2> QED BY <2>1, <2>2, <2>4 DEF Reached, HandledIsAnswered, BlockedIsListed,
      requeueVars
<1>2. CASE HandlerReturns
  <2>1. /\ step = "returned" /\ consumer = "handling" /\ consumer' = "commit"
        /\ handled' = handled \cup {current}
        /\ UNCHANGED <<failures, inflight>>
        /\ Leave
    BY <1>2 DEF HandlerReturns, Bus!HandlerReturns, Bus!Current, current
  <2>2. HandledIsAnswered'
    BY <2>1 DEF Leave, Reached, HandledIsAnswered
  <2>3. HandlerTypeOK'
    BY <2>1 DEF Leave, HandlerTypeOK, HandlerStep, requeueVars
  <2> QED BY <2>1, <2>2, <2>3, <1>0 DEF Leave, Handling, Reached, Gauge, Counted,
      BlockedIsListed, requeueVars
<1>3. CASE HandlerRaises
  <2>1. /\ step = "raised" /\ consumer = "handling" /\ consumer' # "handling"
        /\ failures' = failures + 1
        /\ UNCHANGED <<handled, inflight>>
        /\ Leave
    BY <1>3 DEF HandlerRaises, Bus!Raises, Bus!Fail, Handling
  <2>2. HandlerTypeOK'
    BY <2>1 DEF Leave, HandlerTypeOK, HandlerStep, requeueVars
  <2> QED BY <2>1, <2>2, <1>0 DEF Leave, Handling, Reached, Gauge, Counted,
      HandledIsAnswered, BlockedIsListed, requeueVars
<1>4. CASE Start \/ Commit \/ BackoffElapses \/ BusError
  <2>1. /\ consumer # "handling" /\ consumer' # "handling"
        /\ failures' \in {failures, failures + 1}
        /\ UNCHANGED <<handled, handlerVars>>
    BY <1>4 DEF Start, Commit, BackoffElapses, BusError, BusStep, Bus!Start,
       Bus!Commit, Bus!BackoffElapses, Bus!Raises, Bus!CommitRaises, Bus!Fail
  <2>2. step = "idle"
    BY <2>1 DEF Handling, HandlerTypeOK
  <2>3. HandlerTypeOK' /\ Handling'
    BY <2>1 DEF handlerVars, requeueVars, gaugeVars, HandlerTypeOK, Handling
  <2>4. Gauge'
    BY <2>1, <2>2, <1>0 DEF handlerVars, gaugeVars, Gauge, Counted
  <2> QED BY <2>1, <2>2, <2>3, <2>4 DEF handlerVars, requeueVars, Reached,
      HandledIsAnswered, BlockedIsListed
<1>5. CASE Produce
  <2>1. UNCHANGED <<consumer, position, failures, handled, handlerVars>>
    BY <1>5 DEF Produce, Bus!Produce
  <2> QED BY <2>1, <1>0 DEF handlerVars, requeueVars, gaugeVars, HandlerTypeOK,
      Handling, Reached, Gauge, Counted, HandledIsAnswered, BlockedIsListed, current
<1>6. CASE Crash \/ Restart
  <2>1. /\ consumer' # "handling" /\ failures' = 0 /\ inflight' = 0
        /\ UNCHANGED handled
        /\ Leave
    BY <1>6 DEF Crash, Restart, Bus!Crash, Bus!Restart, Bus!NewProcess
  <2>2. HandlerTypeOK'
    BY <2>1 DEF Leave, HandlerTypeOK, HandlerStep, requeueVars
  <2> QED BY <2>1, <2>2 DEF Leave, Handling, Reached, Gauge, Counted,
      HandledIsAnswered, BlockedIsListed, requeueVars
<1> QED BY <1>1, <1>2, <1>3, <1>4, <1>5, <1>6 DEF Loop

(* The invariant holds in every reachable state.                           *)
LEMMA ExecutorInvariant == Spec => [](LoopInv /\ HandlerInv)
<1>1. LoopInv /\ HandlerInv /\ [Next]_vars => (LoopInv /\ HandlerInv)'
  <2> SUFFICES ASSUME LoopInv, HandlerInv, [Next]_vars
               PROVE  LoopInv' /\ HandlerInv'
    OBVIOUS
  <2>1. LoopInv'
    BY StepSimulates, LoopStep DEF Bus!busVars, busVars
  <2>2. CASE UNCHANGED vars
    <3> USE <2>2 DEF vars, busVars, handlerVars, requeueVars, gaugeVars, HandlerInv
    <3>1. HandlerTypeOK' /\ Handling'
      BY DEF HandlerTypeOK, Handling
    <3>2. Reached' /\ Gauge'
      BY DEF Reached, Gauge, Counted, current
    <3>3. HandledIsAnswered' /\ BlockedIsListed'
      BY DEF HandledIsAnswered, BlockedIsListed
    <3> QED BY <3>1, <3>2, <3>3, <2>1
  <2> QED BY <2>1, <2>2, HandleStep, LoopKeepsHandler DEF Next
<1> QED BY <1>1, ExecutorInit, PTL DEF Spec

(* The handler's variables keep their types; in particular the gauge never *)
(* goes below zero, and leaks at most one count per failure of the loop.   *)
THEOREM ExecutorTypeOK == Spec => []TypeOK
<1>1. LoopInv /\ HandlerInv => TypeOK
  <2> SUFFICES ASSUME LoopInv, HandlerInv
               PROVE  TypeOK
    OBVIOUS
  <2>1. inflight \in 0..(MaxFailures + 1)
    BY ExecutorAssumption DEF LoopInv, Bus!TypeOK, HandlerInv, Gauge
  <2> QED BY <2>1 DEF LoopInv, HandlerInv, HandlerTypeOK, TypeOK
<1> QED BY <1>1, ExecutorInvariant, PTL

(* Whatever fails, a request that the group moves past was answered or was *)
(* not valid.                                                              *)
THEOREM ExecutorHandledIsAnswered == Spec => []HandledIsAnswered
<1>1. LoopInv /\ HandlerInv => HandledIsAnswered
  BY DEF HandlerInv
<1> QED BY <1>1, ExecutorInvariant, PTL

(* Whatever fails between RequeueStore.add's two calls and the answer, a   *)
(* request answered "blocked" is complete in the store.                    *)
THEOREM ExecutorBlockedIsListed == Spec => []BlockedIsListed
<1>1. LoopInv /\ HandlerInv => BlockedIsListed
  BY DEF HandlerInv
<1> QED BY <1>1, ExecutorInvariant, PTL

-----------------------------------------------------------------------------
(* No request of tool.requests is left behind the group's offset without   *)
(* an answer, whatever raises between the tool and the commit: the loop    *)
(* commits only what its handler returned from (EventBus), and the handler *)
(* returns only from what it has answered.                                 *)
THEOREM ExecutorCommitsOnlyAnswered == Spec => CommitsOnlyAnswered
<1> DEFINE Moves == committed' # committed =>
                      /\ committed' > committed
                      /\ committed > 0 =>
                            committed..(committed' - 1) \subseteq handled
           Answers == committed' # committed =>
                        /\ committed' > committed
                        /\ committed > 0 =>
                              \A r \in committed..(committed' - 1) :
                                  r \in Invalid \/ answers[r] # {}
<1>1. HandledIsAnswered /\ [Moves]_(Bus!busVars) => [Answers]_vars
  BY DEF HandledIsAnswered, Bus!busVars
<1>2. Bus!Spec => [][Moves]_(Bus!busVars)
  <2>1. Bus!Init => BusP!Init
    BY DEF Bus!Init, BusP!Init
  <2>2. [Bus!Next]_(Bus!busVars) => [BusP!Next]_(BusP!busVars)
    BY Zenon DEF Bus!Next, Bus!ConsumerNext, Bus!busVars, BusP!Next, BusP!ConsumerNext, BusP!busVars,
       Bus!Produce, Bus!Start, Bus!StartPosition, Bus!Deliver, Bus!HandlerReturns, Bus!Commit, Bus!Raises,
       Bus!CommitRaises, Bus!BackoffElapses, Bus!RequestStop, Bus!Crash, Bus!Restart,
       Bus!NewProcess, Bus!Fail, Bus!Current, Bus!Ended,
       BusP!Produce, BusP!Start, BusP!StartPosition, BusP!Deliver, BusP!HandlerReturns, BusP!Commit,
       BusP!Raises, BusP!CommitRaises, BusP!BackoffElapses, BusP!RequestStop, BusP!Crash,
       BusP!Restart, BusP!NewProcess, BusP!Fail, BusP!Current, BusP!Ended
  <2>3. [Moves]_(BusP!busVars) => [Moves]_(Bus!busVars)
    BY DEF Bus!busVars, BusP!busVars
  <2>4. BusP!Spec => BusP!CommitsOnlyHandled
    BY ExecutorAssumption, BusP!BusCommitsOnlyHandled
  <2> QED
    BY <2>1, <2>2, <2>3, <2>4, PTL DEF Bus!Spec, BusP!Spec, BusP!CommitsOnlyHandled
<1> QED
  BY <1>1, <1>2, ExecutorHandledIsAnswered, ExecutorLoop, PTL
     DEF CommitsOnlyAnswered
=============================================================================
