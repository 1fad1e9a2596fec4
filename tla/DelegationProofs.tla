-------------------------- MODULE DelegationProofs --------------------------
(***************************************************************************)
(* Proofs about Delegation, for any number of tasks and callbacks and any  *)
(* limits, and however many runs of publish_outbox overlap.                *)
(*                                                                         *)
(* The publisher with its buffer and its drains implements AtLeastOnce.    *)
(* This rests on Settled: a request that is about to be answered has its   *)
(* event on the topic or in the buffer, a row is published only after its  *)
(* event was appended, and the topic never forgets one.                    *)
(*                                                                         *)
(* That a buried row was tried as often as it may be rests on Counts: no   *)
(* count, in the table or in what a drain has loaded, is above the failed  *)
(* sends there were; a stale snapshot can only lower it.                   *)
(*                                                                         *)
(* Each step is a step of the worker's loop or leaves it alone (StepBus),  *)
(* so that what EventBusProofs proves of the loop holds here.              *)
(***************************************************************************)
EXTENDS Delegation, TLAPS

BusP == INSTANCE EventBusProofs WITH logEnd <- Len(topic), Poison <- {}

(* Variables of the gateway, the publisher and the callbacks.              *)
GatewayType ==
    /\ req \in [Tasks -> RequestPc]
    /\ rows \in [Tasks -> Row]
    /\ outbox \in [Tasks -> [status : OutboxStatus, attempts : 0..MaxAttempts]]
    /\ flying \in [Tasks -> Nat]
    /\ batch \in [Drains -> SUBSET Snapshot]
    /\ sent \in [Drains -> Tasks \cup {Idle}]
    /\ topic \in Seq(Tasks) /\ Len(topic) <= MaxLog
    /\ cb \in [Callbacks -> Post \cup {NotYet, Reported}]
    /\ tried \in [Tasks -> Nat]
    /\ faults \in 0..MaxFaults

(* A row that may be tried again has a try left.                           *)
TriesLeft ==
    \A t \in Tasks :
        outbox[t].status \notin {"published", "dead"} => outbox[t].attempts < MaxAttempts

TypeInv == GatewayType /\ TriesLeft /\ BusP!BusInv

(* The worker's loop starts as EventBus does, and each step of the whole   *)
(* is one of its steps or leaves it alone.                                 *)
LEMMA InitBus == Init => Bus!Init
  BY DEF Init, Bus!Init

(* An append to the topic is a Produce; the rest is the loop or a stutter. *)
LEMMA StepBus ==
    ASSUME GatewayType, [Next]_vars
    PROVE  [Bus!Next]_(Bus!busVars)
  <1> USE DelegationAssumption
  <1>a. ASSUME NEW t \in Tasks, Appends(t), UNCHANGED workerVars
        PROVE  Bus!Produce
    BY <1>a DEF Appends, GatewayType, Bus!Produce, workerVars
  <1>1. ASSUME NEW t \in Tasks, Publish(t) \/ Arrives(t)
        PROVE  Bus!Next
    BY <1>1, <1>a DEF Publish, Arrives, Bus!Next
  <1>2. ASSUME NEW t \in Tasks,
               \/ CreateTask(t) \/ PublishFails(t) \/ EnqueueLocal(t)
               \/ AnswerRequest(t) \/ RequestFails(t)
        PROVE  UNCHANGED <<topic, workerVars>>
    BY <1>2 DEF CreateTask, PublishFails, EnqueueLocal, AnswerRequest, RequestFails
  <1>3. ASSUME NEW d \in Drains, DrainLoad(d) \/ DrainMarks(d) \/ DrainCrashes(d)
        PROVE  UNCHANGED <<topic, workerVars>>
    BY <1>3 DEF DrainLoad, DrainMarks, DrainCrashes
  <1>9. ASSUME NEW d \in Drains, NEW row \in batch[d],
               DrainSends(d, row) \/ DrainFails(d, row)
        PROVE  [Bus!Next]_(Bus!busVars)
    <2>1. row.task \in Tasks
      BY DEF GatewayType, Snapshot
    <2>2. CASE DrainSends(d, row)
      BY <2>1, <2>2, <1>a DEF DrainSends, Bus!Next
    <2>3. CASE DrainFails(d, row)
      BY <2>3 DEF DrainFails, Bus!busVars, workerVars
    <2> QED
      BY <1>9, <2>2, <2>3
  <1>4. CASE HandleEvent
    BY <1>4 DEF HandleEvent, Bus!Next, Bus!ConsumerNext
  <1>5. CASE WorkerSteps
    BY <1>5 DEF WorkerSteps, Bus!Next, Bus!ConsumerNext
  <1>6. CASE WorkerFails
    BY <1>6 DEF WorkerFails, Bus!Next, Bus!ConsumerNext
  <1>7. ASSUME NEW c \in Callbacks,
               \/ CallbackSaves(c)
               \/ \E t \in Tasks, s \in {"running", "completed"}, r \in BOOLEAN :
                     CallbackReads(c, t, s, r)
        PROVE  UNCHANGED <<topic, workerVars>>
    BY <1>7 DEF CallbackSaves, CallbackReads
  <1>8. CASE UNCHANGED vars
    BY <1>8 DEF vars, Bus!busVars, workerVars
  <1> QED
    BY <1>1, <1>2, <1>3, <1>4, <1>5, <1>6, <1>7, <1>8, <1>9 DEF Next, Bus!busVars, workerVars

(* What EventBusProofs proves of the loop holds of this worker's.          *)
LEMMA BusAssumption ==
    MaxLog \in Nat /\ MaxFailures \in Nat \ {0} /\ {} \subseteq Nat
  BY DelegationAssumption

(* The loop's invariant holds initially.                                   *)
LEMMA InitBusInv == Init => BusP!BusInv
  BY InitBus, BusAssumption, BusP!BusInit DEF Bus!Init, BusP!Init

(* The two instances of the loop have the same steps.                      *)
LEMMA SameLoop == [Bus!Next]_(Bus!busVars) => [BusP!Next]_(BusP!busVars)
  BY Zenon DEF Bus!Next, Bus!ConsumerNext, Bus!busVars, BusP!Next, BusP!ConsumerNext, BusP!busVars,
     Bus!Produce, Bus!Start, Bus!StartPosition, Bus!Deliver, Bus!HandlerReturns, Bus!Commit, Bus!Raises,
     Bus!CommitRaises, Bus!BackoffElapses, Bus!RequestStop, Bus!Crash, Bus!Restart,
     Bus!NewProcess, Bus!Fail, Bus!Current, Bus!Ended,
     BusP!Produce, BusP!Start, BusP!StartPosition, BusP!Deliver, BusP!HandlerReturns, BusP!Commit,
     BusP!Raises, BusP!CommitRaises, BusP!BackoffElapses, BusP!RequestStop, BusP!Crash,
     BusP!Restart, BusP!NewProcess, BusP!Fail, BusP!Current, BusP!Ended

(* Every step of the loop keeps its invariant.                             *)
LEMMA StepBusInv ==
    ASSUME BusP!BusInv, [Bus!Next]_(Bus!busVars)
    PROVE  BusP!BusInv'
  BY BusAssumption, SameLoop, BusP!BusStep

(* A failed send is in flight for its own task only.                       *)
LEMMA SendFailsType ==
    ASSUME flying \in [Tasks -> Nat], NEW t \in Tasks, SendFails(t)
    PROVE  /\ flying' \in [Tasks -> Nat]
           /\ \A u \in Tasks \ {t} : flying'[u] = flying[u]
  BY DEF SendFails

(* A row that a drain holds is of a task and has an attempt left.          *)
LEMMA SnapshotFacts ==
    ASSUME GatewayType, NEW d \in Drains, NEW row \in batch[d]
    PROVE  /\ row \in Snapshot /\ row.task \in Tasks
           /\ row.attempts \in Nat /\ row.attempts < MaxAttempts
  BY DelegationAssumption DEF GatewayType, Snapshot

-----------------------------------------------------------------------------
(* What a broker's append does to the topic.                               *)
LEMMA AppendFacts ==
    ASSUME NEW t \in Tasks, topic \in Seq(Tasks), Appends(t), MaxLog \in Nat
    PROVE  /\ topic' \in Seq(Tasks) /\ Len(topic') <= MaxLog
           /\ OnTopic(t)'
           /\ \A u \in Tasks : OnTopic(u)' <=> (OnTopic(u) \/ u = t)
  <1>1. /\ topic' \in Seq(Tasks) /\ Len(topic') = Len(topic) + 1 /\ Len(topic) \in Nat
        /\ topic'[Len(topic) + 1] = t
        /\ \A i \in 1..Len(topic) : topic'[i] = topic[i]
    BY DEF Appends
  <1>2. Len(topic') <= MaxLog
    BY <1>1 DEF Appends
  <1>3. OnTopic(t)'
    BY <1>1 DEF OnTopic
  <1>4. \A u \in Tasks : OnTopic(u) => OnTopic(u)'
    BY <1>1 DEF OnTopic
  <1>5. ASSUME NEW u \in Tasks, OnTopic(u)', u # t
        PROVE  OnTopic(u)
    <2>1. PICK i \in 1..Len(topic') : topic'[i] = u
      BY <1>5 DEF OnTopic
    <2>2. i \in 1..Len(topic)
      BY <1>1, <1>5, <2>1
    <2> QED
      BY <1>1, <2>1, <2>2 DEF OnTopic
  <1> QED
    BY <1>1, <1>2, <1>3, <1>4, <1>5

(* While an event is handled, it is one of the topic's.                    *)
LEMMA HandledEvent ==
    ASSUME TypeInv, consumer = "handling"
    PROVE  position \in 1..Len(topic) /\ topic[position] \in Tasks
  <1>1. BusP!TypeOK /\ BusP!InStep
    BY DEF TypeInv, BusP!BusInv
  <1>2. /\ position \in Nat /\ position > 0 /\ position <= Len(topic)
    BY <1>1, DelegationAssumption DEF BusP!TypeOK, BusP!InStep, BusP!Fetching, BusP!Offset
  <1>3. topic \in Seq(Tasks)
    BY DEF TypeInv, GatewayType
  <1> QED
    BY <1>2, <1>3

(* A row whose status is changed keeps its shape.                          *)
LEMMA RowStatus ==
    ASSUME rows \in [Tasks -> Row], NEW t \in Tasks, NEW s \in TaskStatus,
           rows' = [rows EXCEPT ![t].status = s]
    PROVE  /\ rows' \in [Tasks -> Row]
           /\ rows'[t].status = s /\ rows'[t].result = rows[t].result
           /\ \A u \in Tasks \ {t} : rows'[u] = rows[u]
  <1>1. [rows[t] EXCEPT !.status = s] \in Row
    BY DEF Row
  <1>2. /\ [rows[t] EXCEPT !.status = s].status = s
        /\ [rows[t] EXCEPT !.status = s].result = rows[t].result
    BY DEF Row
  <1>3. rows' = [u \in Tasks |-> IF u = t THEN [rows[t] EXCEPT !.status = s] ELSE rows[u]]
    OBVIOUS
  <1> QED
    BY <1>1, <1>2, <1>3

(* The invariant of the types holds initially.                             *)
LEMMA InitType == Init => TypeInv
  <1> SUFFICES ASSUME Init PROVE TypeInv
    OBVIOUS
  <1>1. GatewayType
    BY DelegationAssumption DEF Init, GatewayType, RequestPc, Row, NoRow, OutboxStatus, Buffered
  <1>2. TriesLeft
    BY DelegationAssumption DEF Init, TriesLeft
  <1> QED
    BY <1>1, <1>2, InitBusInv DEF TypeInv

(* Every step keeps it.                                                    *)
LEMMA StepType == TypeInv /\ [Next]_vars => TypeInv'
  <1> SUFFICES ASSUME TypeInv, [Next]_vars PROVE TypeInv'
    OBVIOUS
  <1> USE DelegationAssumption
  <1>g. GatewayType /\ TriesLeft
    BY DEF TypeInv
  <1>b. BusP!BusInv'
    BY <1>g, StepBus, StepBusInv DEF TypeInv
  <1>q. GatewayType' /\ TriesLeft' => TypeInv'
    BY <1>b DEF TypeInv
  <1>1. ASSUME NEW t \in Tasks, CreateTask(t) \/ AnswerRequest(t) \/ RequestFails(t)
        PROVE  TypeInv'
    <2>1. rows' \in [Tasks -> Row]
      <3>1. rows' = rows \/ rows' = [rows EXCEPT ![t].status = "queued"]
        BY <1>1 DEF CreateTask, AnswerRequest, RequestFails
      <3>2. "queued" \in TaskStatus /\ rows \in [Tasks -> Row]
        BY <1>g DEF TaskStatus, GatewayType
      <3> QED
        BY <3>1, <3>2, RowStatus
    <2>2. req' \in [Tasks -> RequestPc]
      BY <1>1, <1>g DEF CreateTask, AnswerRequest, RequestFails, GatewayType, RequestPc
    <2>3. faults' \in 0..MaxFaults
      <3>1. faults \in 0..MaxFaults
        BY <1>g DEF GatewayType
      <3>2. faults' = faults \/ (faults < MaxFaults /\ faults' = faults + 1)
        BY <1>1 DEF CreateTask, AnswerRequest, RequestFails, Fault
      <3> QED
        BY <3>1, <3>2
    <2>4. UNCHANGED <<outbox, flying, drainVars, topic, cb>>
      BY <1>1 DEF CreateTask, AnswerRequest, RequestFails
    <2> QED
      BY <2>1, <2>2, <2>3, <2>4, <1>g, <1>q DEF GatewayType, TriesLeft, drainVars
  <1>2. ASSUME NEW t \in Tasks, Publish(t) \/ Arrives(t) PROVE TypeInv'
    <2>1. Appends(t)
      BY <1>2 DEF Publish, Arrives
    <2>2. topic' \in Seq(Tasks) /\ Len(topic') <= MaxLog
      BY <2>1, <1>g, AppendFacts DEF GatewayType
    <2>3. flying' \in [Tasks -> Nat]
      <3>1. flying \in [Tasks -> Nat]
        BY <1>g DEF GatewayType
      <3>2. CASE Publish(t)
        BY <3>1, <3>2 DEF Publish
      <3>3. CASE Arrives(t)
        BY <3>1, <3>3 DEF Arrives
      <3> QED
        BY <1>2, <3>2, <3>3
    <2>4. req' \in [Tasks -> RequestPc]
      BY <1>2, <1>g DEF Publish, Arrives, GatewayType, RequestPc
    <2>5. UNCHANGED <<rows, outbox, drainVars, cb, faults>>
      BY <1>2 DEF Publish, Arrives
    <2> QED
      BY <2>2, <2>3, <2>4, <2>5, <1>g, <1>q DEF GatewayType, TriesLeft, drainVars
  <1>3. ASSUME NEW t \in Tasks, PublishFails(t) PROVE TypeInv'
    <2>1. flying' \in [Tasks -> Nat]
      BY <1>3, <1>g, SendFailsType DEF PublishFails, GatewayType
    <2> QED
      BY <1>3, <2>1, <1>g, <1>q DEF PublishFails, Fault, GatewayType, TriesLeft, RequestPc,
         drainVars
  <1>4. ASSUME NEW t \in Tasks, EnqueueLocal(t) PROVE TypeInv'
    <2>1. /\ outbox' \in [Tasks -> [status : OutboxStatus, attempts : 0..MaxAttempts]]
          /\ \A u \in Tasks : /\ outbox'[u].attempts = outbox[u].attempts
                              /\ \/ outbox'[u].status = outbox[u].status
                                 \/ outbox[u].status = "none"
      BY <1>4, <1>g DEF EnqueueLocal, GatewayType, OutboxStatus, Buffered
    <2> QED
      BY <1>4, <2>1, <1>g, <1>q DEF EnqueueLocal, GatewayType, TriesLeft, RequestPc, drainVars
  <1>5. ASSUME NEW d \in Drains, NEW row \in batch[d], DrainFails(d, row) PROVE TypeInv'
    <2>1. /\ row \in Snapshot /\ row.task \in Tasks
          /\ row.attempts \in Nat /\ row.attempts < MaxAttempts
      BY <1>g, SnapshotFacts
    <2>2. /\ outbox' \in [Tasks -> [status : OutboxStatus, attempts : 0..MaxAttempts]]
          /\ \A u \in Tasks : u # row.task => outbox'[u] = outbox[u]
          /\ outbox'[row.task].status \notin {"published", "dead"} =>
                 outbox'[row.task].attempts < MaxAttempts
      BY <1>5, <2>1, <1>g DEF DrainFails, GatewayType, OutboxStatus, Buffered
    <2>3. flying' \in [Tasks -> Nat]
      BY <1>5, <2>1, <1>g, SendFailsType DEF DrainFails, GatewayType
    <2>4. faults' \in 0..MaxFaults
      BY <1>5, <1>g DEF DrainFails, Fault, GatewayType
    <2>5. UNCHANGED <<req, rows, sent, topic, cb>>
      BY <1>5 DEF DrainFails
    <2>6. batch' \in [Drains -> SUBSET Snapshot]
      BY <1>5, <1>g DEF DrainFails, DrainTakes, GatewayType
    <2>7. tried' \in [Tasks -> Nat]
      BY <1>5, <2>1, <1>g DEF DrainFails, GatewayType
    <2>8. GatewayType'
      BY <2>2, <2>3, <2>4, <2>5, <2>6, <2>7, <1>g DEF GatewayType
    <2>9. TriesLeft'
      BY <2>1, <2>2, <1>g DEF TriesLeft
    <2> QED
      BY <2>8, <2>9, <1>q
  <1>6. ASSUME NEW d \in Drains, NEW row \in batch[d], DrainSends(d, row) PROVE TypeInv'
    <2>1. row.task \in Tasks
      BY <1>g, SnapshotFacts
    <2>2. topic' \in Seq(Tasks) /\ Len(topic') <= MaxLog
      BY <1>6, <2>1, <1>g, AppendFacts DEF DrainSends, GatewayType
    <2>3. batch' \in [Drains -> SUBSET Snapshot]
      BY <1>6, <1>g DEF DrainSends, DrainTakes, GatewayType
    <2>4. sent' \in [Drains -> Tasks \cup {Idle}]
      BY <1>6, <2>1, <1>g DEF DrainSends, GatewayType
    <2>5. UNCHANGED <<req, rows, outbox, flying, tried, cb, faults>>
      BY <1>6 DEF DrainSends
    <2> QED
      BY <2>2, <2>3, <2>4, <2>5, <1>g, <1>q DEF GatewayType, TriesLeft
  <1>7. ASSUME NEW d \in Drains, DrainMarks(d) PROVE TypeInv'
    <2>1. PICK t \in Tasks : sent[d] = t
      BY <1>7, <1>g DEF DrainMarks, GatewayType
    <2>2. /\ outbox' \in [Tasks -> [status : OutboxStatus, attempts : 0..MaxAttempts]]
          /\ \A u \in Tasks : u # t => outbox'[u] = outbox[u]
          /\ outbox'[t].status = "published"
      BY <1>7, <2>1, <1>g DEF DrainMarks, GatewayType, OutboxStatus
    <2>3. sent' \in [Drains -> Tasks \cup {Idle}]
      BY <1>7, <1>g DEF DrainMarks, GatewayType
    <2>4. UNCHANGED <<req, rows, flying, batch, tried, topic, cb, faults>>
      BY <1>7 DEF DrainMarks
    <2> QED
      BY <2>1, <2>2, <2>3, <2>4, <1>g, <1>q DEF GatewayType, TriesLeft
  <1>13. ASSUME NEW d \in Drains, DrainLoad(d) PROVE TypeInv'
    <2>1. PICK ts \in SUBSET {t \in Tasks : outbox[t].status \in {"pending", "failed"}} :
             batch' = [batch EXCEPT ![d] =
                          {[task |-> t, attempts |-> outbox[t].attempts] : t \in ts}]
      BY <1>13 DEF DrainLoad
    <2>2. ASSUME NEW t \in ts
          PROVE  [task |-> t, attempts |-> outbox[t].attempts] \in Snapshot
      <3>1. t \in Tasks /\ outbox[t].status \in {"pending", "failed"}
        OBVIOUS
      <3>2. outbox[t].attempts \in 0..MaxAttempts /\ outbox[t].attempts < MaxAttempts
        BY <3>1, <1>g DEF GatewayType, TriesLeft
      <3>3. outbox[t].attempts \in 0..(MaxAttempts - 1)
        BY <3>2
      <3> QED
        BY <3>1, <3>3 DEF Snapshot
    <2>3. batch' \in [Drains -> SUBSET Snapshot]
      BY <2>1, <2>2, <1>g DEF GatewayType
    <2>4. UNCHANGED <<req, rows, outbox, flying, sent, tried, topic, cb, faults>>
      BY <1>13 DEF DrainLoad
    <2> QED
      BY <2>3, <2>4, <1>g, <1>q DEF GatewayType, TriesLeft
  <1>14. ASSUME NEW d \in Drains, DrainCrashes(d) PROVE TypeInv'
    <2>1. batch' \in [Drains -> SUBSET Snapshot] /\ sent' \in [Drains -> Tasks \cup {Idle}]
      BY <1>14, <1>g DEF DrainCrashes, GatewayType
    <2>2. UNCHANGED <<req, rows, outbox, flying, tried, topic, cb>>
      BY <1>14 DEF DrainCrashes
    <2>3. faults' \in 0..MaxFaults
      BY <1>14, <1>g DEF DrainCrashes, Fault, GatewayType
    <2> QED
      BY <2>1, <2>2, <2>3, <1>g, <1>q DEF GatewayType, TriesLeft
  <1>8. CASE HandleEvent
    <2>1. topic[position] \in Tasks
      BY <1>8, HandledEvent DEF HandleEvent
    <2>2. rows' \in [Tasks -> Row]
      <3>1. rows' = rows \/ rows' = [rows EXCEPT ![topic[position]].status = "received"]
        BY <1>8 DEF HandleEvent
      <3>2. "received" \in TaskStatus /\ rows \in [Tasks -> Row]
        BY <1>g DEF TaskStatus, GatewayType
      <3> QED
        BY <2>1, <3>1, <3>2, RowStatus
    <2> QED
      BY <1>8, <2>2, <1>g, <1>q DEF HandleEvent, GatewayType, TriesLeft, drainVars
  <1>9. CASE WorkerSteps \/ WorkerFails
    BY <1>9, <1>g, <1>q DEF WorkerSteps, WorkerFails, Fault, GatewayType, TriesLeft, drainVars
  <1>10. ASSUME NEW c \in Callbacks, NEW t \in Tasks, NEW s \in {"running", "completed"},
                NEW r \in BOOLEAN, CallbackReads(c, t, s, r)
         PROVE  TypeInv'
    <2>1. [task |-> t, seen |-> rows[t], status |-> s, result |-> r] \in Post
      BY <1>g DEF GatewayType, Post, TaskStatus
    <2>2. cb' \in [Callbacks -> Post \cup {NotYet, Reported}]
      BY <1>10, <2>1, <1>g DEF CallbackReads, GatewayType
    <2> QED
      BY <1>10, <2>2, <1>g, <1>q DEF CallbackReads, GatewayType, TriesLeft, drainVars
  <1>11. ASSUME NEW c \in Callbacks, CallbackSaves(c) PROVE TypeInv'
    <2>1. /\ cb[c].task \in Tasks /\ cb[c].status \in TaskStatus
          /\ (cb[c].result \/ cb[c].seen.result) \in BOOLEAN
      BY <1>11 DEF CallbackSaves, Post
    <2>2. rows' \in [Tasks -> Row]
      BY <1>11, <2>1, <1>g DEF CallbackSaves, GatewayType, Row
    <2>3. cb' \in [Callbacks -> Post \cup {NotYet, Reported}]
      BY <1>11, <1>g DEF CallbackSaves, GatewayType
    <2> QED
      BY <1>11, <2>2, <2>3, <1>g, <1>q DEF CallbackSaves, GatewayType, TriesLeft, drainVars
  <1>12. CASE UNCHANGED vars
    BY <1>12, <1>g, <1>q DEF vars, GatewayType, TriesLeft, drainVars
  <1> QED
    BY <1>1, <1>2, <1>3, <1>4, <1>5, <1>6, <1>7, <1>8, <1>9, <1>10, <1>11, <1>12, <1>13,
       <1>14 DEF Next

(* Gateway, publisher, drains and worker keep their types, and no drain    *)
(* ever holds a row that has no attempt left, however stale it is.         *)
THEOREM DelegationTypeOK == Spec => []TypeOK
  <1>1. TypeInv => TypeOK
    BY DEF TypeInv, TypeOK, GatewayType, BusP!BusInv, BusP!TypeOK, Bus!TypeOK,
       BusP!Offset, Bus!Offset, BusP!ConsumerPc, Bus!ConsumerPc
  <1> QED
    BY <1>1, InitType, StepType, PTL DEF Spec

-----------------------------------------------------------------------------
(* The event of a task is on the topic or in the buffer.                   *)
Safe(t) == OnTopic(t) \/ outbox[t].status \in Buffered

Settled ==
    /\ \A t \in Tasks : req[t] \in {"answer", "ok"} => Safe(t)
    /\ \A t \in Tasks : outbox[t].status = "published" => OnTopic(t)
    /\ \A d \in Drains : sent[d] # Idle => OnTopic(sent[d])
Stranded ==
    /\ OnlyErrorsStrand
    /\ \A c \in Callbacks : cb[c] \in Post => rows[cb[c].task].status # "none"

(* Both hold initially.                                                    *)
LEMMA InitSettled == Init => Settled /\ Stranded
  <1> SUFFICES ASSUME Init PROVE Settled /\ Stranded
    OBVIOUS
  <1>1. Settled
    BY DEF Init, Settled
  <1>2. \A c \in Callbacks : cb[c] \notin Post
    BY DEF Init, Post, NotYet
  <1> QED
    BY <1>1, <1>2 DEF Init, Stranded, OnlyErrorsStrand, NoRow

(* Every step maps to a step of AtLeastOnce or to none, and keeps Settled. *)
LEMMA StepSend ==
    ASSUME TypeInv, Settled, [Next]_vars
    PROVE  Settled' /\ [Send!Next]_(Send!vars)
  <1> USE DelegationAssumption
  <1>g. /\ req \in [Tasks -> RequestPc] /\ topic \in Seq(Tasks)
        /\ outbox \in [Tasks -> [status : OutboxStatus, attempts : 0..MaxAttempts]]
        /\ sent \in [Drains -> Tasks \cup {Idle}]
    BY DEF TypeInv, GatewayType
  (* Steps that change none of the three sets.                             *)
  <1>s. ASSUME UNCHANGED topic,
               \A t \in Tasks : req'[t] = "ok" <=> req[t] = "ok",
               \A t \in Tasks : outbox'[t].status \in Buffered <=> outbox[t].status \in Buffered
        PROVE  UNCHANGED Send!vars
    BY <1>s DEF Send!vars, OnTopic
  <1>u. CASE UNCHANGED <<req, outbox, sent, topic>>
    BY <1>u, <1>s DEF Settled, Safe, OnTopic
  <1>1. ASSUME NEW t \in Tasks, CreateTask(t) \/ RequestFails(t) \/ PublishFails(t)
        PROVE  Settled' /\ [Send!Next]_(Send!vars)
    <2>1. /\ req[t] # "ok" /\ req'[t] \in {"publish", "enqueue", "error"}
          /\ \A u \in Tasks \ {t} : req'[u] = req[u]
          /\ UNCHANGED <<outbox, topic, sent>>
      BY <1>1, <1>g DEF CreateTask, RequestFails, PublishFails, drainVars
    <2> QED
      BY <2>1, <1>s DEF Settled, Safe, OnTopic
  (* Steps that append an event, which a drain may then have sent.         *)
  <1>a. ASSUME NEW t \in Tasks, Appends(t), UNCHANGED outbox,
               \A u \in Tasks : req'[u] = "ok" <=> req[u] = "ok",
               \A u \in Tasks : u # t => req'[u] = req[u],
               \A d \in Drains : sent'[d] \in {sent[d], t}
        PROVE  Settled' /\ [Send!Next]_(Send!vars)
    <2>1. OnTopic(t)' /\ \A u \in Tasks : OnTopic(u)' <=> (OnTopic(u) \/ u = t)
      BY <1>a, <1>g, AppendFacts
    <2>2. Send!Deliver(t)
      BY <1>a, <2>1 DEF Send!Deliver
    <2>3. \A u \in Tasks : Safe(u) \/ u = t => Safe(u)'
      BY <1>a, <2>1 DEF Safe
    <2>4. ASSUME NEW d \in Drains, sent'[d] # Idle
          PROVE  OnTopic(sent[d])'
      <3>1. CASE sent'[d] = t
        BY <2>1, <3>1 DEF OnTopic
      <3>2. CASE sent'[d] # t
        <4>1. PICK u \in Tasks : sent[d] = u /\ sent'[d] = u
          BY <1>a, <1>g, <2>4, <3>2
        <4>2. OnTopic(u)
          BY <2>4, <4>1 DEF Settled
        <4>3. OnTopic(u)'
          BY <2>1, <4>2
        <4> QED
          BY <4>1, <4>3 DEF OnTopic
      <3> QED
        BY <3>1, <3>2
    <2>5. Settled'
      BY <1>a, <2>1, <2>3, <2>4 DEF Settled
    <2> QED
      BY <2>2, <2>5 DEF Send!Next
  <1>2. ASSUME NEW t \in Tasks, Publish(t) \/ Arrives(t)
        PROVE  Settled' /\ [Send!Next]_(Send!vars)
    <2>1. Appends(t) /\ UNCHANGED <<outbox, sent>>
      BY <1>2 DEF Publish, Arrives, drainVars
    <2>2. \A u \in Tasks : /\ req'[u] = "ok" <=> req[u] = "ok"
                           /\ u # t => req'[u] = req[u]
      BY <1>2, <1>g DEF Publish, Arrives
    <2> QED
      BY <2>1, <2>2, <1>a
  <1>9. ASSUME NEW d \in Drains, NEW row \in batch[d], DrainSends(d, row)
        PROVE  Settled' /\ [Send!Next]_(Send!vars)
    <2>1. PICK t \in Tasks : row.task = t
      BY SnapshotFacts DEF TypeInv
    <2>2. /\ Appends(t) /\ UNCHANGED <<outbox, req>>
          /\ \A e \in Drains : sent'[e] \in {sent[e], t}
      BY <1>9, <1>g, <2>1 DEF DrainSends
    <2> QED
      BY <2>2, <1>a
  <1>3. ASSUME NEW t \in Tasks, EnqueueLocal(t)
        PROVE  Settled' /\ [Send!Next]_(Send!vars)
    <2>1. /\ req[t] = "enqueue" /\ req'[t] = "answer"
          /\ \A u \in Tasks \ {t} : req'[u] = req[u] /\ outbox'[u] = outbox[u]
          /\ outbox'[t].status = IF outbox[t].status = "none" THEN "pending"
                                                             ELSE outbox[t].status
          /\ UNCHANGED <<topic, sent>>
      BY <1>3, <1>g DEF EnqueueLocal, drainVars
    <2>2. outbox[t].status \in {"none", "published"} \cup Buffered
      BY <1>g DEF OutboxStatus
    <2>3. Safe(t)'
      BY <2>1, <2>2 DEF Safe, Settled, OnTopic, Buffered
    <2>4. Settled'
      BY <2>1, <2>3 DEF Settled, Safe, OnTopic, Buffered
    <2>5. CASE outbox[t].status = "none"
      <3>1. Send!Keep(t)
        BY <2>1, <2>5 DEF Send!Keep, Buffered, OnTopic
      <3> QED
        BY <2>4, <3>1 DEF Send!Next
    <2>6. CASE outbox[t].status # "none"
      <3>1. \A u \in Tasks : /\ req'[u] = "ok" <=> req[u] = "ok"
                             /\ outbox'[u].status \in Buffered <=> outbox[u].status \in Buffered
        BY <2>1, <2>6
      <3> QED
        BY <2>1, <2>4, <3>1, <1>s
    <2> QED
      BY <2>5, <2>6
  <1>4. ASSUME NEW t \in Tasks, AnswerRequest(t)
        PROVE  Settled' /\ [Send!Next]_(Send!vars)
    <2>1. /\ req[t] = "answer" /\ req'[t] = "ok"
          /\ \A u \in Tasks \ {t} : req'[u] = req[u]
          /\ UNCHANGED <<outbox, topic, sent>>
      BY <1>4, <1>g DEF AnswerRequest, drainVars
    <2>2. Safe(t)
      BY <2>1 DEF Settled
    <2>3. Send!Accept(t)
      BY <2>1, <2>2 DEF Send!Accept, Safe, OnTopic
    <2>4. Settled'
      BY <2>1, <2>2 DEF Settled, Safe, OnTopic
    <2> QED
      BY <2>3, <2>4 DEF Send!Next
  (* A drain that fails keeps the row, or keeps it again.                  *)
  <1>5. ASSUME NEW d \in Drains, NEW row \in batch[d], DrainFails(d, row)
        PROVE  Settled' /\ [Send!Next]_(Send!vars)
    <2>1. PICK t \in Tasks : row.task = t
      BY SnapshotFacts DEF TypeInv
    <2>2. /\ outbox'[t].status \in {"failed", "dead"}
          /\ \A u \in Tasks \ {t} : outbox'[u] = outbox[u]
          /\ UNCHANGED <<req, topic, sent>>
      BY <1>5, <1>g, <2>1 DEF DrainFails
    <2>3. Settled'
      BY <2>2 DEF Settled, Safe, OnTopic, Buffered
    <2>4. Send!Keep(t)
      BY <2>2 DEF Send!Keep, OnTopic, Buffered
    <2> QED
      BY <2>3, <2>4 DEF Send!Next
  <1>6. ASSUME NEW d \in Drains, DrainMarks(d)
        PROVE  Settled' /\ [Send!Next]_(Send!vars)
    <2>1. PICK t \in Tasks : sent[d] = t /\ OnTopic(t)
      BY <1>6, <1>g DEF DrainMarks, Settled
    <2>2. /\ outbox'[t].status = "published"
          /\ \A u \in Tasks \ {t} : outbox'[u] = outbox[u]
          /\ UNCHANGED <<req, topic>>
          /\ \A e \in Drains : sent'[e] \in {sent[e], Idle}
      BY <1>6, <2>1, <1>g DEF DrainMarks
    <2>3. Send!Release(t)
      BY <2>1, <2>2 DEF Send!Release, OnTopic, Buffered
    <2>4. Settled'
      BY <2>1, <2>2 DEF Settled, Safe, OnTopic
    <2> QED
      BY <2>3, <2>4 DEF Send!Next
  <1>7. ASSUME NEW d \in Drains, DrainLoad(d) \/ DrainCrashes(d)
        PROVE  Settled' /\ [Send!Next]_(Send!vars)
    <2>1. /\ UNCHANGED <<req, outbox, topic>>
          /\ \A e \in Drains : sent'[e] \in {sent[e], Idle}
      BY <1>7, <1>g DEF DrainLoad, DrainCrashes
    <2>2. Settled'
      BY <2>1 DEF Settled, Safe, OnTopic
    <2>3. UNCHANGED Send!vars
      BY <2>1, <1>s
    <2> QED
      BY <2>2, <2>3
  <1>8. ASSUME \/ HandleEvent \/ WorkerSteps \/ WorkerFails
               \/ \E c \in Callbacks, t \in Tasks, s \in {"running", "completed"},
                     r \in BOOLEAN : CallbackReads(c, t, s, r)
               \/ \E c \in Callbacks : CallbackSaves(c)
               \/ UNCHANGED vars
        PROVE  UNCHANGED <<req, outbox, sent, topic>>
    BY <1>8 DEF HandleEvent, WorkerSteps, WorkerFails, CallbackReads, CallbackSaves, vars,
       drainVars
  <1> QED
    BY <1>u, <1>1, <1>2, <1>3, <1>4, <1>5, <1>6, <1>7, <1>8, <1>9 DEF Next

(* "A broker blip cannot lose a write": timeouts, lost acknowledgements,   *)
(* failing and overlapping drains and crashes included, DurablePublisher   *)
(* with its outbox and publish_outbox implements AtLeastOnce.              *)
THEOREM DelegationPublisherKeepsPromise == Spec => PublisherKeepsPromise
  <1>1. Init => Send!Init
    BY DEF Init, Send!Init, OnTopic, Buffered
  <1> QED
    BY <1>1, InitType, StepType, InitSettled, StepSend, PTL
       DEF Spec, PublisherKeepsPromise, Send!Spec
-----------------------------------------------------------------------------
(* A task is stranded only by an error: Stranded is kept by every step.    *)
LEMMA StepStranded ==
    ASSUME TypeInv, Settled, Stranded, [Next]_vars
    PROVE  Stranded'
  <1> USE DelegationAssumption
  <1>g. /\ req \in [Tasks -> RequestPc] /\ topic \in Seq(Tasks)
        /\ outbox \in [Tasks -> [status : OutboxStatus, attempts : 0..MaxAttempts]]
        /\ rows \in [Tasks -> Row]
        /\ cb \in [Callbacks -> Post \cup {NotYet, Reported}]
        /\ sent \in [Drains -> Tasks \cup {Idle}]
    BY DEF TypeInv, GatewayType
  <1> DEFINE Covered(t) == \/ req[t] \in {"publish", "enqueue", "error"}
                           \/ OnTopic(t)
                           \/ outbox[t].status \in Buffered
  (* Steps after which rows and callbacks are as before.                   *)
  <1>s. ASSUME UNCHANGED <<rows, cb>>, \A t \in Tasks : Covered(t) => Covered(t)'
        PROVE  Stranded'
    BY <1>s DEF Stranded, OnlyErrorsStrand
  <1>1. ASSUME NEW t \in Tasks, CreateTask(t) PROVE Stranded'
    <2>1. rows' = [rows EXCEPT ![t].status = "queued"] /\ "queued" \in TaskStatus
      BY <1>1 DEF CreateTask, TaskStatus
    <2>2. rows'[t].status = "queued" /\ \A u \in Tasks \ {t} : rows'[u] = rows[u]
      BY <2>1, <1>g, RowStatus
    <2>3. /\ req'[t] = "publish" /\ \A u \in Tasks \ {t} : req'[u] = req[u]
          /\ UNCHANGED <<outbox, topic, cb>>
      BY <1>1, <1>g DEF CreateTask
    <2>4. OnlyErrorsStrand'
      BY <2>2, <2>3 DEF Stranded, OnlyErrorsStrand, OnTopic
    <2>5. \A c \in Callbacks : cb[c] \in Post => rows'[cb[c].task].status # "none"
      BY <2>2 DEF Stranded, Post
    <2> QED
      BY <2>3, <2>4, <2>5 DEF Stranded
  <1>a. ASSUME NEW t \in Tasks, Appends(t), UNCHANGED <<rows, cb, outbox>>,
               \A u \in Tasks \ {t} : req'[u] = req[u]
        PROVE  Stranded'
    <2>1. OnTopic(t)' /\ \A u \in Tasks : OnTopic(u)' <=> (OnTopic(u) \/ u = t)
      BY <1>a, <1>g, AppendFacts
    <2> QED
      BY <2>1, <1>a, <1>s
  <1>2. ASSUME NEW t \in Tasks, Publish(t) \/ Arrives(t) PROVE Stranded'
    BY <1>2, <1>g, <1>a DEF Publish, Arrives
  <1>3. ASSUME NEW t \in Tasks, RequestFails(t) \/ PublishFails(t) PROVE Stranded'
    <2>1. /\ req'[t] \in {"enqueue", "error"} /\ \A u \in Tasks \ {t} : req'[u] = req[u]
          /\ UNCHANGED <<rows, cb, outbox, topic>>
      BY <1>3, <1>g DEF RequestFails, PublishFails
    <2> QED
      BY <2>1, <1>s DEF OnTopic
  <1>4. ASSUME NEW t \in Tasks, EnqueueLocal(t) PROVE Stranded'
    <2>1. /\ \A u \in Tasks \ {t} : req'[u] = req[u] /\ outbox'[u] = outbox[u]
          /\ outbox'[t].status = IF outbox[t].status = "none" THEN "pending"
                                                             ELSE outbox[t].status
          /\ UNCHANGED <<rows, cb, topic>>
      BY <1>4, <1>g DEF EnqueueLocal
    <2>2. outbox[t].status \in {"none", "published"} \cup Buffered
      BY <1>g DEF OutboxStatus
    <2>3. outbox[t].status = "published" => OnTopic(t)
      BY DEF Settled
    <2> QED
      BY <2>1, <2>2, <2>3, <1>s DEF OnTopic, Buffered
  <1>5. ASSUME NEW t \in Tasks, AnswerRequest(t) PROVE Stranded'
    <2>1. /\ req[t] = "answer" /\ \A u \in Tasks \ {t} : req'[u] = req[u]
          /\ UNCHANGED <<rows, cb, outbox, topic>>
      BY <1>5, <1>g DEF AnswerRequest
    <2> QED
      BY <2>1, <1>s DEF OnTopic
  <1>6. ASSUME NEW d \in Drains, NEW row \in batch[d],
               DrainSends(d, row) \/ DrainFails(d, row)
        PROVE  Stranded'
    <2>1. PICK t \in Tasks : row.task = t
      BY SnapshotFacts DEF TypeInv
    <2>2. CASE DrainSends(d, row)
      BY <2>1, <2>2, <1>a DEF DrainSends
    <2>3. CASE DrainFails(d, row)
      <3>1. /\ outbox'[t].status \in {"failed", "dead"}
            /\ \A u \in Tasks \ {t} : outbox'[u] = outbox[u]
            /\ UNCHANGED <<rows, cb, req, topic>>
        BY <2>1, <2>3, <1>g DEF DrainFails
      <3> QED
        BY <3>1, <1>s DEF OnTopic, Buffered
    <2> QED
      BY <1>6, <2>2, <2>3
  <1>7. ASSUME NEW d \in Drains, DrainMarks(d) PROVE Stranded'
    <2>1. PICK t \in Tasks : sent[d] = t /\ OnTopic(t)
      BY <1>7, <1>g DEF DrainMarks, Settled
    <2>2. /\ \A u \in Tasks \ {t} : outbox'[u] = outbox[u]
          /\ UNCHANGED <<rows, cb, req, topic>>
      BY <1>7, <2>1, <1>g DEF DrainMarks
    <2> QED
      BY <2>1, <2>2, <1>s DEF OnTopic
  <1>8. CASE HandleEvent
    <2>1. PICK i \in 1..Len(topic) : position = i
      BY <1>8, HandledEvent DEF HandleEvent
    <2>2. PICK t \in Tasks : t = topic[i]
      BY <2>1, <1>g
    <2>3. OnTopic(t)
      BY <2>1, <2>2 DEF OnTopic
    <2>4. UNCHANGED <<req, outbox, topic, cb>>
      BY <1>8 DEF HandleEvent
    <2>5. rows' = rows \/ rows' = [rows EXCEPT ![t].status = "received"]
      BY <1>8, <2>1, <2>2 DEF HandleEvent
    <2>6. "received" \in TaskStatus
      BY DEF TaskStatus
    <2>7. \A u \in Tasks : /\ u # t => rows'[u] = rows[u]
                           /\ rows[u].status # "none" => rows'[u].status # "none"
      <3>1. CASE rows' = rows
        BY <3>1
      <3>2. CASE rows' = [rows EXCEPT ![t].status = "received"]
        BY <3>2, <2>6, <1>g, RowStatus
      <3> QED
        BY <2>5, <3>1, <3>2
    <2>8. OnlyErrorsStrand'
      BY <2>3, <2>4, <2>7 DEF Stranded, OnlyErrorsStrand, OnTopic
    <2>9. \A c \in Callbacks : cb[c] \in Post => rows'[cb[c].task].status # "none"
      BY <2>7 DEF Stranded, Post
    <2> QED
      BY <2>4, <2>8, <2>9 DEF Stranded
  <1>9. ASSUME NEW c \in Callbacks, NEW t \in Tasks, NEW s \in {"running", "completed"},
               NEW r \in BOOLEAN, CallbackReads(c, t, s, r)
        PROVE  Stranded'
    <2>1. /\ rows[t].status # "none" /\ UNCHANGED <<rows, req, outbox, topic>>
          /\ cb'[c].task = t /\ \A d \in Callbacks \ {c} : cb'[d] = cb[d]
      BY <1>9, <1>g DEF CallbackReads
    <2> QED
      BY <2>1 DEF Stranded, OnlyErrorsStrand, OnTopic
  <1>10. ASSUME NEW c \in Callbacks, CallbackSaves(c) PROVE Stranded'
    <2>1. PICK t \in Tasks : t = cb[c].task
      BY <1>10 DEF CallbackSaves, Post
    <2>2. rows[t].status # "none" /\ cb[c].status \in TaskStatus
      BY <1>10, <2>1 DEF CallbackSaves, Stranded, Post
    <2>3. /\ rows'[t].status = cb[c].status /\ \A u \in Tasks \ {t} : rows'[u] = rows[u]
          /\ cb'[c] = Reported /\ \A d \in Callbacks \ {c} : cb'[d] = cb[d]
          /\ UNCHANGED <<req, outbox, topic>>
      BY <1>10, <2>1, <1>g DEF CallbackSaves
    <2>4. \A u \in Tasks : rows[u].status # "none" <=> rows'[u].status # "none"
      BY <2>2, <2>3 DEF TaskStatus
    <2>5. OnlyErrorsStrand'
      BY <2>3, <2>4 DEF Stranded, OnlyErrorsStrand, OnTopic
    <2>6. Reported \notin Post
      BY DEF Reported, Post
    <2>7. \A d \in Callbacks : cb'[d] \in Post => rows'[cb'[d].task].status # "none"
      BY <2>3, <2>4, <2>6 DEF Stranded, Post
    <2> QED
      BY <2>5, <2>7 DEF Stranded
  <1>11. ASSUME \/ WorkerSteps \/ WorkerFails
                \/ \E d \in Drains : DrainLoad(d) \/ DrainCrashes(d)
         PROVE  Stranded'
    BY <1>11, <1>s DEF DrainLoad, DrainCrashes, WorkerSteps, WorkerFails, OnTopic
  <1>12. CASE UNCHANGED vars
    BY <1>12, <1>s DEF vars, OnTopic
  <1> QED
    BY <1>1, <1>2, <1>3, <1>4, <1>5, <1>6, <1>7, <1>8, <1>9, <1>10, <1>11, <1>12 DEF Next

(* A task whose event is nowhere is one whose creator was told of an error *)
(* or is still in create_delegation_task.                                  *)
THEOREM DelegationOnlyErrorsStrand == Spec => []OnlyErrorsStrand
  <1>1. Stranded => OnlyErrorsStrand
    BY DEF Stranded
  <1> QED
    BY <1>1, InitType, StepType, InitSettled, StepSend, StepStranded, PTL DEF Spec
-----------------------------------------------------------------------------
(* No count of failed sends is above the sends that failed, and a dead row *)
(* has used its attempts up.                                               *)
Counts ==
    /\ \A t \in Tasks : outbox[t].attempts <= tried[t]
    /\ \A d \in Drains : \A row \in batch[d] : row.attempts <= tried[row.task]
    /\ \A t \in Tasks : outbox[t].status = "dead" => outbox[t].attempts >= MaxAttempts

(* Every step keeps Counts.                                                *)
LEMMA StepCounts ==
    ASSUME TypeInv, Counts, [Next]_vars
    PROVE  Counts'
  <1>g. /\ GatewayType
        /\ outbox \in [Tasks -> [status : OutboxStatus, attempts : 0..MaxAttempts]]
        /\ batch \in [Drains -> SUBSET Snapshot]
        /\ tried \in [Tasks -> Nat]
    BY DEF TypeInv, GatewayType
  <1>1. ASSUME NEW d \in Drains, NEW row \in batch[d], DrainFails(d, row) PROVE Counts'
    <2>1. PICK t \in Tasks : row.task = t
      BY <1>g, SnapshotFacts
    <2>2. row.attempts \in Nat /\ row.attempts <= tried[t] /\ tried[t] \in Nat
      BY <2>1, <1>g, SnapshotFacts DEF Counts
    <2>3. /\ outbox'[t].attempts = row.attempts + 1
          /\ outbox'[t].status = "dead" => row.attempts + 1 >= MaxAttempts
          /\ \A u \in Tasks \ {t} : outbox'[u] = outbox[u]
      BY <1>1, <2>1, <1>g DEF DrainFails
    <2>4. tried'[t] = tried[t] + 1 /\ \A u \in Tasks \ {t} : tried'[u] = tried[u]
      BY <1>1, <2>1, <1>g DEF DrainFails
    <2>5. \A e \in Drains : batch'[e] \subseteq batch[e]
      BY <1>1, <1>g DEF DrainFails, DrainTakes
    <2>6. ASSUME NEW u \in Tasks
          PROVE  /\ outbox'[u].attempts <= tried'[u]
                 /\ outbox'[u].status = "dead" => outbox'[u].attempts >= MaxAttempts
      <3>1. CASE u = t
        BY <2>2, <2>3, <2>4, <3>1
      <3>2. CASE u # t
        BY <2>3, <2>4, <3>2 DEF Counts
      <3> QED
        BY <3>1, <3>2
    <2>7. ASSUME NEW e \in Drains, NEW r \in batch'[e]
          PROVE  r.attempts <= tried'[r.task]
      <3>1. r \in batch[e]
        BY <2>5
      <3>2. r.attempts \in Nat /\ r.attempts <= tried[r.task] /\ tried[r.task] \in Nat
        BY <3>1, <1>g, SnapshotFacts DEF Counts
      <3>3. r.task \in Tasks
        BY <3>1, <1>g, SnapshotFacts
      <3>4. CASE r.task = t
        BY <2>4, <3>2, <3>4
      <3>5. CASE r.task # t
        BY <2>4, <3>2, <3>3, <3>5
      <3> QED
        BY <3>4, <3>5
    <2> QED
      BY <2>6, <2>7 DEF Counts
  <1>2. ASSUME NEW d \in Drains, DrainLoad(d) PROVE Counts'
    <2>1. PICK ts \in SUBSET {t \in Tasks : outbox[t].status \in {"pending", "failed"}} :
             batch' = [batch EXCEPT ![d] =
                          {[task |-> t, attempts |-> outbox[t].attempts] : t \in ts}]
      BY <1>2 DEF DrainLoad
    <2>2. UNCHANGED <<outbox, tried>>
      BY <1>2 DEF DrainLoad
    <2>3. ASSUME NEW e \in Drains, NEW r \in batch'[e]
          PROVE  r.attempts <= tried[r.task]
      <3>1. CASE e # d
        BY <2>1, <1>g, <3>1 DEF Counts
      <3>2. CASE e = d
        <4>1. PICK t \in ts : r = [task |-> t, attempts |-> outbox[t].attempts]
          BY <2>1, <1>g, <3>2
        <4>2. t \in Tasks /\ r.task = t /\ r.attempts = outbox[t].attempts
          BY <4>1
        <4> QED
          BY <4>2 DEF Counts
      <3> QED
        BY <3>1, <3>2
    <2> QED
      BY <2>2, <2>3 DEF Counts
  (* Steps that fail no send: no count grows.                              *)
  <1>s. ASSUME UNCHANGED tried, \A d \in Drains : batch'[d] \subseteq batch[d],
               \A t \in Tasks : /\ outbox'[t].attempts = outbox[t].attempts
                                /\ outbox'[t].status = "dead" => outbox[t].status = "dead"
        PROVE  Counts'
    BY <1>s DEF Counts
  <1>3. ASSUME NEW d \in Drains, NEW row \in batch[d], DrainSends(d, row) PROVE Counts'
    BY <1>3, <1>g, <1>s DEF DrainSends, DrainTakes
  <1>4. ASSUME NEW d \in Drains, DrainMarks(d) PROVE Counts'
    <2>1. PICK t \in Tasks : sent[d] = t
      BY <1>4, <1>g DEF DrainMarks, GatewayType
    <2>2. \A u \in Tasks : /\ outbox'[u].attempts = outbox[u].attempts
                           /\ outbox'[u].status = "dead" => outbox[u].status = "dead"
      BY <1>4, <2>1, <1>g DEF DrainMarks
    <2>3. UNCHANGED <<batch, tried>>
      BY <1>4 DEF DrainMarks
    <2> QED
      BY <2>2, <2>3, <1>s
  <1>5. ASSUME NEW d \in Drains, DrainCrashes(d) PROVE Counts'
    BY <1>5, <1>g, <1>s DEF DrainCrashes
  <1>6. ASSUME NEW t \in Tasks, EnqueueLocal(t) PROVE Counts'
    <2>1. \A u \in Tasks : /\ outbox'[u].attempts = outbox[u].attempts
                           /\ outbox'[u].status = "dead" => outbox[u].status = "dead"
      BY <1>6, <1>g DEF EnqueueLocal
    <2>2. UNCHANGED <<batch, tried>>
      BY <1>6 DEF EnqueueLocal, drainVars
    <2> QED
      BY <2>1, <2>2, <1>s
  <1>7. ASSUME \/ \E t \in Tasks :
                     \/ CreateTask(t) \/ Publish(t) \/ PublishFails(t) \/ Arrives(t)
                     \/ AnswerRequest(t) \/ RequestFails(t)
               \/ HandleEvent \/ WorkerSteps \/ WorkerFails
               \/ \E c \in Callbacks, t \in Tasks, s \in {"running", "completed"},
                     r \in BOOLEAN : CallbackReads(c, t, s, r)
               \/ \E c \in Callbacks : CallbackSaves(c)
               \/ UNCHANGED vars
        PROVE  Counts'
    <2>1. UNCHANGED <<outbox, batch, tried>>
      BY <1>7 DEF CreateTask, Publish, PublishFails, Arrives, AnswerRequest, RequestFails,
         HandleEvent, WorkerSteps, WorkerFails, CallbackReads, CallbackSaves, vars,
         drainVars
    <2> QED
      BY <2>1, <1>s
  <1> QED
    BY <1>1, <1>2, <1>3, <1>4, <1>5, <1>6, <1>7 DEF Next

(* However many runs of publish_outbox overlap, each saving its own stale  *)
(* count over the others', a row is dead only after max_attempts sends of  *)
(* it have failed.                                                         *)
THEOREM DelegationBuriedIsTried == Spec => []BuriedIsTried
  <1>1. Init => Counts
    BY DEF Init, Counts
  <1>2. TypeInv /\ Counts => BuriedIsTried
    <2> SUFFICES ASSUME TypeInv, Counts, NEW t \in Tasks, outbox[t].status = "dead"
                 PROVE  tried[t] >= MaxAttempts
      BY DEF BuriedIsTried
    <2>1. /\ outbox[t].attempts \in Nat /\ tried[t] \in Nat
          /\ outbox[t].attempts <= tried[t] /\ outbox[t].attempts >= MaxAttempts
      BY DEF TypeInv, GatewayType, Counts
    <2> QED
      BY <2>1, DelegationAssumption
  <1>3. TypeInv /\ Counts /\ [Next]_vars => Counts'
    BY StepCounts
  <1> QED
    BY <1>1, <1>2, <1>3, InitType, StepType, PTL DEF Spec
-----------------------------------------------------------------------------
(***************************************************************************)
(* The worker.  Its handler inserts the task again, and every event it can *)
(* read is of a task the gateway has inserted: the insert always raises.   *)
(* This is also why the model has no commit step of the worker.            *)
(***************************************************************************)

(* An event, wherever it is, is of a task that has a row.                  *)
RowFirst ==
    /\ \A t \in Tasks :
          \/ req[t] \in {"publish", "enqueue", "answer", "ok"}
          \/ flying[t] > 0 \/ OnTopic(t) \/ outbox[t].status # "none"
          => rows[t].status # "none"
    /\ \A d \in Drains : \A row \in batch[d] : rows[row.task].status # "none"

(* Every step keeps both.                                                  *)
LEMMA StepRowFirst ==
    ASSUME TypeInv, Settled, RowFirst, NothingHandled, [Next]_vars
    PROVE  RowFirst' /\ NothingHandled'
  <1>g. /\ GatewayType
        /\ req \in [Tasks -> RequestPc] /\ rows \in [Tasks -> Row]
        /\ topic \in Seq(Tasks)
        /\ outbox \in [Tasks -> [status : OutboxStatus, attempts : 0..MaxAttempts]]
        /\ flying \in [Tasks -> Nat]
        /\ batch \in [Drains -> SUBSET Snapshot]
        /\ sent \in [Drains -> Tasks \cup {Idle}]
    BY DEF TypeInv, GatewayType
  (* A step after which only a task that has a row has more events.        *)
  <1>s. ASSUME NEW t \in Tasks, UNCHANGED workerVars, rows'[t].status # "none",
               \A u \in Tasks \ {t} :
                   /\ req'[u] = req[u] /\ rows'[u].status = rows[u].status
                   /\ outbox'[u].status = outbox[u].status /\ flying'[u] = flying[u]
                   /\ OnTopic(u)' => OnTopic(u),
               \A d \in Drains : batch'[d] \subseteq batch[d]
        PROVE  RowFirst' /\ NothingHandled'
    <2>1. \A d \in Drains : \A row \in batch'[d] : rows'[row.task].status # "none"
      <3> SUFFICES ASSUME NEW d \in Drains, NEW row \in batch'[d]
                   PROVE  rows'[row.task].status # "none"
        OBVIOUS
      <3>1. row \in batch[d]
        BY <1>s
      <3>2. row.task \in Tasks /\ rows[row.task].status # "none"
        BY <3>1, <1>g, SnapshotFacts DEF RowFirst
      <3> QED
        BY <1>s, <3>2
    <2>2. \A u \in Tasks :
             \/ req'[u] \in {"publish", "enqueue", "answer", "ok"}
             \/ flying'[u] > 0 \/ OnTopic(u)' \/ outbox'[u].status # "none"
             => rows'[u].status # "none"
      BY <1>s DEF RowFirst
    <2> QED
      BY <1>s, <2>1, <2>2 DEF RowFirst, NothingHandled, workerVars
  <1>p. UNCHANGED topic => \A u \in Tasks : OnTopic(u)' => OnTopic(u)
    BY DEF OnTopic
  <1>1. ASSUME NEW t \in Tasks, CreateTask(t) PROVE RowFirst' /\ NothingHandled'
    <2>1. rows' = [rows EXCEPT ![t].status = "queued"] /\ "queued" \in TaskStatus
      BY <1>1 DEF CreateTask, TaskStatus
    <2>2. rows'[t].status = "queued" /\ \A u \in Tasks \ {t} : rows'[u] = rows[u]
      BY <2>1, <1>g, RowStatus
    <2> QED
      BY <1>1, <1>g, <1>p, <1>s, <2>2 DEF CreateTask, drainVars
  <1>2. ASSUME NEW t \in Tasks, Publish(t) \/ Arrives(t)
        PROVE  RowFirst' /\ NothingHandled'
    <2>1. \A u \in Tasks : OnTopic(u)' <=> (OnTopic(u) \/ u = t)
      BY <1>2, <1>g, AppendFacts, DelegationAssumption DEF Publish, Arrives
    <2>2. rows[t].status # "none"
      BY <1>2 DEF Publish, Arrives, RowFirst
    <2> QED
      BY <1>2, <1>g, <1>s, <2>1, <2>2 DEF Publish, Arrives, drainVars
  <1>3. ASSUME NEW t \in Tasks, PublishFails(t) \/ EnqueueLocal(t) \/ AnswerRequest(t)
        PROVE  RowFirst' /\ NothingHandled'
    <2>1. rows[t].status # "none"
      BY <1>3 DEF PublishFails, EnqueueLocal, AnswerRequest, RowFirst
    <2>2. /\ UNCHANGED <<rows, topic, workerVars, batch>>
          /\ \A u \in Tasks \ {t} : req'[u] = req[u] /\ outbox'[u] = outbox[u]
      BY <1>3, <1>g DEF PublishFails, EnqueueLocal, AnswerRequest, drainVars
    <2>3. \A u \in Tasks \ {t} : flying'[u] = flying[u]
      BY <1>3, <1>g, SendFailsType DEF PublishFails, EnqueueLocal, AnswerRequest
    <2> QED
      BY <1>p, <1>s, <2>1, <2>2, <2>3
  <1>4. ASSUME NEW t \in Tasks, RequestFails(t) PROVE RowFirst' /\ NothingHandled'
    <2>1. /\ req'[t] = "error" /\ \A u \in Tasks \ {t} : req'[u] = req[u]
          /\ UNCHANGED <<rows, outbox, flying, batch, topic, workerVars>>
      BY <1>4, <1>g DEF RequestFails, drainVars
    <2> QED
      BY <2>1 DEF RowFirst, NothingHandled, OnTopic, workerVars
  <1>5. ASSUME NEW d \in Drains, NEW row \in batch[d],
               DrainSends(d, row) \/ DrainFails(d, row)
        PROVE  RowFirst' /\ NothingHandled'
    <2>1. PICK t \in Tasks : row.task = t
      BY <1>g, SnapshotFacts
    <2>2. rows[t].status # "none"
      BY <2>1 DEF RowFirst
    <2>3. \A e \in Drains : batch'[e] \subseteq batch[e]
      <3>1. batch' = [batch EXCEPT ![d] = @ \ {row}]
        BY <1>5 DEF DrainSends, DrainFails, DrainTakes
      <3> QED
        BY <3>1, <1>g
    <2>4. CASE DrainSends(d, row)
      <3>1. \A u \in Tasks : OnTopic(u)' <=> (OnTopic(u) \/ u = t)
        BY <2>1, <2>4, <1>g, AppendFacts, DelegationAssumption DEF DrainSends
      <3>2. UNCHANGED <<req, rows, outbox, flying, workerVars>>
        BY <2>4 DEF DrainSends
      <3> QED
        BY <1>s, <2>2, <2>3, <3>1, <3>2
    <2>5. CASE DrainFails(d, row)
      <3>1. /\ UNCHANGED <<req, rows, topic, workerVars>>
            /\ \A u \in Tasks \ {t} : outbox'[u] = outbox[u]
        BY <2>1, <2>5, <1>g DEF DrainFails
      <3>2. \A u \in Tasks \ {t} : flying'[u] = flying[u]
        BY <2>1, <2>5, <1>g, SendFailsType DEF DrainFails
      <3> QED
        BY <1>p, <1>s, <2>2, <2>3, <3>1, <3>2
    <2> QED
      BY <1>5, <2>4, <2>5
  <1>10. ASSUME NEW d \in Drains, DrainMarks(d) PROVE RowFirst' /\ NothingHandled'
    <2>1. PICK t \in Tasks : sent[d] = t /\ OnTopic(t)
      BY <1>10, <1>g DEF DrainMarks, Settled
    <2>2. UNCHANGED <<req, rows, flying, batch, topic, workerVars>>
      BY <1>10 DEF DrainMarks
    <2>3. \A u \in Tasks \ {t} : outbox'[u] = outbox[u]
      BY <1>10, <2>1, <1>g DEF DrainMarks
    <2>4. rows[t].status # "none"
      BY <2>1 DEF RowFirst
    <2> QED
      BY <1>p, <1>s, <2>2, <2>3, <2>4
  <1>11. ASSUME NEW d \in Drains, DrainLoad(d) \/ DrainCrashes(d)
         PROVE  RowFirst' /\ NothingHandled'
    <2>1. UNCHANGED <<req, rows, outbox, flying, topic, workerVars>>
      BY <1>11 DEF DrainLoad, DrainCrashes
    <2>2. ASSUME NEW e \in Drains, NEW row \in batch'[e]
          PROVE  rows[row.task].status # "none"
      <3>1. CASE row \in batch[e]
        BY <3>1 DEF RowFirst
      <3>2. CASE row \notin batch[e]
        <4>1. DrainLoad(d) /\ e = d
          BY <1>11, <3>2, <1>g DEF DrainLoad, DrainCrashes
        <4>2. PICK ts \in SUBSET {t \in Tasks : outbox[t].status \in {"pending", "failed"}} :
                 batch' = [batch EXCEPT ![d] =
                              {[task |-> t, attempts |-> outbox[t].attempts] : t \in ts}]
          BY <4>1 DEF DrainLoad
        <4>3. PICK t \in ts : row = [task |-> t, attempts |-> outbox[t].attempts]
          BY <4>1, <4>2, <1>g
        <4>4. t \in Tasks /\ row.task = t /\ outbox[t].status # "none"
          BY <4>3
        <4> QED
          BY <4>4 DEF RowFirst
      <3> QED
        BY <3>1, <3>2
    <2> QED
      BY <2>1, <2>2 DEF RowFirst, NothingHandled, OnTopic, workerVars
  (* Only HandlerReturns changes handled, and only a commit the offset.    *)
  <1>6. CASE HandleEvent
    <2>1. PICK i \in 1..Len(topic) : position = i
      BY <1>6, HandledEvent DEF HandleEvent
    <2>2. PICK t \in Tasks : t = topic[i]
      BY <2>1, <1>g
    <2>3. rows[topic[position]].status # "none"
      BY <2>1, <2>2 DEF RowFirst, OnTopic
    <2>4. Bus!Raises /\ UNCHANGED <<req, rows, outbox, flying, batch, topic>>
      BY <1>6, <2>3 DEF HandleEvent, drainVars
    <2> QED
      BY <2>4 DEF RowFirst, NothingHandled, OnTopic, Bus!Raises, Bus!Fail
  <1>7. CASE WorkerSteps \/ WorkerFails
    <2>1. UNCHANGED <<req, rows, outbox, flying, batch, topic>>
      BY <1>7 DEF WorkerSteps, WorkerFails, drainVars
    <2>2. /\ UNCHANGED <<handled, committed>>
          /\ consumer' # "commit"
      BY <1>7 DEF WorkerSteps, WorkerFails, Bus!Start, Bus!Deliver, Bus!BackoffElapses,
         Bus!Raises, Bus!Fail, Bus!Crash, Bus!Restart, Bus!NewProcess
    <2> QED
      BY <2>1, <2>2 DEF RowFirst, NothingHandled, OnTopic
  <1>8. ASSUME NEW c \in Callbacks, CallbackSaves(c) PROVE RowFirst' /\ NothingHandled'
    <2>1. PICK t \in Tasks : t = cb[c].task
      BY <1>8 DEF CallbackSaves, Post
    <2>2. rows'[t].status = cb[c].status /\ \A u \in Tasks \ {t} : rows'[u] = rows[u]
      BY <1>8, <2>1, <1>g DEF CallbackSaves
    <2>3. cb[c].status # "none"
      BY <1>8 DEF CallbackSaves, Post, TaskStatus
    <2> QED
      BY <1>8, <1>p, <1>s, <2>2, <2>3 DEF CallbackSaves, drainVars
  <1>9. ASSUME \/ UNCHANGED vars
               \/ \E c \in Callbacks, t \in Tasks, s \in {"running", "completed"},
                     r \in BOOLEAN : CallbackReads(c, t, s, r)
        PROVE  RowFirst' /\ NothingHandled'
    <2>1. UNCHANGED <<req, rows, outbox, flying, batch, topic, workerVars>>
      BY <1>9 DEF CallbackReads, vars, drainVars
    <2> QED
      BY <2>1 DEF RowFirst, NothingHandled, OnTopic, workerVars
  <1> QED
    BY <1>1, <1>2, <1>3, <1>4, <1>5, <1>6, <1>7, <1>8, <1>9, <1>10, <1>11 DEF Next

(* DelegationWorker._handle_event never returns normally: whatever the     *)
(* gateway, the drain and the callbacks do, the row of the event's task is *)
(* there first, so no event is ever handled and no offset committed.       *)
THEOREM DelegationNothingHandled == Spec => []NothingHandled
  <1>1. Init => RowFirst /\ NothingHandled
    BY DEF Init, RowFirst, NothingHandled, OnTopic, Bus!Init
  <1>2. TypeInv /\ Settled /\ RowFirst /\ NothingHandled /\ [Next]_vars
           => RowFirst' /\ NothingHandled'
    BY StepRowFirst
  <1> QED
    BY <1>1, <1>2, InitType, StepType, InitSettled, StepSend, PTL DEF Spec
=============================================================================
