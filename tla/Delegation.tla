----------------------------- MODULE Delegation -----------------------------
(***************************************************************************)
(* Delegated tasks: the delegation gateway that inserts a task and hands   *)
(* its event to DurablePublisher, the publisher's local buffer of          *)
(* OutboxMessage rows, the publish_outbox command that drains it, the      *)
(* delegation worker that reads the topic with KafkaEventBus.consume, and  *)
(* the callbacks that report a task's status and result.                   *)
(*                                                                         *)
(* Every accepted request carries its task_id, which is the dedupe key of  *)
(* its event.  A database call that raises has changed nothing.            *)
(* publish_outbox queries the database from a coroutine: the model is of a *)
(* deployment that sets DJANGO_ALLOW_ASYNC_UNSAFE.                         *)
(***************************************************************************)
EXTENDS Naturals, Sequences, FiniteSets

CONSTANTS
    Tasks,          \* task ids
    Callbacks,      \* callback requests
    Drains,         \* runs of publish_outbox that may overlap
    MaxAttempts,    \* OutboxMessage.max_attempts
    MaxFailures,    \* max_consecutive_failures of the worker's consume()
    MaxLog,         \* bound: events on the topic
    MaxFaults       \* bound: calls that raise or time out, and crashes

ASSUME DelegationAssumption ==
    /\ MaxAttempts \in Nat \ {0}
    /\ MaxFailures \in Nat \ {0}
    /\ MaxLog \in Nat
    /\ MaxFaults \in Nat

VARIABLES
    req,        \* where the request that creates each task is
    rows,       \* DelegationTask rows: status ("none": no row) and result
    outbox,     \* OutboxMessage of each task: status and attempts
    flying,     \* per task, failed sends that may still reach the broker
    batch,      \* per drain, the rows it has loaded and not yet taken, as
                \* they were then
    sent,       \* per drain, the row it has sent and not yet marked
    topic,      \* the events on DELEGATION_TOPIC, by offset + 1
    cb          \* per callback request: its task, what it read and carries
VARIABLES
    committed, position, consumer, failures, stop, delivered, handled
VARIABLES
    tried,      \* failed sends of each row by a drain (history)
    faults      \* bounded events so far

workerVars == <<committed, position, consumer, failures, stop, delivered, handled>>
drainVars == <<batch, sent, tried>>
vars == <<req, rows, outbox, flying, drainVars, topic, cb, workerVars, faults>>

(* The worker's loop is EventBus's, on this topic: no event is poison by   *)
(* itself.                                                                 *)
Bus == INSTANCE EventBus WITH logEnd <- Len(topic), Poison <- {}

OnTopic(t) == \E i \in 1..Len(topic) : topic[i] = t
Buffered == {"pending", "failed", "dead"}

(* What the publisher promises.                                            *)
Send == INSTANCE AtLeastOnce WITH
            Event <- Tasks,
            accepted <- {t \in Tasks : req[t] = "ok"},
            kept <- {t \in Tasks : outbox[t].status \in Buffered},
            delivered <- {t \in Tasks : OnTopic(t)}

(* "insert", "publish", "enqueue", "answer": about to; "ok", "error": has  *)
(* answered.                                                               *)
RequestPc == {"insert", "publish", "enqueue", "answer", "ok", "error"}
TaskStatus == {"queued", "received", "running", "completed"}
OutboxStatus == {"none", "published"} \cup Buffered
Row == [status : TaskStatus \cup {"none"}, result : BOOLEAN]
NoRow == [status |-> "none", result |-> FALSE]
Idle == "idle"          \* the drain has no row to mark
ASSUME IdleAssumption == Idle \notin Tasks
Snapshot == [task : Tasks, attempts : 0..(MaxAttempts - 1)]
Post == [task : Tasks, seen : Row, status : TaskStatus, result : BOOLEAN]
NotYet == [at |-> "start"]
Reported == [at |-> "end"]

Init ==
    /\ req = [t \in Tasks |-> "insert"]
    /\ rows = [t \in Tasks |-> NoRow]
    /\ outbox = [t \in Tasks |-> [status |-> "none", attempts |-> 0]]
    /\ flying = [t \in Tasks |-> 0]
    /\ batch = [d \in Drains |-> {}]
    /\ sent = [d \in Drains |-> Idle]
    /\ topic = <<>>
    /\ cb = [c \in Callbacks |-> NotYet]
    /\ Bus!Init
    /\ tried = [t \in Tasks |-> 0]
    /\ faults = 0

Fault ==
    /\ faults < MaxFaults
    /\ faults' = faults + 1

-----------------------------------------------------------------------------
(* create_delegation_task and DurablePublisher                             *)

(* Mutant: the row is left to the worker that reads the event.             *)
CreateTaskLater(t) ==
    /\ req[t] \in {"insert", "error"}
    /\ rows[t].status = "none"
    /\ req' = [req EXCEPT ![t] = "publish"]
    /\ UNCHANGED <<rows, outbox, flying, drainVars, topic, cb, workerVars, faults>>

(* store.create_task; a request that failed may be repeated with its id,   *)
(* and the unique key refuses it when the row is there.                    *)
CreateTask(t) ==
    /\ req[t] \in {"insert", "error"}
    /\ rows[t].status = "none"
    /\ rows' = [rows EXCEPT ![t].status = "queued"]
    /\ req' = [req EXCEPT ![t] = "publish"]
    /\ UNCHANGED <<outbox, flying, drainVars, topic, cb, workerVars, faults>>

(* The broker appends an event.                                            *)
Appends(t) ==
    /\ Len(topic) < MaxLog
    /\ topic' = Append(topic, t)

Publish(t) ==
    /\ req[t] = "publish"
    /\ Appends(t)
    /\ req' = [req EXCEPT ![t] = "answer"]
    /\ UNCHANGED <<rows, outbox, flying, drainVars, cb, workerVars, faults>>

(* Mutant: a failed publish is logged and the request answered.            *)
PublishFailsSwallowed(t) ==
    /\ req[t] = "publish"
    /\ req' = [req EXCEPT ![t] = "answer"]
    /\ Fault
    /\ UNCHANGED <<rows, outbox, flying, drainVars, topic, cb, workerVars>>

(* A send that failed: it has not left, or it may still arrive.            *)
SendFails(t) ==
    flying' \in {flying, [flying EXCEPT ![t] = @ + 1]}

(* The publish raises, or wait_for cancels it.                             *)
PublishFails(t) ==
    /\ req[t] = "publish"
    /\ req' = [req EXCEPT ![t] = "enqueue"]
    /\ SendFails(t)
    /\ Fault
    /\ UNCHANGED <<rows, outbox, drainVars, topic, cb, workerVars>>

Arrives(t) ==
    /\ flying[t] > 0
    /\ flying' = [flying EXCEPT ![t] = @ - 1]
    /\ Appends(t)
    /\ UNCHANGED <<req, rows, outbox, drainVars, cb, workerVars, faults>>

(* _enqueue_local: get_or_create on the dedupe key.                        *)
EnqueueLocal(t) ==
    /\ req[t] = "enqueue"
    /\ req' = [req EXCEPT ![t] = "answer"]
    /\ outbox' = [outbox EXCEPT ![t].status = IF @ = "none" THEN "pending" ELSE @]
    /\ UNCHANGED <<rows, flying, drainVars, topic, cb, workerVars, faults>>

AnswerRequest(t) ==
    /\ req[t] = "answer"
    /\ req' = [req EXCEPT ![t] = "ok"]
    /\ UNCHANGED <<rows, outbox, flying, drainVars, topic, cb, workerVars,
                   faults>>

(* The insert or the enqueue raises (a 500), or the gateway crashes.       *)
RequestFails(t) ==
    /\ req[t] \notin {"ok", "error"}
    /\ req' = [req EXCEPT ![t] = "error"]
    /\ Fault
    /\ UNCHANGED <<rows, outbox, flying, drainVars, topic, cb, workerVars>>

-----------------------------------------------------------------------------
(* publish_outbox.  Nothing keeps two runs of the command apart: each      *)
(* loads its rows, and sends and saves them as they were then.             *)

(* Mutant: the attempt is counted when the row is loaded as well.          *)
DrainLoadCounts(d) ==
    /\ batch[d] = {} /\ sent[d] = Idle
    /\ \E ts \in SUBSET {t \in Tasks : outbox[t].status \in {"pending", "failed"}} :
          /\ ts # {}
          /\ \A t \in ts : outbox[t].attempts + 1 < MaxAttempts
          /\ batch' = [batch EXCEPT ![d] =
                          {[task |-> t, attempts |-> outbox[t].attempts + 1] : t \in ts}]
          /\ outbox' = [t \in Tasks |-> IF t \in ts
                            THEN [outbox[t] EXCEPT !.attempts = @ + 1] ELSE outbox[t]]
    /\ UNCHANGED <<req, rows, flying, sent, tried, topic, cb, workerVars, faults>>

(* The batch: pending and failed rows, but for those that the limit or     *)
(* their next_retry_at leaves out.                                         *)
DrainLoad(d) ==
    /\ batch[d] = {} /\ sent[d] = Idle
    /\ \E ts \in SUBSET {t \in Tasks : outbox[t].status \in {"pending", "failed"}} :
          /\ ts # {}
          /\ batch' = [batch EXCEPT ![d] =
                          {[task |-> t, attempts |-> outbox[t].attempts] : t \in ts}]
    /\ UNCHANGED <<req, rows, outbox, flying, sent, tried, topic, cb, workerVars,
                   faults>>

(* The loop takes its next row.                                            *)
DrainTakes(d, row) ==
    /\ sent[d] = Idle
    /\ batch' = [batch EXCEPT ![d] = @ \ {row}]

DrainSends(d, row) ==
    /\ DrainTakes(d, row)
    /\ Appends(row.task)
    /\ sent' = [sent EXCEPT ![d] = row.task]
    /\ UNCHANGED <<req, rows, outbox, flying, tried, cb, workerVars, faults>>

(* mark_published: it saves the status only.                               *)
DrainMarks(d) ==
    /\ sent[d] # Idle
    /\ outbox' = [outbox EXCEPT ![sent[d]].status = "published"]
    /\ sent' = [sent EXCEPT ![d] = Idle]
    /\ UNCHANGED <<req, rows, flying, batch, tried, topic, cb, workerVars, faults>>

(* Mutant: the row is marked published all the same.                      *)
DrainFailsMarked(d, row) ==
    /\ DrainTakes(d, row)
    /\ outbox' = [outbox EXCEPT ![row.task].status = "published"]
    /\ SendFails(row.task)
    /\ tried' = [tried EXCEPT ![row.task] = @ + 1]
    /\ Fault
    /\ UNCHANGED <<req, rows, sent, topic, cb, workerVars>>

(* The publish raises: mark_failed counts from the attempts that were      *)
(* loaded and saves every column, over what another run has saved since.   *)
DrainFails(d, row) ==
    /\ DrainTakes(d, row)
    /\ outbox' = [outbox EXCEPT ![row.task] =
                     [status |-> IF row.attempts + 1 >= MaxAttempts THEN "dead"
                                                                   ELSE "failed",
                      attempts |-> row.attempts + 1]]
    /\ SendFails(row.task)
    /\ tried' = [tried EXCEPT ![row.task] = @ + 1]
    /\ Fault
    /\ UNCHANGED <<req, rows, sent, topic, cb, workerVars>>

(* The command dies, or a mark_* call raises out of its loop: what it did  *)
(* not mark the next one sends again.                                      *)
DrainCrashes(d) ==
    /\ batch[d] # {} \/ sent[d] # Idle
    /\ batch' = [batch EXCEPT ![d] = {}]
    /\ sent' = [sent EXCEPT ![d] = Idle]
    /\ Fault
    /\ UNCHANGED <<req, rows, outbox, flying, tried, topic, cb, workerVars>>

-----------------------------------------------------------------------------
(* The worker                                                              *)

(* _handle_event: the insert of the task, which the gateway has inserted   *)
(* before it published; no schema of that name is registered, so that      *)
(* validate_event lets every event pass.                                   *)
HandleEvent ==
    /\ consumer = "handling"
    /\ UNCHANGED <<req, outbox, flying, drainVars, topic, cb, faults>>
    /\ IF rows[topic[position]].status = "none"
       THEN /\ rows' = [rows EXCEPT ![topic[position]].status = "received"]
            /\ Bus!HandlerReturns
       ELSE /\ UNCHANGED rows
            /\ Bus!Raises

WorkerSteps ==
    /\ UNCHANGED <<req, rows, outbox, flying, drainVars, topic, cb, faults>>
    /\ Bus!Start \/ Bus!Deliver \/ Bus!BackoffElapses

WorkerFails ==
    /\ UNCHANGED <<req, rows, outbox, flying, drainVars, topic, cb>>
    /\ \/ consumer \in {"starting", "polling"} /\ Bus!Raises
       \/ Bus!Crash
       \/ Bus!Restart
    /\ Fault

-----------------------------------------------------------------------------
(* delegation_callback: get_task, then update_task's read of the row.      *)
CallbackReads(c, t, s, r) ==
    /\ cb[c] = NotYet
    /\ rows[t].status # "none"
    /\ cb' = [cb EXCEPT ![c] = [task |-> t, seen |-> rows[t], status |-> s, result |-> r]]
    /\ UNCHANGED <<req, rows, outbox, flying, drainVars, topic, workerVars,
                   faults>>

(* The save of the whole row: the fields the callback carries, the others  *)
(* as they were read.                                                      *)
CallbackSaves(c) ==
    /\ cb[c] \in Post
    /\ rows' = [rows EXCEPT ![cb[c].task] =
                   [status |-> cb[c].status, result |-> cb[c].result \/ cb[c].seen.result]]
    /\ cb' = [cb EXCEPT ![c] = Reported]
    /\ UNCHANGED <<req, outbox, flying, drainVars, topic, workerVars, faults>>

-----------------------------------------------------------------------------
Next ==
    \/ \E t \in Tasks :
          \/ CreateTask(t) \/ Publish(t) \/ PublishFails(t) \/ Arrives(t)
          \/ EnqueueLocal(t) \/ AnswerRequest(t) \/ RequestFails(t)
    \/ \E d \in Drains :
          \/ DrainLoad(d) \/ DrainMarks(d) \/ DrainCrashes(d)
          \/ \E row \in batch[d] : DrainSends(d, row) \/ DrainFails(d, row)
    \/ HandleEvent \/ WorkerSteps \/ WorkerFails
    \/ \E c \in Callbacks, t \in Tasks, s \in {"running", "completed"}, r \in BOOLEAN :
          CallbackReads(c, t, s, r)
    \/ \E c \in Callbacks : CallbackSaves(c)

Spec == Init /\ [][Next]_vars

-----------------------------------------------------------------------------
(* Properties                                                              *)

(* Types; a drain holds only rows that have an attempt left.               *)
TypeOK ==
    /\ req \in [Tasks -> RequestPc]
    /\ rows \in [Tasks -> Row]
    /\ outbox \in [Tasks -> [status : OutboxStatus, attempts : 0..MaxAttempts]]
    /\ flying \in [Tasks -> Nat]
    /\ batch \in [Drains -> SUBSET Snapshot]
    /\ sent \in [Drains -> Tasks \cup {Idle}]
    /\ topic \in Seq(Tasks) /\ Len(topic) <= MaxLog
    /\ cb \in [Callbacks -> Post \cup {NotYet, Reported}]
    /\ tried \in [Tasks -> Nat]
    /\ faults \in 0..MaxFaults
    /\ Bus!TypeOK

(* publisher.py: "A broker blip cannot lose a write": through timeouts,    *)
(* lost acknowledgements, drain failures and crashes the publisher does no *)
(* more and no less than AtLeastOnce allows.                               *)
PublisherKeepsPromise == Send!Spec

(* A task without an event, on the topic, in the buffer or on its way, is  *)
(* one whose request was answered with an error.                           *)
OnlyErrorsStrand ==
    \A t \in Tasks :
        rows[t].status # "none" =>
            \/ req[t] \in {"publish", "enqueue", "error"}
            \/ OnTopic(t)
            \/ outbox[t].status \in Buffered

(* A row of the buffer is buried only after as many failed sends as its    *)
(* attempts allow, though overlapping runs of publish_outbox overwrite     *)
(* each other's count and reopen each other's rows.                        *)
BuriedIsTried ==
    \A t \in Tasks : outbox[t].status = "dead" => tried[t] >= MaxAttempts

(* DelegationWorker._handle_event never returns normally: an event can be  *)
(* read only after the gateway has inserted its task, whichever of them    *)
(* failed, crashed or sent late, so the worker's own insert always raises  *)
(* and no offset is ever committed.                                        *)
NothingHandled == handled = {} /\ committed = 0 /\ consumer # "commit"

=============================================================================
