---------------------------- MODULE MemoryOutbox ----------------------------
(***************************************************************************)
(* The T-6 "durable before hop" memory write path of SomaAgent01.          *)
(*                                                                         *)
(* A caller (chat orchestrator or REST create_memory) writes one memory    *)
(* through FanoutMemoryGateway.remember_text: the write is accepted as an  *)
(* OutboxMessage row before the hop to SomaBrain, and an ok ack marks the  *)
(* row published.  What is left pending is replayed by two independent     *)
(* drains: the publish_outbox command (rows -> Kafka topic memory.wal ->   *)
(* MemoryReplicator -> remember_text again) and drain_memory_wal_activity  *)
(* (rows -> POST /memory/remember).                                        *)
(*                                                                         *)
(* A memory is a (tenant, kind, text) triple, blank when its text or its   *)
(* tenant is empty; a coord is a memory with the time stamp its key        *)
(* material was built from, and stamps of one memory are never reused.  A  *)
(* Django row object is the snapshot its holder loaded: save() writes the  *)
(* whole snapshot back, save(update_fields) only the named columns.        *)
(***************************************************************************)
EXTENDS Naturals, FiniteSets

CONSTANTS
    Memories,           \* the memories callers write, one call each
    RestMemories,       \* those written by REST create_memory; the rest by chat
    Blank,              \* those with an empty text or no tenant
    Publishers,         \* concurrent runs of publish_outbox
    Drains,             \* concurrent runs of drain_memory_wal_activity
    MaxStamp,           \* bound: time stamps a memory gets are 0..MaxStamp
    MaxAttempts,        \* OutboxMessage.max_attempts
    MaxCopies,          \* bound: uncommitted copies of a row on memory.wal
    MaxCrashes,         \* bound: crashes of workers and callers
    AsyncUnsafeAllowed, \* deployment sets DJANGO_ALLOW_ASYNC_UNSAFE
    Faults,             \* outcomes the environment may produce, see FaultKinds
    None                \* "no row in hand"

(***************************************************************************)
(* "soft2xx": SomaBrain answers 2xx to a write it did not keep (ok=false). *)
(* "dlqTopicDown", "dlqStoreDown": a publish to memory.wal.dlq, an insert  *)
(* into dead_letter_messages may fail.                                     *)
(* "acceptError": the outbox insert of a caller's write raises.            *)
(* "freshGroup": the group memory-replicator has no committed offset yet.  *)
(***************************************************************************)
FaultKinds == {"soft2xx", "dlqTopicDown", "dlqStoreDown", "acceptError",
               "freshGroup"}

ASSUME ConstantsAssumption ==
    /\ RestMemories \subseteq Memories
    /\ Blank \subseteq Memories
    /\ MaxStamp \in Nat
    /\ MaxAttempts \in Nat \ {0}
    /\ MaxCopies \in Nat \ {0}
    /\ MaxCrashes \in Nat
    /\ AsyncUnsafeAllowed \in BOOLEAN
    /\ Faults \subseteq FaultKinds

Coord == Memories \X (0..MaxStamp)

ASSUME NoneAssumption == None \notin Coord

VARIABLES
    status,     \* outbox_messages.status per coord ("absent": no such row)
    attempts,   \* outbox_messages.attempts
    due,        \* next_retry_at is null or has passed
    clock,      \* the next unused time stamp of a memory
    caller,     \* program counter of each memory's caller
    stamp,      \* the stamp the caller's current coord was built from
    brain,      \* SomaBrain records: placement keys derived from coords
    wal,        \* memory.wal: messages per coord the group has not committed
    pubBatch,   \* rows a publish_outbox run has loaded and not yet handled
    pubSeen,    \* the attempts column in those loaded snapshots
    pubSent,    \* the row whose broker ack has arrived, not yet marked
    rep,        \* program counter of the memory replicator's handler
    repSrc,     \* the WAL message it handles
    repNew,     \* the coord its remember_text call made
    group,      \* the consumer's offset: none, reading but uncommitted, committed
    tdrBatch,   \* rows a drain_memory_wal_activity run has claimed
    tdrSent,    \* the row whose POST answered 2xx, not yet marked
    dlq,        \* coords kept on memory.wal.dlq or in dead_letter_messages
    accepted,   \* coords whose row was ever inserted (history)
    crashes     \* crashes so far

outboxVars == <<status, attempts, due>>
callerVars == <<clock, caller, stamp>>
pubVars == <<pubBatch, pubSeen, pubSent>>
repVars == <<rep, repSrc, repNew, group>>
tdrVars == <<tdrBatch, tdrSent>>
vars == <<outboxVars, callerVars, brain, wal, pubVars, repVars, tdrVars, dlq,
          accepted, crashes>>

MemoryOf(c) == c[1]
CallerCoord(m) == <<m, stamp[m]>>

(* SomaBrain places a record by its key: the gateway sends the key         *)
(* material of the coord, drain_memory_wal_activity sends mem:{coord}.     *)
Key == {"material", "mem"} \X Coord
MaterialKey(c) == <<"material", c>>
MemKey(c) == <<"mem", c>>

Drainable == {"pending", "failed"}
OpenStatus == Drainable \cup {"dead"}
Status == OpenStatus \cup {"absent", "published"}

CallerPc == {"idle", "accept", "detached", "reaccept", "hop", "complete",
             "returned", "unaccepted", "refused", "crashed"}
RepPc == {"idle", "insert", "sync", "hop", "complete", "dlq", "dlqStore",
          "commit"}

-----------------------------------------------------------------------------
(* OutboxMessage row operations                                            *)

(* OutboxMessage.objects.get_or_create(idempotency_key=f"mem:{coord}")     *)
DurableAccept(c) ==
    /\ status' = IF status[c] = "absent" THEN [status EXCEPT ![c] = "pending"]
                                         ELSE status
    /\ accepted' = accepted \cup {c}
    /\ UNCHANGED <<attempts, due>>

(* mark_published: save(update_fields=["status", "published_at"])          *)
MarkPublished(c) ==
    /\ status' = [status EXCEPT ![c] = "published"]
    /\ UNCHANGED <<attempts, due>>

(* Mutant of MarkFailed: > for >=, a row gets one attempt too many.        *)
MarkFailedLate(c, seen) ==
    LET dead == seen + 1 > MaxAttempts IN
    /\ status' = [status EXCEPT ![c] = IF dead THEN "dead" ELSE "failed"]
    /\ attempts' = [attempts EXCEPT ![c] = seen + 1]
    /\ due' = [due EXCEPT ![c] = dead]

(* mark_failed on a row loaded with the attempts column `seen`; its save() *)
(* writes every column, whatever happened to the row since.                *)
MarkFailed(c, seen) ==
    LET dead == seen + 1 >= MaxAttempts IN
    /\ status' = [status EXCEPT ![c] = IF dead THEN "dead" ELSE "failed"]
    /\ attempts' = [attempts EXCEPT ![c] = seen + 1]
    /\ due' = [due EXCEPT ![c] = dead]

(* next_retry_at of a failed row passes.                                   *)
BackoffElapses(c) ==
    /\ status[c] # "absent"
    /\ ~due[c]
    /\ due' = [due EXCEPT ![c] = TRUE]
    /\ UNCHANGED <<status, attempts, callerVars, brain, wal, pubVars, repVars,
                   tdrVars, dlq, accepted, crashes>>

(* cleanup_outbox: published rows older than 30 days; no run of a drain    *)
(* (at most 600 s) and no caller still holds one.                          *)
CleanupOutbox(c) ==
    /\ status[c] = "published"
    /\ \A p \in Publishers : c \notin pubBatch[p] /\ pubSent[p] # c
    /\ \A d \in Drains : c \notin tdrBatch[d] /\ tdrSent[d] # c
    /\ repNew # c
    /\ caller[MemoryOf(c)] \notin {"hop", "complete"}
    /\ status' = [status EXCEPT ![c] = "absent"]
    /\ attempts' = [attempts EXCEPT ![c] = 0]
    /\ due' = [due EXCEPT ![c] = TRUE]
    /\ UNCHANGED <<callerVars, brain, wal, pubVars, repVars, tdrVars, dlq,
                   accepted, crashes>>

-----------------------------------------------------------------------------
(* Callers: _remember_via_gateway (chat) and create_memory (REST), each    *)
(* running FanoutMemoryGateway.remember_text                               *)

Step(m, from, to) ==
    /\ caller[m] = from
    /\ caller' = [caller EXCEPT ![m] = to]

(* stamp = datetime.now(UTC) and the coord built from it                   *)
TakeStamp(m) ==
    /\ clock[m] <= MaxStamp
    /\ stamp' = [stamp EXCEPT ![m] = clock[m]]
    /\ clock' = [clock EXCEPT ![m] = @ + 1]

Call(m) ==
    /\ Step(m, "idle", "accept")
    /\ TakeStamp(m)
    /\ UNCHANGED <<outboxVars, brain, wal, pubVars, repVars, tdrVars, dlq,
                   accepted, crashes>>

(* durable_accept_memory comes before the hop.                             *)
AcceptOk(m) ==
    /\ Step(m, "accept", "hop")
    /\ DurableAccept(CallerCoord(m))
    /\ UNCHANGED <<clock, stamp, brain, wal, pubVars, repVars, tdrVars, dlq,
                   crashes>>

(* Mutant of AcceptError: the error is swallowed inside remember_text.     *)
AcceptErrorIgnored(m) ==
    /\ "acceptError" \in Faults
    /\ Step(m, "accept", "hop")
    /\ UNCHANGED <<outboxVars, clock, stamp, brain, wal, pubVars, repVars,
                   tdrVars, dlq, accepted, crashes>>

(* The insert raises: chat logs a failed ack and goes on, create_memory    *)
(* queues the write once more under a fresh coord.                         *)
AcceptError(m) ==
    /\ "acceptError" \in Faults
    /\ \/ /\ m \notin RestMemories
          /\ Step(m, "accept", "unaccepted")
          /\ UNCHANGED <<clock, stamp>>
       \/ /\ m \in RestMemories
          /\ Step(m, "accept", "reaccept")
          /\ TakeStamp(m)
    /\ UNCHANGED <<outboxVars, brain, wal, pubVars, repVars, tdrVars, dlq,
                   accepted, crashes>>

(* Chat's asyncio.wait_for gives up while the insert is in its worker      *)
(* thread: the thread is not stopped, and inserts or fails later.          *)
AcceptTimeout(m) ==
    /\ m \notin RestMemories
    /\ Step(m, "accept", "detached")
    /\ UNCHANGED <<outboxVars, clock, stamp, brain, wal, pubVars, repVars,
                   tdrVars, dlq, accepted, crashes>>

LateAccept(m) ==
    /\ \/ /\ Step(m, "detached", "returned")
          /\ DurableAccept(CallerCoord(m))
       \/ /\ Step(m, "detached", "unaccepted")
          /\ UNCHANGED <<outboxVars, accepted>>
    /\ UNCHANGED <<clock, stamp, brain, wal, pubVars, repVars, tdrVars, dlq,
                   crashes>>

(* Mutant of Reaccept: the second failure is answered with success.        *)
ReacceptSwallowed(m) ==
    /\ Step(m, "reaccept", "returned")
    /\ DurableAccept(CallerCoord(m)) \/ UNCHANGED <<outboxVars, accepted>>
    /\ UNCHANGED <<clock, stamp, brain, wal, pubVars, repVars, tdrVars, dlq,
                   crashes>>

(* create_memory's except branch; a second failure reaches the client.     *)
Reaccept(m) ==
    /\ \/ /\ Step(m, "reaccept", "returned")
          /\ DurableAccept(CallerCoord(m))
       \/ /\ Step(m, "reaccept", "refused")
          /\ UNCHANGED <<outboxVars, accepted>>
    /\ UNCHANGED <<clock, stamp, brain, wal, pubVars, repVars, tdrVars, dlq,
                   crashes>>

(* Mutant of Hop: `if ack.ok` is missing, a failed ack completes the row.  *)
HopUnchecked(m) ==
    /\ Step(m, "hop", "complete")
    /\ \/ UNCHANGED brain
       \/ brain' = brain \cup {MaterialKey(CallerCoord(m))}
    /\ UNCHANGED <<outboxVars, clock, stamp, wal, pubVars, repVars, tdrVars,
                   dlq, accepted, crashes>>

(* SomaBrainAdapter.remember behind the breaker: an ok ack; or a failed    *)
(* one (refused, fast-failed, timed out), with or without the write kept.  *)
Hop(m) ==
    /\ \/ /\ Step(m, "hop", "complete")
          /\ brain' = brain \cup {MaterialKey(CallerCoord(m))}
       \/ /\ Step(m, "hop", "returned")
          /\ \/ UNCHANGED brain
             \/ brain' = brain \cup {MaterialKey(CallerCoord(m))}
    /\ UNCHANGED <<outboxVars, clock, stamp, wal, pubVars, repVars, tdrVars,
                   dlq, accepted, crashes>>

(* _durable_complete; an exception from it is logged and swallowed.        *)
Complete(m) ==
    /\ Step(m, "complete", "returned")
    /\ MarkPublished(CallerCoord(m)) \/ UNCHANGED outboxVars
    /\ UNCHANGED <<clock, stamp, brain, wal, pubVars, repVars, tdrVars, dlq,
                   accepted, crashes>>

CallerCrash(m) ==
    /\ crashes < MaxCrashes
    /\ caller[m] \in {"accept", "reaccept", "hop", "complete"}
    /\ caller' = [caller EXCEPT ![m] = "crashed"]
    /\ crashes' = crashes + 1
    /\ UNCHANGED <<outboxVars, clock, stamp, brain, wal, pubVars, repVars,
                   tdrVars, dlq, accepted>>

-----------------------------------------------------------------------------
(* publish_outbox, run p.  Its queries are synchronous ORM calls in a      *)
(* coroutine: Django refuses them unless the deployment allows it.         *)

LoadRows(p, rows) ==
    /\ AsyncUnsafeAllowed
    /\ pubBatch[p] = {} /\ pubSent[p] = None
    /\ rows # {}
    /\ pubBatch' = [pubBatch EXCEPT ![p] = rows]
    /\ pubSeen' = [pubSeen EXCEPT ![p] =
                      [c \in Coord |-> IF c \in rows THEN attempts[c] ELSE 0]]
    /\ UNCHANGED <<outboxVars, callerVars, brain, wal, pubSent, repVars,
                   tdrVars, dlq, accepted, crashes>>

PubLoad(p) == LoadRows(p, {c \in Coord : status[c] \in Drainable /\ due[c]})

Publish(c) == wal' = [wal EXCEPT ![c] = @ + 1]

(* The loop takes the next row; its snapshot is not used again after it.   *)
PubTake(p, c) ==
    /\ pubSent[p] = None
    /\ c \in pubBatch[p]
    /\ pubBatch' = [pubBatch EXCEPT ![p] = @ \ {c}]
    /\ pubSeen' = [pubSeen EXCEPT ![p][c] = 0]

(* bus.publish returned: the broker has the message.                       *)
PubSend(p, c) ==
    /\ PubTake(p, c)
    /\ wal[c] < MaxCopies
    /\ Publish(c)
    /\ pubSent' = [pubSent EXCEPT ![p] = c]
    /\ UNCHANGED <<outboxVars, callerVars, brain, repVars, tdrVars, dlq,
                   accepted, crashes>>

PubMark(p) ==
    /\ pubSent[p] # None
    /\ MarkPublished(pubSent[p])
    /\ pubSent' = [pubSent EXCEPT ![p] = None]
    /\ UNCHANGED <<callerVars, brain, wal, pubBatch, pubSeen, repVars, tdrVars,
                   dlq, accepted, crashes>>

(* bus.publish raised; the broker may have the message all the same.       *)
PubSendError(p, c) ==
    /\ PubTake(p, c)
    /\ \/ UNCHANGED wal
       \/ wal[c] < MaxCopies /\ Publish(c)
    /\ MarkFailed(c, pubSeen[p][c])
    /\ UNCHANGED <<callerVars, brain, pubSent, repVars, tdrVars, dlq, accepted,
                   crashes>>

(* The process stops, or a mark_* call raises out of the loop.             *)
PubCrash(p) ==
    /\ crashes < MaxCrashes
    /\ pubBatch[p] # {} \/ pubSent[p] # None
    /\ crashes' = crashes + 1
    /\ pubBatch' = [pubBatch EXCEPT ![p] = {}]
    /\ pubSeen' = [pubSeen EXCEPT ![p] = [c \in Coord |-> 0]]
    /\ pubSent' = [pubSent EXCEPT ![p] = None]
    /\ UNCHANGED <<outboxVars, callerVars, brain, wal, repVars, tdrVars, dlq,
                   accepted>>

-----------------------------------------------------------------------------
(* MemoryReplicator._handle_wal under KafkaEventBus._consume_once: the     *)
(* offset is committed after the handler, which swallows every error.      *)

RepStep(from, to) == rep = from /\ rep' = to

(* consumer.start() of a group without a committed offset: no              *)
(* auto_offset_reset is given, so it begins at the end of the topic and    *)
(* passes over what was published before.                                  *)
RepStart ==
    /\ group = "none"
    /\ group' = "reading"
    /\ wal' = [c \in Coord |-> 0]
    /\ UNCHANGED <<outboxVars, callerVars, brain, pubVars, rep, repSrc, repNew,
                   tdrVars, dlq, accepted, crashes>>

RepDeliver(c) ==
    /\ group # "none"
    /\ wal[c] > 0
    /\ RepStep("idle", "insert")
    /\ repSrc' = c
    /\ UNCHANGED <<outboxVars, callerVars, brain, wal, pubVars, repNew, group,
                   tdrVars, dlq, accepted, crashes>>

(* insert_from_wal                                                         *)
RepInsert ==
    /\ RepStep("insert", "sync") \/ RepStep("insert", "dlq")
    /\ UNCHANGED <<outboxVars, callerVars, brain, wal, pubVars, repSrc, repNew,
                   group, tdrVars, dlq, accepted, crashes>>

(* _sync_to_somabrain calls remember_text without the event's ts: the      *)
(* replay is accepted under a coord of its own.  An event with no text or  *)
(* no tenant is skipped, and counts as replicated.                         *)
RepAccept ==
    LET m == MemoryOf(repSrc)
        c == <<m, clock[m]>>
    IN  /\ \/ /\ RepStep("sync", "commit")
              /\ m \in Blank
              /\ UNCHANGED <<clock, repNew, outboxVars, accepted>>
           \/ /\ RepStep("sync", "hop")
              /\ m \notin Blank
              /\ clock[m] <= MaxStamp
              /\ clock' = [clock EXCEPT ![m] = @ + 1]
              /\ repNew' = c
              /\ DurableAccept(c)
           \/ /\ RepStep("sync", "dlq")
              /\ m \notin Blank
              /\ UNCHANGED <<clock, repNew, outboxVars, accepted>>
        /\ UNCHANGED <<caller, stamp, brain, wal, pubVars, repSrc, group,
                       tdrVars, dlq, crashes>>

RepHop ==
    /\ \/ /\ RepStep("hop", "complete")
          /\ brain' = brain \cup {MaterialKey(repNew)}
       \/ /\ RepStep("hop", "dlq")
          /\ \/ UNCHANGED brain
             \/ brain' = brain \cup {MaterialKey(repNew)}
    /\ UNCHANGED <<outboxVars, callerVars, wal, pubVars, repSrc, repNew, group,
                   tdrVars, dlq, accepted, crashes>>

RepComplete ==
    /\ RepStep("complete", "commit")
    /\ MarkPublished(repNew) \/ UNCHANGED outboxVars
    /\ UNCHANGED <<callerVars, brain, wal, pubVars, repSrc, repNew, group,
                   tdrVars, dlq, accepted, crashes>>

(* Mutant of RepDlqPublish: one try around both writes, so the insert is   *)
(* skipped when the publish fails.                                         *)
RepDlqOneTry ==
    /\ \/ RepStep("dlq", "dlqStore") /\ dlq' = dlq \cup {repSrc}
       \/ RepStep("dlq", "commit") /\ "dlqTopicDown" \in Faults /\ UNCHANGED dlq
    /\ UNCHANGED <<outboxVars, callerVars, brain, wal, pubVars, repSrc, repNew,
                   group, tdrVars, accepted, crashes>>

(* send_to_dlq, which swallows its own errors                              *)
RepDlqPublish ==
    /\ RepStep("dlq", "dlqStore")
    /\ \/ dlq' = dlq \cup {repSrc}
       \/ "dlqTopicDown" \in Faults /\ UNCHANGED dlq
    /\ UNCHANGED <<outboxVars, callerVars, brain, wal, pubVars, repSrc, repNew,
                   group, tdrVars, accepted, crashes>>

(* DLQStore.add, in a try of its own                                       *)
RepDlqStore ==
    /\ RepStep("dlqStore", "commit")
    /\ \/ dlq' = dlq \cup {repSrc}
       \/ "dlqStoreDown" \in Faults /\ UNCHANGED dlq
    /\ UNCHANGED <<outboxVars, callerVars, brain, wal, pubVars, repSrc, repNew,
                   group, tdrVars, accepted, crashes>>

RepCommit ==
    /\ RepStep("commit", "idle")
    /\ wal' = [wal EXCEPT ![repSrc] = @ - 1]
    /\ repSrc' = None
    /\ repNew' = None
    /\ group' = "committed"
    /\ UNCHANGED <<outboxVars, callerVars, brain, pubVars, tdrVars, dlq,
                   accepted, crashes>>

(* The uncommitted message is delivered again after the restart, unless    *)
(* the group never committed: then the restart begins at the end again.    *)
RepCrash ==
    /\ crashes < MaxCrashes
    /\ rep # "idle" \/ group = "reading"
    /\ rep' = "idle"
    /\ repSrc' = None
    /\ repNew' = None
    /\ group' = IF group = "reading" THEN "none" ELSE group
    /\ crashes' = crashes + 1
    /\ UNCHANGED <<outboxVars, callerVars, brain, wal, pubVars, tdrVars, dlq,
                   accepted>>

-----------------------------------------------------------------------------
(* drain_memory_wal_activity, run d (MemoryReplicationWorkflow, or         *)
(* ReplayRecoveryWorkflow through replay_unacked_outbox_activity)          *)

(* _claim_wal_rows only reads: nothing marks a row claimed, and            *)
(* next_retry_at is not looked at.                                         *)
TdrLoad(d) ==
    LET rows == {c \in Coord : status[c] \in Drainable} IN
    /\ tdrBatch[d] = {} /\ tdrSent[d] = None
    /\ rows # {}
    /\ tdrBatch' = [tdrBatch EXCEPT ![d] = rows]
    /\ UNCHANGED <<outboxVars, callerVars, brain, wal, pubVars, repVars,
                   tdrSent, dlq, accepted, crashes>>

TdrTake(d, c) ==
    /\ tdrSent[d] = None
    /\ c \in tdrBatch[d]
    /\ tdrBatch' = [tdrBatch EXCEPT ![d] = @ \ {c}]

(* Mutant of TdrPost: the `body is None` check is missing.                 *)
TdrPostAnything(d, c) ==
    /\ TdrTake(d, c)
    /\ brain' = brain \cup {MemKey(c)}
    /\ tdrSent' = [tdrSent EXCEPT ![d] = c]
    /\ UNCHANGED <<outboxVars, callerVars, wal, pubVars, repVars, dlq,
                   accepted, crashes>>

(* 2xx: the body's ok / durability fields are not read.                    *)
TdrPost(d, c) ==
    /\ MemoryOf(c) \notin Blank
    /\ TdrTake(d, c)
    /\ \/ brain' = brain \cup {MemKey(c)}
       \/ "soft2xx" \in Faults /\ UNCHANGED brain
    /\ tdrSent' = [tdrSent EXCEPT ![d] = c]
    /\ UNCHANGED <<outboxVars, callerVars, wal, pubVars, repVars, dlq,
                   accepted, crashes>>

TdrMark(d) ==
    /\ tdrSent[d] # None
    /\ MarkPublished(tdrSent[d])
    /\ tdrSent' = [tdrSent EXCEPT ![d] = None]
    /\ UNCHANGED <<callerVars, brain, wal, pubVars, repVars, tdrBatch, dlq,
                   accepted, crashes>>

(* Transport error, 429, 5xx or a permanent 4xx: _mark_row_failure makes a *)
(* coroutine that nothing awaits, so the row is left as it was.  A blank   *)
(* memory makes no request body: its row is skipped, and left too.         *)
TdrPostError(d, c) ==
    /\ TdrTake(d, c)
    /\ \/ UNCHANGED brain
       \/ MemoryOf(c) \notin Blank /\ brain' = brain \cup {MemKey(c)}
    /\ UNCHANGED <<outboxVars, callerVars, wal, pubVars, repVars, tdrSent, dlq,
                   accepted, crashes>>

TdrCrash(d) ==
    /\ crashes < MaxCrashes
    /\ tdrBatch[d] # {} \/ tdrSent[d] # None
    /\ crashes' = crashes + 1
    /\ tdrBatch' = [tdrBatch EXCEPT ![d] = {}]
    /\ tdrSent' = [tdrSent EXCEPT ![d] = None]
    /\ UNCHANGED <<outboxVars, callerVars, brain, wal, pubVars, repVars, dlq,
                   accepted>>

-----------------------------------------------------------------------------
Init ==
    /\ status = [c \in Coord |-> "absent"]
    /\ attempts = [c \in Coord |-> 0]
    /\ due = [c \in Coord |-> TRUE]
    /\ clock = [m \in Memories |-> 0]
    /\ caller = [m \in Memories |-> "idle"]
    /\ stamp = [m \in Memories |-> 0]
    /\ brain = {} /\ dlq = {}
    /\ wal = [c \in Coord |-> 0]
    /\ pubBatch = [p \in Publishers |-> {}]
    /\ pubSeen = [p \in Publishers |-> [c \in Coord |-> 0]]
    /\ pubSent = [p \in Publishers |-> None]
    /\ rep = "idle" /\ repSrc = None /\ repNew = None
    /\ group = IF "freshGroup" \in Faults THEN "none" ELSE "committed"
    /\ tdrBatch = [d \in Drains |-> {}]
    /\ tdrSent = [d \in Drains |-> None]
    /\ accepted = {}
    /\ crashes = 0

CallerNext(m) ==
    \/ Call(m) \/ AcceptOk(m) \/ AcceptError(m) \/ AcceptTimeout(m)
    \/ LateAccept(m) \/ Reaccept(m) \/ Hop(m) \/ Complete(m)

PubNext(p) ==
    \/ PubLoad(p) \/ PubMark(p)
    \/ \E c \in Coord : PubSend(p, c) \/ PubSendError(p, c)

RepNext ==
    \/ RepStart
    \/ \E c \in Coord : RepDeliver(c)
    \/ RepInsert \/ RepAccept \/ RepHop \/ RepComplete
    \/ RepDlqPublish \/ RepDlqStore \/ RepCommit

TdrNext(d) ==
    \/ TdrLoad(d) \/ TdrMark(d)
    \/ \E c \in Coord : TdrPost(d, c) \/ TdrPostError(d, c)

Crash ==
    \/ \E m \in Memories : CallerCrash(m)
    \/ \E p \in Publishers : PubCrash(p)
    \/ RepCrash
    \/ \E d \in Drains : TdrCrash(d)

Next ==
    \/ \E m \in Memories : CallerNext(m)
    \/ \E p \in Publishers : PubNext(p)
    \/ RepNext
    \/ \E d \in Drains : TdrNext(d)
    \/ \E c \in Coord : BackoffElapses(c) \/ CleanupOutbox(c)
    \/ Crash

Spec == Init /\ [][Next]_vars

(***************************************************************************)
(* What the replay path is granted: publish_outbox is started again and    *)
(* again (the soma-outbox-replay schedule is meant to do so), the          *)
(* replicator consumes, and time passes.  Nothing schedules                *)
(* drain_memory_wal_activity, and no outcome of a publish or of a hop is   *)
(* promised.                                                               *)
(***************************************************************************)
Fairness ==
    /\ \A p \in Publishers : WF_vars(PubNext(p))
    /\ WF_vars(RepNext)
    /\ \A c \in Coord : WF_vars(BackoffElapses(c))

FairSpec == Spec /\ Fairness

-----------------------------------------------------------------------------
(* Type correctness of every variable.                                     *)
TypeOK ==
    /\ status \in [Coord -> Status]
    /\ attempts \in [Coord -> 0..MaxAttempts]
    /\ due \in [Coord -> BOOLEAN]
    /\ clock \in [Memories -> 0..(MaxStamp + 1)]
    /\ caller \in [Memories -> CallerPc]
    /\ stamp \in [Memories -> 0..MaxStamp]
    /\ brain \subseteq Key
    /\ wal \in [Coord -> 0..MaxCopies]
    /\ pubBatch \in [Publishers -> SUBSET Coord]
    /\ pubSeen \in [Publishers -> [Coord -> 0..MaxAttempts]]
    /\ pubSent \in [Publishers -> Coord \cup {None}]
    /\ rep \in RepPc
    /\ repSrc \in Coord \cup {None}
    /\ repNew \in Coord \cup {None}
    /\ group \in {"none", "reading", "committed"}
    /\ tdrBatch \in [Drains -> SUBSET Coord]
    /\ tdrSent \in [Drains -> Coord \cup {None}]
    /\ dlq \subseteq Coord
    /\ accepted \subseteq Coord
    /\ crashes \in 0..MaxCrashes

InBrain(m) == \E k \in brain : MemoryOf(k[2]) = m
Durable(m) == InBrain(m) \/ \E c \in dlq : MemoryOf(c) = m
HandedOff(m) == Durable(m) \/ \E c \in Coord : MemoryOf(c) = m /\ wal[c] > 0
HasOpenRow(m) == \E c \in Coord : MemoryOf(c) = m /\ status[c] \in OpenStatus
AcceptedMemories == {MemoryOf(c) : c \in accepted}

(* The memories the replay path can replay at all: the replicator and the  *)
(* drain skip blank ones.                                                  *)
Replayable == Memories \ Blank

(* What the outbox promises of a memory: kept is an open row, delivered is *)
(* having been handed off.                                                 *)
Promise == INSTANCE AtLeastOnce WITH
               Event <- Replayable,
               accepted <- AcceptedMemories \cap Replayable,
               kept <- {m \in Replayable : HasOpenRow(m)},
               delivered <- {m \in Replayable : HandedOff(m)}

(* The point of T-6: once a write with a text and a tenant was accepted    *)
(* into the outbox it is never lost, whatever crashes, repeats or          *)
(* interleaves: it is in SomaBrain, in a dead-letter store, on memory.wal, *)
(* or still a row that is not closed.                                      *)
ZeroLoss ==
    \A m \in AcceptedMemories \cap Replayable : HandedOff(m) \/ HasOpenRow(m)

(* The write path does no more than AtLeastOnce allows: the last open row  *)
(* of a memory is closed only after the memory was handed off, whoever     *)
(* closes it, a hand-off is never undone, and no write is accepted without *)
(* a row.                                                                  *)
OutboxKeepsPromise == Promise!Spec

(* The replicator never moves past a WAL message whose memory is neither   *)
(* in SomaBrain nor dead-lettered, although _handle_wal swallows every     *)
(* error, one of the two dead-letter writes may fail and the process may   *)
(* stop between them; only an event without a text or a tenant is dropped. *)
NoSilentConsume ==
    [][\A c \in Coord :
          wal'[c] < wal[c] /\ MemoryOf(c) \in Replayable => Durable(MemoryOf(c))']_vars

(* Durable before hop: no record reaches SomaBrain, from a caller, a       *)
(* replay or the drain, unless the outbox row of its coord was there first.*)
DurableBeforeHop ==
    \A k \in brain : k[2] \in accepted

(* create_memory fails closed: a REST write that was answered with success *)
(* left an outbox row behind, even after the insert failed once.           *)
RestFailsClosed ==
    \A m \in RestMemories : caller[m] = "returned" => m \in AcceptedMemories

(* Neither replay path replays what is not a memory: a write with an empty *)
(* text or no tenant reaches SomaBrain through its caller's own hop or     *)
(* never, although its row is published, drained and marked like others.   *)
BlankIsNotReplayed ==
    \A k \in brain : MemoryOf(k[2]) \in Blank => k = MaterialKey(CallerCoord(MemoryOf(k[2])))

(* A dead row means the retry budget is spent: overlapping publish_outbox  *)
(* runs load one row and save stale snapshots of it, which may repeat an   *)
(* attempt but never buries a row early, and never counts past             *)
(* max_attempts.                                                           *)
DeadIsExhausted ==
    \A c \in Coord : status[c] = "dead" => attempts[c] = MaxAttempts

(* FanoutMemoryGateway.remember_text of a write whose hop failed: "the one *)
(* replay authority (memory WAL via outbox drain / memory-replicator)      *)
(* re-delivers until acked".  Every accepted memory is eventually settled: *)
(* in SomaBrain, in a dead-letter store, or a dead row for an operator.    *)
Settled(m) ==
    Durable(m) \/ \E c \in Coord : MemoryOf(c) = m /\ status[c] = "dead"
AcceptedIsSettled ==
    \A m \in Replayable : (m \in AcceptedMemories) ~> Settled(m)

=============================================================================
