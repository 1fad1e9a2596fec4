# SomaAgent01: a verification project in TLA+

SomaAgent01 is an agent platform: a Django / ASGI gateway, a chat orchestrator,
and a set of worker services that talk through Kafka, Redis, PostgreSQL and
Temporal, with SomaBrain as the remote memory system. Most of its 980 files are
HTTP views, adapters, UI and prompt assembly. What can go wrong in an order that
nobody wrote a test for is in the parts that promise something across several
steps: the memory outbox and its replays, the Kafka consumer loop, the tool
executor and the delegation worker built on it, the circuit breaker around
SomaBrain, the messaging bridges, the turns of a chat, and the standalone login.
Those are modelled here.

Contents: [inventory](#inventory) · [modules](#modules-and-the-code-they-model) ·
[runs](#runs) · [fairness](#fairness) · [proofs](#proofs) ·
[disagreements](#disagreements-between-the-code-and-what-it-says) ·
[not modelled](#what-is-not-modelled-and-what-the-models-leave-out) · [plan](#plan)

Paths are relative to the repository root.

## Inventory

| Component | State it keeps | Operations | Talks to | What is hard |
|---|---|---|---|---|
| Memory outbox (`admin/core/models/zdl.py`, `services/common/memory_gateway.py`) | `outbox_messages` rows: status, attempts, next_retry_at | `durable_accept_memory`, `mark_published`, `mark_failed`, `cleanup_outbox` | the database; SomaBrain through the adapter and the breaker | whole-row saves of stale snapshots; accept / hop / complete are three steps; time-outs that do not stop the thread they give up on |
| `publish_outbox` (`admin/core/management/commands/publish_outbox.py`) | a batch of row snapshots | load due rows, publish, mark | Kafka | rows are not claimed; a publish that raised may have arrived |
| Memory replicator (`services/memory_replicator/`) | the group offset, `memory_replica` rows, dead letters | handle one WAL event: insert, `remember_text`, dead-letter | Kafka, SomaBrain | swallows every error, then the offset is committed; its replay is itself an accepted write |
| Temporal activities (`services/conversation_worker/zero_loss_activities.py`) | a batch of claimed rows | `drain_memory_wal_activity`, `replay_unacked_outbox_activity` | SomaBrain over HTTP | a second drain over the same rows |
| Circuit breaker (`services/common/circuit_breaker.py`) | state, failure count, last failure time | `call`, `reset`, `force_open`, reads | the function it wraps | the lock is released across the call |
| Kafka event bus (`services/common/event_bus.py`) | group offset, position, failure count | `consume`, `publish` | handlers | crash or error between handler and commit; poison messages; start position |
| Tool executor (`services/tool_executor/`) | the request in hand, the in-flight gauge, requeue store | `RequestHandler.handle`, `ResultPublisher.publish` | event bus, policy, registry, sandbox, Redis, session store | every await can fail with earlier effects already done |
| Durable publisher, requeue store (`services/common/publisher.py`, `requeue_store.py`) | local outbox, Redis keys | `publish`, `add`, `remove`, `list` | Kafka, Redis | a timed-out publish that arrived; two Redis calls |
| Delegation (`services/delegation_gateway/`, `services/delegation_worker/`, `services/common/delegation_store.py`) | task rows | create, publish, record, callback | durable publisher, event bus | both sides insert the task; callbacks save whole rows they read before |
| Messaging bridges (`services/bridge_worker/`, `admin/bridges/`) | channel status, polling offset, inbound and outbound rows, session bindings | webhook, poll, dedupe, turn, send with retries, start and stop | Telegram, WhatsApp, the orchestrator | the offset moves before the dispatch; two replicas store one message; a resend after a crash |
| Chat turns (`services/gateway/consumers/chat.py`, `admin/core/chat_orchestrator.py`, `admin/core/tool_calling/`, `admin/chat/api/chat.py`) | sockets with unread frames, message rows, `message_count` | frames, one turn, tool rounds, approval, delete | the database, models, tools, policy, memory | several tabs on one conversation; every await can raise; a handler that waits for a frame only it could read |
| Local login and sessions (`admin/auth/api.py`, `services/common/identity/`, `admin/common/auth.py`) | the identity's failure ledger, audit rows, session rows | login, present a session, offboard, provision | the database | the ledger is read, decided on and written in three statements |
| Conversation worker | one turn | consume an event, run a turn | event bus | failed turns are committed |
| Idempotency records (`admin/core/models/zdl.py`) | key, result, expiry | `check_and_set`, `cleanup_expired` | the database | insert race against clean-up |
| Sensor outbox (`admin/core/sensors/`) | rows | record, mark synced | nothing drains it | |
| Temporal worker and schedules (`services/conversation_worker/temporal_worker.py`) | schedules | start `publish_outbox`, workflows | Temporal | |
| Job planner, execution tracker | job rows | claim, complete | the database | read-modify-write |
| Capsule lifecycle, rate limiting, health monitors, policy clients, voice and multimodal | rows, Redis windows, last samples | certify, count, poll, ask | database, Redis, OPA, SpiceDB | |

### What makes the parts correct

* **Outbox**: a write that was accepted is never lost, is not hopped before it
  is durable, what is not a memory is not replayed, and the retry budget of a row
  means what it says. (That a write is settled in the end is false as configured.)
* **Event bus**: the group's offset never skips a message, and the price of a
  crash is bounded: one message is handled twice.
* **Tool executor**: a request the group moves past was answered.
* **Breaker**: an outage trips it, stragglers do not confuse it, and it recovers.
* **Delegation**: an accepted task's event reaches the topic or stays in the
  buffer, and overlapping drains bury no event before its attempts are used up.
* **Bridges**: what the network or the table no longer offers was settled, and a
  chat has one conversation.
* **Chat**: an admitted turn leaves its input in the transcript, the count
  follows the rows, the model gets a result for each call it made, no tool runs
  that a human should have approved, and turns end.
* **Login**: the lock is earned by wrong passwords only, a session has its audit
  row, a refused session stays dead, and every session dies.

`PROJECT.json` lists the hazards one by one, at their lines, with the properties
that watch them.

## Modules and the code they model

```
MemoryOutbox ──< MemoryOutboxProofs
CircuitBreaker ──< CircuitBreakerProofs
EventBus ──< EventBusProofs
   ├── INSTANCE in ToolExecutor ──< ToolExecutorProofs (INSTANCE of EventBusProofs)
   └── INSTANCE in Delegation ──< DelegationProofs (INSTANCE of EventBusProofs)
AtLeastOnce (abstract) ── INSTANCE in MemoryOutbox, INSTANCE in Delegation
Bridge ──< BridgeProofs
ChatTurn ──< ChatTurnProofs
LocalLogin ──< LocalLoginProofs
MC<Module>: the constants TLC needs; one .cfg per run
```

A definition whose comment begins with *Mutant* is the neighbouring definition as
a plausible bug would have it; only the mutants of `PROJECT.json` use it.

### MemoryOutbox

One write of a memory by each caller, chat (`_remember_via_gateway`) or REST
(`create_memory`), and everything that later replays it.

* A *coord* is a memory with the time stamp its key material was built from:
  `remember_text` stamps a write when no `ts` is given. `status`, `attempts`,
  `due` are the columns of the row `mem:{coord}`; `due` says that
  `next_retry_at` is null or past.
* `Call … Complete` are the awaits of `remember_text` in order: stamp, insert
  the row, hop, complete. The insert of a chat write can outlive the
  `wait_for` around it (`AcceptTimeout`, `LateAccept`): the thread is not
  stopped. A REST write whose insert fails is accepted once more under a new
  stamp (`Reaccept`) and only a second failure reaches the client.
* `PubLoad, PubSend, PubMark, PubSendError` are `publish_outbox._drain`.
  A run holds snapshots: `pubSeen` is the `attempts` column as it was loaded,
  and `MarkFailed` writes the whole snapshot back, as `save()` without
  `update_fields` does. `MarkPublished` only touches its own columns, as
  `save(update_fields=…)` does.
* `RepStart … RepCommit` are `_handle_wal` inside the consumer loop, one
  action per await, ending in the commit; an error anywhere goes to the two
  dead-letter writes, `RepDlqPublish` and `RepDlqStore`, each of which swallows its
  own failure. The consumer loop is reduced to start / deliver / commit / crash
  here. `group` is its offset: without one (the fault `freshGroup`) a start begins
  at the end of the topic and passes over what is there.
* `Blank` are the writes with an empty text or no tenant: `_sync_to_somabrain`
  returns early and the offset is committed, the drain makes no body and leaves
  the row. The outbox promises nothing of them beyond that; the promises below
  are about the others (`Replayable`). A text of white space only is a memory to the
  replicator and not to the drain, which the model covers as a failing post.
* `TdrLoad, TdrPost, TdrMark, TdrPostError` are `drain_memory_wal_activity`.
  `_mark_row_failure` leaves the row alone, because its coroutine is not awaited.
* SomaBrain (`brain`), the topic (`wal`) and the dead letters (`dlq`) are
  external: sets of placement keys, copies per coord, coords. A hop that fails
  may or may not have been kept.
* `Faults` switches on outcomes the environment may produce. Those that make
  loss possible are off where ZeroLoss is checked: `soft2xx`, `freshGroup`, and
  `dlqTopicDown` together with `dlqStoreDown` (one of them is on).
* `Promise` is AtLeastOnce with a memory for an event: it is kept while it has an
  open row and delivered once it is on `memory.wal`, in SomaBrain or
  dead-lettered. `OutboxKeepsPromise` says that callers, drains and replicator
  together implement it.

### CircuitBreaker

One breaker and the coroutines that share it. `Admit` is the first locked
section of `call()`; `Return`, `Raise` and `Cancel` are the ways the wrapped
function can end, with the second locked section; between them anything may
happen. `Observed` is the `state` property, which moves OPEN to HALF_OPEN only
when someone looks. `Swallowing` names coroutines whose function never raises, as
`SomaBrainAdapter.remember` does: its failed write is a `Return`. `streak` counts
the failures raised since the last success. The failure count is saturated at
the threshold (nothing distinguishes larger values) and the clock is the age of
the last failure up to the timeout.

### EventBus

`KafkaEventBus.consume` with one partition. Messages are offsets; `committed`
is the group's offset (0: none, and then the consumer starts at the end of the
log, aiokafka's `latest`, since the code does not set `auto_offset_reset`),
`position` the running consumer's. A failure anywhere leaves `_consume_once`
and counts towards `max_consecutive_failures`; the count is reset by nothing but
a new process. `CommitRaises` covers a commit whose outcome is unknown.
`delivered` and `handled` are history.

### ToolExecutor

The loop of EventBus, taken by `INSTANCE`, around `RequestHandler.handle`: one
action per await that can fail, with `step` as program counter. `Deliver`,
`HandlerReturns`, `HandlerRaises` join the handler to the loop; `StepRaises` is a
failure of Redis, the session store, or Kafka and the local outbox together.
Audit, UI events and feedback are wrapped in `try` blocks of their own in the
code and cannot stop the handler, so they are left out. What the choke, OPA, the
registry and the tools answer is a free choice. `StoreAppends` says whether the
session store has the `append_event` that `publish` awaits; the one the service
is built with does not (see *Disagreements*), and the run is of one that has: the
safety of the handler matters once that is repaired, and nothing is claimed of
progress.

### Delegation and AtLeastOnce

A task from the request that creates it to the callbacks that report it.

* `req` is the program counter of `create_delegation_task`: insert the row, hand
  the event to `DurablePublisher.publish`, answer. `Publish`, `PublishFails`,
  `EnqueueLocal`, `AnswerRequest`, `RequestFails` are its steps. A publish that
  failed or timed out may still reach the broker: `flying` counts such sends and
  `Arrives` appends them later.
* `outbox` is the event's `OutboxMessage` row; `DrainLoad`, `DrainSends`,
  `DrainMarks`, `DrainFails`, `DrainCrashes` are runs of `publish_outbox` that
  overlap. A run holds the rows as it loaded them (`batch`), and a failed send
  saves the whole snapshot: it can open again what another run has closed, count
  back, and send what is on the topic. `tried` counts the failed sends.
* The worker is the loop of EventBus, by `INSTANCE` on this topic. `HandleEvent` is
  its handler, the insert of the task. The gateway has inserted it before it
  published, so that the unique key makes the handler raise.
* `CallbackReads` and `CallbackSaves` are the two halves of `update`: read the row,
  then save what was read with the new status, and the result where one is given.
* `AtLeastOnce` is what both durable buffers promise, in four actions: keep,
  deliver, accept (only what is delivered or kept, the acceptance itself
  included), release (only what is delivered). `PublisherKeepsPromise` says that
  the gateway, buffer and drain implement it.

### Bridge

One channel, one chat on it, the worker and the database. The channel is read in
one of three modes: `updates` (Telegram `getUpdates`: the server forgets what is
below the offset it is asked for), `drain` (the Baileys sidecar: reading empties
its queue), `rows` (`InboundMessage` rows a webhook stored).

* `WebhookCheck`, `WebhookStore` are the two statements of the webhook's
  dedupe, in each gateway replica; `Operate` is the start and stop of the bridge
  API; `StartRuntime`, `DropRuntime` the worker's `_refresh_channels`, and
  `PollRaises` the counting of failures that puts a channel in error.
* A poll fills `batch`, in mode `rows` with the oldest unprocessed rows (`Oldest`
  says which these are); `NextMessage` drops its head when that is dispatched.
  `Evaluate`, `GetOrCreateSession`, `PersistInbound`, `CreateConversation`,
  `BindConversation`, `RunTurn`, `QueueOutbound`, `SendOutbound`, `MarkSent`,
  `MarkFailed`, `MarkProcessed` are the awaits of `dispatch` and `_deliver` in
  order. `DispatchRaises` is an exception in any of them, which the poll loop
  logs and goes on from; `Crash` ends the process between any two.
* The offset lives in the driver and is lost with it; `raised` and `turns` are
  history.

### ChatTurn

Turns on one conversation, run by sockets and requests at once.

* A socket receives its next frame only when the handler of the last one has
  returned: `frames` is what a client has sent and nobody has read. `HandleChat`
  starts a turn, `HandleControl` sets or clears `paused` between turns.
* `LoadConversation`, `GatePasses`, `TurnDegrades`, `PersistUserTranscript`,
  `BumpMessageCount`, `GatherContext`, `ModelAnswers`, `ModelCallsTools`,
  `PersistAssistant`, `FinishTurn` are the awaits of a turn in order, and
  `DenyTool`, `RefuseTool`, `ExecuteTool` the three fates of a tool call in
  `run_tool_loop`. `Decide` is the gate of a call: the tool's policy, but for
  `memory_forget` with a query of three characters or more, whose
  `approval_required` becomes `auto_execute` (`tool_calling.py:280`). A call that
  asks for a human is always refused, since the approval frame cannot be read
  while the turn waits for it. `TurnRaises` is an exception at any of the awaits,
  with what the code does about it there: a time-out leaves the socket open, any
  other closes it.
* `DeleteMessages` and `DeleteConversation` are the two statements of
  `delete_conversation`; `erased` remembers the rows.
* `round` counts the iterations of the tool loop, `owed` the calls in the messages
  that have no result yet.

### LocalLogin

Login attempts on one identity, the sessions they open, and their use.

* `LockWindowFor`, `IsLocked`, `RecordFailure`, `Outcomes`, `CompleteLogin`,
  `SessionDecision` are the pure rules of `services/common/identity`.
* `StartAttempt … OpenSession` are the statements of `_login_local`: load the row,
  compare, write the audit row, write the ledger back, open the session. Between
  any two another attempt may do the same; an attempt writes the ledger it
  computed from what it read (`att[a].ledger`).
* `PresentSession`, `LoadIdentity`, `RevokeSession`, `TouchSession` are those of
  `_decode_session`; `Offboard` and `ProvisionIdentity` are the operator's.
* `wrong` and `refused` are history: wrong passwords compared, sessions refused.

## Runs

| Run | Instance | Shows |
|---|---|---|
| `outbox_loss` | one REST memory, a publisher, a WAL drain, the replicator, two stamps, two attempts, one crash, failing inserts, a failing dead-letter topic; 2.7 million states | `ZeroLoss`, `DurableBeforeHop`, `RestFailsClosed`, `OutboxKeepsPromise`, `NoSilentConsume` |
| `outbox_faults` | a chat memory and a blank REST one, every fault, a group without an offset, one crash; 1.1 million states | `TypeOK`, `BlankIsNotReplayed` |
| `outbox_unsettled` | one chat memory, publisher and replicator, fairness; `DJANGO_ALLOW_ASYNC_UNSAFE` not set | the first disagreement below |
| `breaker_trips` | one coroutine that swallows and two that raise, threshold 2, timeout 2, two operator calls, fairness | `TripsAfterThreshold`, `QuietBeforeProbe`, `StragglerNeverCloses`, `OpenEnds` |
| `bus_commits` | four messages, the third one poison, three failures, fairness | `RedeliveryWindow`, `CommitsOnlyHandled`, `EventuallyHandled` |
| `tools_answers` | an invalid, two good and a poison request, two failures; 2.1 million states | `TypeOK`, `HandledIsAnswered`, `BlockedIsListed`, `CommitsOnlyAnswered` |
| `delegation_events` | one task, two overlapping drains, a callback, two attempts, two worker failures, a topic of three, four faults; 980 thousand states | `OnlyErrorsStrand`, `BuriedIsTried`, `NothingHandled`, `PublisherKeepsPromise` |
| `bridge_answers` | two messages, one of them refused, two webhook replicas, all three modes, batch 1, two send attempts, two poll failures, two faults, one operator call; 700 thousand states | `TypeOK`, `ForgottenIsSettled`, `ProcessedIsSettled`, `OneConversation` |
| `chat_turns` | a tab and a request, the erasing tool with and without a query, one tool round, two calls, two turns, two frames, one fault, fairness; 550 thousand states | `CountFollowsRows`, `TranscriptKeepsTurns`, `EffectsAreTraceable`, `ToolCallsAnswered`, `TurnEnds` |
| `login_sessions` | two attempts, two requests, a hard lock at two failures, time-outs of 1, a clock to 3, fairness; 785 thousand states | `TypeOK`, `LockIsEarned`, `SessionIsAudited`, `RefusedStaysDead`, `SessionsDie` |
| `bridge_resend`, `chat_paused` | small | the other two disagreements below, each as a counterexample |

Why the bounds are enough to be interesting:

* Outbox: memories do not interact (no action reads another memory's rows), so
  one is enough, and a blank one beside it where that is the question; with two
  stamps it is written, replayed and the replay replayed; two attempts give a
  failed row between pending and dead; one crash hits every step. One publisher
  and the WAL drain overlap on the rows. Two publishers with stale snapshots of
  each other are `delegation_events`, on the same rows and commands, and in the
  theorems, which hold for any set of publishers and drains (`DeadIsExhausted` is
  only proved: with one publisher it would show nothing).
* Breaker: three coroutines give a straggler of each kind next to a probe; a
  threshold of two separates "one failure" from "the last one".
* Bus: the poison message sits behind one message that commits and one that
  needs the commit; a failure limit of three leaves retries on both sides.
* Tools: good requests between the invalid one, which gives the group its offset,
  and the poison one, where it stops: a restart has a request to skip.
* Delegation: tasks share nothing but the topic's order, so one is enough; two
  drains load the same row before, between and after each other's sends; four
  faults use up the retries of the row (two), lose an acknowledgement and fail the
  worker once; a topic of three holds the event, a late copy and a repeat. A
  callback changes the row the worker's insert meets.
* Bridge: the refused message and the accepted one share batch, session and
  offset in both orders of arrival; a batch of one makes a second poll; two send
  attempts separate "tried" from "given up"; two faults put a crash behind an
  exception.
* Chat: a tab and a request overlap at every pair of steps; one round and the
  final one, with two calls in it, leave a call owed while another is answered; the
  one tool asks for approval, or not, by its arguments.
* Login: two attempts reach the hard lock together or one after the other, from
  stale ledgers; the clock runs past both windows and both time-outs.

Every property has a mutant in `PROJECT.json`: the definition as a plausible bug
would have it, under which the same run reports the property violated.

`CHECK_DEADLOCK FALSE` is set where the modelled system really stops, with all
callers returned or the bounds used up: outbox, bridge, chat, delegation and
login. The breaker, the bus and the tool executor never do, and are checked for
deadlock.

## Fairness

* **MemoryOutbox.** Only `outbox_unsettled` uses it, and grants what the code does
  not have: `publish_outbox` is started again and again, although the
  `soma-outbox-replay` schedule that should do so is never created
  (`services/conversation_worker/temporal_worker.py:434` passes parameters that
  `ScheduleIntervalSpec` and `ScheduleSpec` do not have); the replicator consumes;
  `next_retry_at` passes. `AcceptedIsSettled` fails all the same.
  `drain_memory_wal_activity` has no fairness: nothing schedules it.
* **CircuitBreaker.** Time passes; a call in flight ends, because the adapter's
  HTTP client has a timeout (`somabrain_adapter.py:207-218`); some caller comes
  back. No outcome is promised.
* **EventBus.** Strong fairness for the steps of the loop: none of them fails
  every time it is tried. The back-off sleep ends. `Restart` is not fair: no file
  of the repository starts a loop that gave up again, so `EventuallyHandled`
  excepts a loop that ended.
* **ToolExecutor, Delegation, Bridge.** None, and no liveness is checked. As built,
  every result of a tool raises for want of `append_event`, every drain and every
  dispatch of a bridge raises on a synchronous query in a coroutine, and no
  fairness the code justifies would make their messages arrive. A channel without a
  capsule raises for ever even where such queries are allowed.
* **ChatTurn.** Every await of a turn ends, in an answer, an exception or its
  timeout, and a frame that can be received is. A paused turn has no step, which
  is why `TurnEnds` is about turns of sockets that are not paused.
* **LocalLogin.** Time passes. Nobody has to log in or to present a session.

## Proofs

All of the following are for every value of the constants that the `ASSUME`s
admit: any set of memories, publishers, drains, coroutines, tasks, callbacks,
webhook replicas, tabs, requests, attempts, any log, any bound.

**Outbox types and budget** (`MemoryOutboxProofs`). `TypeInv` = `TypeOK` ∧
`BudgetOK` ∧ `RepOK` ∧ `DeadIsExhausted`. The type invariant alone is not
inductive: `attempts` stays within `max_attempts` only because a row that can be
loaded, and a snapshot that is held, are below the budget (`BudgetOK`), and the
topic's counter only because the replicator's message is still on it (`RepOK`).
Theorems: `OutboxTypeOK`, `OutboxDeadIsExhausted`, for any number of runs that save
stale snapshots.

**Zero loss** (`MemoryOutboxProofs`), assuming `Benign`: SomaBrain keeps what
it answers 2xx to, the consumer group has an offset, and the dead-letter topic and
the dead-letter table are not both down (either may be). Blank writes are excepted.
A row is closed only by someone who knows that the memory is elsewhere.
`LossInv` says so for every such holder: a published row's memory was handed off
(`PublishedOK`), and so was that of a publisher with a broker ack (`PubSentOK`); a
drain with a 2xx (`TdrSentOK`), a caller with an ok ack (`CallerOK`) and the
replicator from `complete` on (`RepPlacedOK`) have it placed for good. SomaBrain
and the dead letters only grow; a topic copy goes only when the replicator has
placed its memory. One lemma per actor shows its steps keep `LossInv`.
Theorems: `OutboxZeroLoss`, `OutboxNoSilentConsume`.

**Durable before hop** (`MemoryOutboxProofs`), whatever the faults. A record is
placed by whoever holds a coord: a caller past its insert, a run with a batch or
a row in hand, the replicator past its own acceptance. `HopInv` says of each of
them, and of the rows and the topic they take it from, that the coord is in
`accepted`; that set only grows. Theorems: `OutboxDurableBeforeHop`,
`OutboxRestFailsClosed`, and with the same argument `OutboxBlankIsNotReplayed`.

**The outbox refines AtLeastOnce** (`MemoryOutboxProofs`), assuming `Benign` and
from `LossInv`. A step of any actor changes one memory in at most one of two ways:
it opens or closes rows, or it hands the memory off (`RowStep`, `HandOffStep`).
Closing the last open row is a release, which `LossInv` allows only after the
hand-off; the replicator's acceptance of its own replay and a caller's are
acceptances that keep; a topic copy that goes leaves a memory that is placed, so
that nothing is undelivered. Theorem: `OutboxPromiseKept`.

**Breaker** (`CircuitBreakerProofs`). `BreakerInv` = `TypeOK`,
`ClosedBelowThreshold` (CLOSED means a count below the threshold),
`FailuresCounted` (while CLOSED, the streak of raised failures is at most the
count: successes end the streak but only decrement the count) and
`QuietBeforeProbe`. Theorems: `BreakerTypeOK`, `BreakerTrips`, `BreakerQuiet`,
`BreakerStragglers`.

**Event bus** (`EventBusProofs`). `BusInv` adds to the types where the running
consumer stands relative to the group's offset (`InStep`: at it, or one past it
with a message in hand) and, before the first commit, that what was handled is
behind the end of the log, where `latest` starts (`Behind`). Theorems:
`BusTypeOK`, `BusRedeliveryWindow`, `BusCommitsOnlyHandled`.

**Tool executor** (`ToolExecutorProofs`). `LoopInv` ∧ `HandlerInv` ties
the handler's program counter to the loop (`Handling`), says what has been done
for the current request at each step (`Reached`) and bounds the gauge by the
failures of the process (`Gauge`). Theorems: `ExecutorTypeOK`,
`ExecutorHandledIsAnswered`, `ExecutorBlockedIsListed`. The service runs the loop of
EventBus (lemma `ExecutorLoop`), so that `BusCommitsOnlyHandled` holds of it; with
`HandledIsAnswered` that gives `ExecutorCommitsOnlyAnswered`: once the group has an
offset, the broker moves it past a request only when that was answered or was not
valid.

**Delegation** (`DelegationProofs`). The worker runs the loop of EventBus (lemma
`StepBus`), which makes `BusInv` of an instance of EventBusProofs part of `TypeInv`,
next to the types and to `TriesLeft`: a row that can be drained, and a snapshot
that is held, have a try left. For the publisher, `Settled` says that a request
about to be answered has its event on the topic or in the buffer, that a published
row's event was appended, and that so was the one a drain is about to mark; each
step of each of the overlapping drains then is a step of AtLeastOnce or stutters
(`DelegationPublisherKeepsPromise`). `Stranded` follows a task from its insert
(`DelegationOnlyErrorsStrand`). `Counts` says that neither a row nor any snapshot of
it counts more attempts than sends of it failed; stale saves only count back, so
that a buried row was tried as often as its limit says
(`DelegationBuriedIsTried`). `RowFirst` says that an event that is anywhere has its
task's row, from which the worker's insert always raises:
`DelegationNothingHandled`, no event is ever handled and no offset of the worker
ever committed. `DelegationTypeOK` besides.

**Bridge** (`BridgeProofs`). A row is marked, and an offset given to Telegram, many
steps after the one that settled the message. `BInv` therefore says what holds at
each step of a dispatch: there is an envelope (`Envelope`), the row to be marked is
one of its message (`RowKnown`), its reply is settled and a send has an attempt
left (`ReplyKnown`), and the session has no conversation while one is being
created, and the turn's while one runs (`ConversationKnown`); and where a message
below the driver's offset is: handled, or still in the batch (`Fetched`). Between
batches there is no batch, so that asking for the offset forgets only what is
handled; a crash takes the offset with the batch. Every step is of one of six
kinds (`StepKinds`), each with a lemma on what it leaves alone. Theorems:
`BridgeTypeOK`, `BridgeForgottenIsSettled`, `BridgeProcessedIsSettled`,
`BridgeOneConversation`.

**Chat turns** (`ChatTurnProofs`). `TypeInv` = `TypeOK` ∧ `LoopInv` ∧ `BusyInv`:
the calls of an answer are exactly the ones that wait for a result, and only while
they are being decided. `TurnInv` says which rows of a turn exist at each step its
actor can be at (`Placed`); turns do not disturb each other because no two actors
have the same one (`OwnTurns`). `CountInv` is the equation between the row set, the
counter, the actors about to update it and the rows whose update raised, by
finite cardinalities. `EffectsAreTraceable` excepts what `Decide` exempts, for any
set of erasing tools. Theorems: `ChatTypeOK`, `ChatToolCallsAnswered`,
`ChatTranscriptKeepsTurns`, `ChatEffectsAreTraceable`, `ChatCountFollowsRows`.

**Local login** (`LocalLoginProofs`). `TypeInv` = `TypeOK` ∧ `CountInv` ∧ `HeldInv`:
the count stops at the hard lock because an attempt whose comparison failed holds
a ledger that was not locked. The ledger is read, decided on and written back by
interleaved attempts, so `LedgerInv` says of every copy an attempt carries what
`LockIsEarned` says of the row, and of the copy with one more failure once a
comparison failed. `SessionInv` follows an attempt from its audit row to its
session and keeps that session from being opened twice. Theorems:
`LoginTypeOK`, `LoginLockIsEarned`, `LoginSessionIsAudited`,
`LoginRefusedStaysDead`.

Only model-checked: the four liveness properties that hold (`OpenEnds`,
`EventuallyHandled`, `TurnEnds`, `SessionsDie`). They rest on fairness and
`ENABLED`, which are beyond this prover. Every invariant, action property and
refinement that a passing run checks is a theorem as well.

## Disagreements between the code and what it says

Shown by a run (`PROJECT.json`, findings):

1. `outbox_unsettled`: `publish_outbox` queries the ORM synchronously in a coroutine
   (`publish_outbox.py:54`), which Django refuses unless `DJANGO_ALLOW_ASYNC_UNSAFE`
   is set, and nothing sets it: every run raises, and a write whose hop failed stays
   pending for ever, although `memory_gateway.py:163` says that the replay authority
   "re-delivers until acked". The runs about safety take the setting as made
   (`AsyncUnsafeAllowed`), so that the drains run at all.
2. `bridge_resend`: `_deliver` sends a reply whatever the status of its row is
   (`services/bridge_worker/dispatcher.py:383`). Two gateway replicas that store one
   webhook message twice make two dispatches, and the second sends a reply that is
   marked sent, although `admin/bridges/models.py:308` says that the key is there
   "to prevent double-send". (Where the synchronous queries of the dispatch are
   allowed; elsewhere no reply is sent at all.)
3. `chat_paused`: a paused turn polls the flag inside the handler of its frame
   (`services/gateway/consumers/chat.py:721`), and the consumer is handed the next
   frame only when that handler has returned: the `chat.resume` is never read, and
   the turn hangs, although line 719 says "resume flushes the backlog naturally".

Met while modelling, kept in the models as the code has them, without a run.

Memory outbox:

* A completed row can be opened again by a `publish_outbox` run that saves the
  snapshot it loaded before (`zdl.py:102`), although `memory_gateway.py:162` says
  such a record is never replayed.
* Overlapping runs of `publish_outbox` send a row twice with no failure, since
  nothing claims it; `zdl.py:28` says "Guarantees exactly-once delivery", and
  `publish_outbox.py:9` that it is safe to run twice.
* The replicator's group has no offset until its first commit, and a consumer
  without one starts at the end of `memory.wal` (`event_bus.py:193`): memories
  published before it first ran, whose rows are closed, are passed over. With the
  fault `freshGroup` ZeroLoss fails.
* A write with an empty text or no tenant is accepted and answered with success;
  its event is skipped and committed (`memory_replicator/main.py:140`), and the WAL
  drain selects its row again and again.
* With the dead-letter topic and table down at once, the replicator's offset is
  committed past a memory that is nowhere (`memory_replicator/main.py:115`).
* The drain places a replay under `mem:{coord}`, the gateway under the key
  material, and the replicator replays without the event's `ts`: one memory can
  become several SomaBrain records, which `zero_loss_activities.py:150` says
  cannot happen.
* The drain closes a row on any 2xx without reading the body
  (`zero_loss_activities.py:218`), while `somabrain_adapter.py:326` says never to.
  With the fault `soft2xx` ZeroLoss fails.
* `_mark_row_failure` (`zero_loss_activities.py:143`) makes a coroutine nobody
  awaits: a permanent 4xx is not terminal, contrary to its line 134.
* After `max_attempts` a row is dead and no replay selects it, while
  `memory_gateway.py:164` says "re-delivers until acked".
* `chat_orchestrator.py:1525` says the durable record is pending after a failure;
  it is not when the insert was what failed.

Breaker, bus, tools and delegation:

* Failed memory writes are successes to the breaker, because the adapter returns
  them: an outage that only writes see never opens it (`memory_gateway.py:191`).
* `circuit_breaker.py:29` says HALF_OPEN allows a single request; `call()` rejects
  only while OPEN.
* Before the group's first commit, a message whose handler raised is skipped by the
  restarted consumer (`event_bus.py:193`); `event_bus.py:246` speaks of consecutive
  failures, and the count survives successes.
* The tool executor's session store has no `append_event` (`result_publisher.py:59`),
  so that no result is published by the service as it is built.
* The in-flight gauge is not counted down when a failed tool's answer cannot be
  published (`request_handler.py:449`); the proof bounds the leak by the failures
  of the process.
* Tool results are captured as memories of kind `tool_result`
  (`result_publisher.py:255`), which `MemoryWrite` refuses; the error is logged.
  `validate_tool_result` cannot fail: `tool_result` is not among the schemas.
* `iterate_topic`, `RequeueStore.list` and `RequeueStore.remove` have no callers,
  and a stop request is only looked at after a message.
* The delegation worker inserts a task the gateway has inserted: every event
  raises, and the loop gives up after its limit
  (`services/delegation_worker/main.py:78`; `DelegationNothingHandled`). A request that failed after its
  insert cannot be repeated with its id.
* Two callbacks for one task that overlap overwrite each other's result
  (`delegation_store.py:104` saves the row it read).

Bridges:

* `_refresh_channels` keeps an existing driver, though its comment says that a
  changed configuration rebuilds it.
* Fifty rows whose dispatch always raises are what every `_poll_db` returns, and
  newer rows wait behind them. In drain mode a crash loses the batch that was read.
* A row that was sent with its last attempt and is dispatched again is overwritten
  `failed` when the second send fails.

Chat:

* `memory_forget` with a query of three characters or more runs without approval
  (`tool_calling.py:280`, asserted by `test_tool_policy_choke.py:188`), while
  `default_tools.py:62` says that erasure "is destructive and must not auto-run".
* Approval frames, nudges and stops are read only after the turn they are for: the
  approval gate always waits for its 120 s and denies.
* The prompt holds the current user message twice, once from the transcript.
* `WEBSOCKET_CONNECTIONS` is decremented for connections that were refused before
  they were counted.
* An assistant row can be inserted after `delete_conversation`, which is to
  "Hard-delete a conversation and its messages".

Login:

* `admin/common/auth.py:429` says that a failed `last_seen` write must not turn a
  good credential into a denial, and the save is not guarded.
* The ledger is written back from a snapshot, so that concurrent wrong passwords
  can be counted once. The theorem is about the other direction: no failure is
  made up.

Parts that are not modelled:

* `IdempotencyRecord.check_and_set` has no callers. The job planner's claims raise
  `AttributeError` (`__import__("django.utils.timezone").now`). The conversation
  worker's session repository has no `append_event`.
* HealthMonitor registers no checkers for the services it calls critical. The
  voice consumer stays "speaking" after a missing key. A multimodal plan run with
  `parallel=True` does not look at its dependencies. `RedisSessionStore.update_activity`
  gets and then sets.

## What is not modelled, and what the models leave out

Left out of the modelled parts:

* Payload contents, tenants, metrics, tracing, and audit where no decision rests on
  it; Kafka partitions beyond one (each partition is an independent loop) and
  group rebalancing (external).
* `outbox_messages` rows of topics that neither the memory path nor delegation
  writes; the recall path of the gateway (no state of its own); SomaBrain itself;
  sleep consolidation and the promotion audit, which only call it.
* Producer start-up and health check of the event bus.
* The tools, the sandbox's process handling, and MCP.
* Bridges: pairing, media downloads, the channel administration views.
* Chat: prompt assembly, model selection, learning calls, conversation listing.
  The memory write of a turn is MemoryOutbox's subject.
* Login: MFA, Keycloak tokens, API keys, impersonation; a session keeps the pair of
  time-outs it was opened with, and one pair is modelled.

Not modelled as a whole, with the reason:

* **Conversation worker**: every event ends in the same logged failure, since
  `ProcessMessageUseCase` first calls an `append_event` its repository lacks.
* **Idempotency records** and **capsule lifecycle**: nothing but tests calls them,
  so that there are no interleavings of this program to check.
* **Job planner, execution tracker**: claim and complete raise before they save.
* **Sensor outbox**: single-statement inserts that nothing drains.
* **Rate limiting**: one Lua script, which Redis runs atomically.
* **Health and degradation monitors, policy clients**: what they answer is a free
  choice in ToolExecutor and ChatTurn; the rules live in rego and SpiceDB.
* **Temporal**: its schedules are never created (`temporal_worker.py:399`, `434`);
  a start of a drain is an action that may happen at any time. The engine's
  guarantees are external.
* **Voice and multimodal**: media sent to providers, one socket or one plan at a
  time, and the plans come from the job planner.
* **UI, HTTP views, LLM adapters, migrations, infrastructure**: most of the
  repository's lines; input and output without a protocol of their own.

## Plan

1. **Done**: MemoryOutbox, CircuitBreaker, EventBus, ToolExecutor, Delegation with
   AtLeastOnce, Bridge, ChatTurn, LocalLogin, with the theorems above.
2. **More of login**: MFA challenges, API keys, the second pair of time-outs.
3. **More of the bridges**: pairing codes, and the channel administration next to
   a running worker.
4. **Conversation worker, job planner, idempotency records**, once the code that
   calls them runs.
