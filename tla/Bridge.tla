------------------------------- MODULE Bridge -------------------------------
(***************************************************************************)
(* services/bridge_worker and the webhook of admin/bridges: one channel of *)
(* a messaging network (Telegram, WhatsApp), one chat on it, the worker    *)
(* that polls the channel and answers each message through the             *)
(* orchestrator, and the database.                                         *)
(*                                                                         *)
(* A channel is read in one of three ways.  "updates": Telegram getUpdates,*)
(* whose server forgets what is below the offset it is asked for; "drain": *)
(* the Baileys sidecar, whose GET /messages empties its queue; "rows":     *)
(* InboundMessage rows that a webhook has stored.  Messages are numbered   *)
(* from 1 in the order they were sent.                                     *)
(*                                                                         *)
(* The worker is one process and awaits each channel's messages in turn.   *)
(* The feature flags are environment variables of it, and are on.  A       *)
(* database call that raises has changed nothing.  _require_binding is a   *)
(* synchronous query in a coroutine: the model is of a deployment that     *)
(* sets DJANGO_ALLOW_ASYNC_UNSAFE.                                         *)
(***************************************************************************)
EXTENDS Naturals, Sequences, FiniteSets

CONSTANTS
    MaxMessages,        \* bound: messages the users send
    Rejected,           \* messages the allowlist or group policy refuses
    Hooks,              \* gateway replicas, each with a webhook request
    BatchLimit,         \* rows a poll of the database returns (50)
    MaxSendAttempts,    \* SA01_BRIDGE_MAX_SEND_ATTEMPTS
    MaxPollFailures,    \* MAX_CONSECUTIVE_FAILURES
    MaxFaults,          \* bound: calls that raise and crashes
    MaxOperatorOps      \* bound: start and stop calls of the bridge API

Message == 1..MaxMessages
Worker == "worker"      \* creator of the rows that no webhook stored

ASSUME BridgeAssumption ==
    /\ MaxMessages \in Nat
    /\ Rejected \subseteq Message
    /\ Worker \notin Hooks
    /\ BatchLimit \in Nat \ {0}
    /\ MaxSendAttempts \in Nat \ {0}
    /\ MaxPollFailures \in Nat \ {0}
    /\ MaxFaults \in Nat
    /\ MaxOperatorOps \in Nat

VARIABLES
    mode,       \* how the channel is read
    sent,       \* messages the users have sent
    next,       \* the network hands out messages from here on
    acked,      \* messages whose webhook request was answered 200
    hook,       \* per webhook request, the message it is about to store or 0
    status,     \* Channel.status
    rows,       \* InboundMessage rows by received_at: message and creator
    processed,  \* rows with a processed_at
    session,    \* a BridgeSession exists
    bound,      \* its context's conversation_id, 0 when there is none
    convs,      \* conversations created
    outbound    \* the OutboundMessage of each message's idempotency_key
VARIABLES
    pc,         \* where the worker is; "down": no runtime for the channel
    offset,     \* the driver's _offset
    pollFails,  \* rt.failures
    batch,      \* envelopes not yet dispatched, the current one first
    inbound,    \* inbound_id of the current dispatch
    conv,       \* its conversation_id
    attempts    \* of _deliver
VARIABLES
    raised,     \* messages of which a dispatch raised (history)
    turns,      \* conversations in which a turn ran (history)
    faults, ops \* bounded events so far

networkVars == <<sent, next, acked, hook>>
tableVars == <<status, rows, processed, session, bound, convs, outbound>>
workerVars == <<pc, offset, pollFails, batch, inbound, conv, attempts>>
historyVars == <<raised, turns>>
boundVars == <<faults, ops>>
vars == <<mode, networkVars, tableVars, workerVars, historyVars, boundVars>>

Mode == {"updates", "drain", "rows"}
ChannelStatus == {"active", "disabled", "error"}
OutStatus == {"none", "queued", "sent", "failed"}
DispatchStep == {"dispatch", "session", "inbound", "conversation", "bind",
                 "turn", "queue", "send", "markSent", "markFailed", "processed"}
NoRow == <<0, Worker>>
Row == Message \X (Hooks \cup {Worker})

Current == batch[1][1]          \* the message being dispatched
Prestored == batch[1][2] # Worker

Stored(m) == \E i \in 1..Len(rows) : rows[i][1] = m
Goto(from, to) == pc = from /\ pc' = to

Init ==
    /\ mode \in Mode
    /\ sent = 0 /\ next = 1 /\ acked = {}
    /\ hook = [h \in Hooks |-> 0]
    /\ status = "active"
    /\ rows = <<>> /\ processed = {}
    /\ session = FALSE /\ bound = 0 /\ convs = 0
    /\ outbound = [m \in Message |-> [status |-> "none", attempts |-> 0]]
    /\ pc = "down" /\ offset = 0 /\ pollFails = 0 /\ batch = <<>>
    /\ inbound = NoRow /\ conv = 0 /\ attempts = 0
    /\ raised = {} /\ turns = {}
    /\ faults = 0 /\ ops = 0

-----------------------------------------------------------------------------
(* The network, the webhook and the operator                               *)

UserSends ==
    /\ sent < MaxMessages
    /\ sent' = sent + 1
    /\ UNCHANGED <<mode, next, acked, hook, tableVars, workerVars, historyVars,
                   boundVars>>

(* handle_webhook up to _store_inbound's exists(): the network calls, and  *)
(* calls again until it gets an answer.                                    *)
WebhookCheck(h, m) ==
    /\ mode = "rows"
    /\ hook[h] = 0
    /\ m \in (1..sent) \ acked
    /\ IF Stored(m)
       THEN acked' = acked \cup {m} /\ UNCHANGED hook
       ELSE hook' = [hook EXCEPT ![h] = m] /\ UNCHANGED acked
    /\ UNCHANGED <<mode, sent, next, tableVars, workerVars, historyVars, boundVars>>

(* _store_inbound's create(), which no unique key guards; the answer may   *)
(* be lost.                                                                *)
WebhookStore(h) ==
    /\ hook[h] # 0
    /\ hook' = [hook EXCEPT ![h] = 0]
    /\ rows' = Append(rows, <<hook[h], h>>)
    /\ acked' \in {acked, acked \cup {hook[h]}}
    /\ UNCHANGED <<mode, sent, next, status, processed, session, bound, convs,
                   outbound, workerVars, historyVars, boundVars>>

Fault ==
    /\ faults < MaxFaults
    /\ faults' = faults + 1
    /\ UNCHANGED ops

(* The gateway's database fails: the request answers 500 and is repeated.  *)
WebhookRaises(h) ==
    /\ hook[h] # 0
    /\ hook' = [hook EXCEPT ![h] = 0]
    /\ Fault
    /\ UNCHANGED <<mode, sent, next, acked, tableVars, workerVars, historyVars>>

(* telegram_bridge.start and stop.                                         *)
Operate(s) ==
    /\ ops < MaxOperatorOps
    /\ status # s
    /\ status' = s
    /\ ops' = ops + 1
    /\ UNCHANGED <<mode, networkVars, rows, processed, session, bound, convs,
                   outbound, workerVars, historyVars, faults>>

-----------------------------------------------------------------------------
(* The worker's loop                                                       *)

(* Mutant of NoRuntime: the offset is persisted.                           *)
NoRuntimeOffsetKept ==
    /\ pc' = "down"
    /\ offset' = offset /\ pollFails' = 0
    /\ batch' = <<>> /\ inbound' = NoRow /\ conv' = 0 /\ attempts' = 0

(* What dies with a runtime: the driver, and with it the offset.           *)
NoRuntime ==
    /\ pc' = "down"
    /\ offset' = 0 /\ pollFails' = 0
    /\ batch' = <<>> /\ inbound' = NoRow /\ conv' = 0 /\ attempts' = 0

(* _refresh_channels and _ensure_runtime.                                  *)
StartRuntime ==
    /\ status = "active"
    /\ Goto("down", "idle")
    /\ UNCHANGED <<mode, networkVars, tableVars, offset, pollFails, batch,
                   inbound, conv, attempts, historyVars, boundVars>>

(* driver.start() raises; _mark_channel_error may fail as well.            *)
StartFails ==
    /\ status = "active"
    /\ pc = "down"
    /\ Fault
    /\ status' \in {"error", status}
    /\ UNCHANGED <<mode, networkVars, rows, processed, session, bound, convs,
                   outbound, workerVars, historyVars>>

(* _refresh_channels drops the runtime of a channel that is not active.    *)
DropRuntime ==
    /\ pc = "idle"
    /\ status # "active"
    /\ NoRuntime
    /\ UNCHANGED <<mode, networkVars, tableVars, historyVars, boundVars>>

(* The process dies: SIGKILL, an eviction.                                 *)
Crash ==
    /\ pc # "down"
    /\ Fault
    /\ NoRuntime
    /\ UNCHANGED <<mode, networkVars, tableVars, historyVars>>

Envelopes(from, to) == [i \in 1..(to + 1 - from) |-> <<from + i - 1, Worker>>]
Polled(b) ==
    /\ batch' = b
    /\ pc' = IF b = <<>> THEN "idle" ELSE "dispatch"
    /\ pollFails' = 0
    /\ UNCHANGED <<inbound, conv, attempts>>

Larger(a, b) == IF a > b THEN a ELSE b

(* _poll_updates: asking for an offset confirms what is below it; the next *)
(* offset is past the batch before any of it is dispatched.                *)
PollUpdates ==
    /\ pc = "idle" /\ mode = "updates"
    /\ next' = Larger(next, offset)
    /\ Polled(Envelopes(next', sent))
    /\ offset' = IF sent < next' THEN offset ELSE sent + 1
    /\ UNCHANGED <<mode, sent, acked, hook, tableVars, historyVars, boundVars>>

(* BaileysSidecarDriver.poll_inbound: a destructive read.                  *)
PollDrain ==
    /\ pc = "idle" /\ mode = "drain"
    /\ next' = sent + 1
    /\ Polled(Envelopes(next, sent))
    /\ UNCHANGED <<mode, sent, acked, hook, tableVars, offset, historyVars,
                   boundVars>>

(* The HTTP answer of either is lost: an empty batch, not a failure.       *)
PollAnswerLost ==
    /\ pc = "idle" /\ mode # "rows"
    /\ Fault
    /\ next' = IF mode = "drain" THEN sent + 1 ELSE Larger(next, offset)
    /\ Polled(<<>>)
    /\ UNCHANGED <<mode, sent, acked, hook, tableVars, offset, historyVars>>

Unprocessed == {i \in 1..Len(rows) : rows[i] \notin processed}

(* pick lists, in order, the n oldest unprocessed rows: one is left out    *)
(* only when the batch is full, and is younger than those in it.           *)
Oldest(pick, n) ==
    /\ \A i, j \in 1..n : i < j => pick[i] < pick[j]
    /\ \A k \in Unprocessed :
          \/ \E i \in 1..n : pick[i] = k
          \/ n = BatchLimit /\ \A i \in 1..n : pick[i] < k

(* _poll_db and CloudApiDriver.poll_inbound: the oldest unprocessed rows.  *)
PollRows ==
    /\ pc = "idle" /\ mode = "rows"
    /\ \E n \in 0..BatchLimit : \E pick \in [1..n -> Unprocessed] :
          /\ Oldest(pick, n)
          /\ Polled([i \in 1..n |-> rows[pick[i]]])
    /\ UNCHANGED <<mode, networkVars, tableVars, offset, historyVars, boundVars>>

(* The query raises: MaxPollFailures of them in a row park the channel.    *)
PollRaises ==
    /\ pc = "idle" /\ mode = "rows"
    /\ Fault
    /\ IF pollFails + 1 < MaxPollFailures
       THEN /\ pollFails' = pollFails + 1
            /\ UNCHANGED <<status, pc, offset, batch, inbound, conv, attempts>>
       ELSE /\ status' \in {"error", status}
            /\ NoRuntime
    /\ UNCHANGED <<mode, networkVars, rows, processed, session, bound, convs,
                   outbound, historyVars>>

-----------------------------------------------------------------------------
(* BridgeDispatcher.dispatch                                               *)

NextMessage ==
    /\ batch' = Tail(batch)
    /\ pc' = IF Len(batch) > 1 THEN "dispatch" ELSE "idle"
    /\ inbound' = NoRow /\ conv' = 0 /\ attempts' = 0
    /\ UNCHANGED <<offset, pollFails>>

(* The fail-closed binding, then evaluate_inbound: a refused message only  *)
(* has its pre-stored row marked.                                          *)
Evaluate ==
    /\ pc = "dispatch"
    /\ IF Current \in Rejected
       THEN /\ NextMessage
            /\ processed' = IF Prestored THEN processed \cup {batch[1]}
                                         ELSE processed
       ELSE /\ pc' = "session"
            /\ UNCHANGED <<processed, offset, pollFails, batch, inbound, conv,
                           attempts>>
    /\ UNCHANGED <<mode, networkVars, status, rows, session, bound, convs,
                   outbound, historyVars, boundVars>>

GetOrCreateSession ==
    /\ Goto("session", "inbound")
    /\ session' = TRUE
    /\ UNCHANGED <<mode, networkVars, status, rows, processed, bound, convs,
                   outbound, offset, pollFails, batch, inbound, conv, attempts,
                   historyVars, boundVars>>

FirstRow(m) == rows[CHOOSE i \in 1..Len(rows) : rows[i][1] = m]

(* _persist_inbound: the pre-stored row, the row of an earlier delivery of *)
(* the same external_id, or a new one.                                     *)
PersistInbound ==
    /\ Goto("inbound", "conversation")
    /\ IF Prestored \/ Stored(Current)
       THEN /\ inbound' = IF Prestored THEN batch[1] ELSE FirstRow(Current)
            /\ UNCHANGED rows
       ELSE /\ inbound' = batch[1]
            /\ rows' = Append(rows, batch[1])
    /\ UNCHANGED <<mode, networkVars, status, processed, session, bound, convs,
                   outbound, offset, pollFails, batch, conv, attempts,
                   historyVars, boundVars>>

(* Mutant of CreateConversation: a new one for every message.              *)
CreateConversationAlways ==
    /\ Goto("conversation", "bind")
    /\ conv' = convs + 1 /\ convs' = convs + 1
    /\ UNCHANGED <<mode, networkVars, status, rows, processed, session, bound,
                   outbound, offset, pollFails, batch, inbound, attempts,
                   historyVars, boundVars>>

(* _ensure_conversation: the one in the session's context, or a new one    *)
(* that the next step stores there.                                        *)
CreateConversation ==
    /\ \/ Goto("conversation", "turn") /\ bound # 0
          /\ conv' = bound /\ UNCHANGED convs
       \/ Goto("conversation", "bind") /\ bound = 0
          /\ conv' = convs + 1 /\ convs' = convs + 1
    /\ UNCHANGED <<mode, networkVars, status, rows, processed, session, bound,
                   outbound, offset, pollFails, batch, inbound, attempts,
                   historyVars, boundVars>>

BindConversation ==
    /\ Goto("bind", "turn")
    /\ bound' = conv
    /\ UNCHANGED <<mode, networkVars, status, rows, processed, session, convs,
                   outbound, offset, pollFails, batch, inbound, conv, attempts,
                   historyVars, boundVars>>

(* _run_turn: process_turn answers whatever happens.                       *)
RunTurn ==
    /\ Goto("turn", "queue")
    /\ turns' = turns \cup {conv}
    /\ UNCHANGED <<mode, networkVars, tableVars, offset, pollFails, batch,
                   inbound, conv, attempts, raised, boundVars>>

(* _queue_outbound, and the load at the head of _deliver, which looks at   *)
(* the row's attempts and not at its status.                               *)
QueueOutbound ==
    LET row == outbound[Current] IN
    /\ pc = "queue"
    /\ outbound' = IF row.status = "none"
                   THEN [outbound EXCEPT ![Current].status = "queued"]
                   ELSE outbound
    /\ attempts' = row.attempts
    /\ pc' = IF row.attempts < MaxSendAttempts THEN "send" ELSE "markFailed"
    /\ UNCHANGED <<mode, networkVars, status, rows, processed, session, bound,
                   convs, offset, pollFails, batch, inbound, conv, historyVars,
                   boundVars>>

(* Mutant of AfterFailedAttempt: one attempt too many.                     *)
AfterFailedAttemptLate(n) ==
    IF n <= MaxSendAttempts THEN "send" ELSE "markFailed"

AfterFailedAttempt(n) == IF n < MaxSendAttempts THEN "send" ELSE "markFailed"

(* One round of _deliver's loop: the driver's send succeeds, fails for     *)
(* good, or fails in a way worth a retry.                                  *)
SendOutbound ==
    /\ pc = "send"
    /\ attempts' = attempts + 1
    /\ pc' \in {"markSent", "markFailed", AfterFailedAttempt(attempts + 1)}
    /\ UNCHANGED <<mode, networkVars, tableVars, offset, pollFails, batch,
                   inbound, conv, historyVars, boundVars>>

Mark(s) ==
    outbound' = [outbound EXCEPT ![Current] = [status |-> s, attempts |-> attempts]]

MarkSent ==
    /\ Goto("markSent", "processed")
    /\ Mark("sent")
    /\ UNCHANGED <<mode, networkVars, status, rows, processed, session, bound,
                   convs, offset, pollFails, batch, inbound, conv, attempts,
                   historyVars, boundVars>>

(* _mark_sent raises inside the loop's try: the reply is sent again.       *)
MarkSentRaises ==
    /\ pc = "markSent"
    /\ pc' = AfterFailedAttempt(attempts)
    /\ Fault
    /\ UNCHANGED <<mode, networkVars, tableVars, offset, pollFails, batch,
                   inbound, conv, attempts, historyVars>>

(* _mark_failed; the push to the DLQ after it never raises.                *)
MarkFailed ==
    /\ Goto("markFailed", "processed")
    /\ Mark("failed")
    /\ UNCHANGED <<mode, networkVars, status, rows, processed, session, bound,
                   convs, offset, pollFails, batch, inbound, conv, attempts,
                   historyVars, boundVars>>

MarkProcessed ==
    /\ pc = "processed"
    /\ processed' = processed \cup {inbound}
    /\ NextMessage
    /\ UNCHANGED <<mode, networkVars, status, rows, session, bound, convs,
                   outbound, historyVars, boundVars>>

(* Mutant of DispatchRaises: a message that raised is marked processed.    *)
DispatchRaisesMarks ==
    /\ pc \in DispatchStep \ {"turn", "send", "markSent"}
    /\ Fault
    /\ raised' = raised \cup {Current}
    /\ processed' = IF Prestored THEN processed \cup {batch[1]} ELSE processed
    /\ NextMessage
    /\ UNCHANGED <<mode, networkVars, status, rows, session, bound, convs,
                   outbound, turns>>

(* A missing capsule, or any database call of a dispatch outside the send  *)
(* loop, raises: _poll_channel logs it and goes on to the next message.    *)
DispatchRaises ==
    /\ pc \in DispatchStep \ {"turn", "send", "markSent"}
    /\ Fault
    /\ raised' = raised \cup {Current}
    /\ NextMessage
    /\ UNCHANGED <<mode, networkVars, tableVars, turns>>

-----------------------------------------------------------------------------
Dispatch ==
    \/ Evaluate \/ GetOrCreateSession \/ PersistInbound
    \/ CreateConversation \/ BindConversation \/ RunTurn
    \/ QueueOutbound \/ SendOutbound \/ MarkSent \/ MarkFailed \/ MarkProcessed

Loop == StartRuntime \/ DropRuntime \/ PollUpdates \/ PollDrain \/ PollRows

Network ==
    \/ UserSends
    \/ \E h \in Hooks : \/ \E m \in Message : WebhookCheck(h, m)
                        \/ WebhookStore(h) \/ WebhookRaises(h)

Failure ==
    \/ StartFails \/ PollAnswerLost \/ PollRaises \/ MarkSentRaises
    \/ DispatchRaises \/ Crash

Next == Dispatch \/ Loop \/ Network \/ Failure
        \/ \E s \in {"active", "disabled"} : Operate(s)

Spec == Init /\ [][Next]_vars

-----------------------------------------------------------------------------
(* Type correctness of every variable.                                     *)
TypeOK ==
    /\ mode \in Mode
    /\ sent \in 0..MaxMessages
    /\ next \in 1..(MaxMessages + 1)
    /\ acked \subseteq Message
    /\ hook \in [Hooks -> 0..MaxMessages]
    /\ status \in ChannelStatus
    /\ rows \in Seq(Row)
    /\ processed \subseteq Row
    /\ session \in BOOLEAN
    /\ bound \in Nat /\ convs \in Nat
    /\ outbound \in [Message -> [status : OutStatus, attempts : 0..MaxSendAttempts]]
    /\ pc \in DispatchStep \cup {"down", "idle"}
    /\ offset \in 0..(MaxMessages + 1)
    /\ pollFails \in 0..MaxPollFailures
    /\ batch \in Seq(Row)
    /\ inbound \in Row \cup {NoRow}
    /\ conv \in Nat
    /\ attempts \in 0..MaxSendAttempts
    /\ raised \subseteq Message
    /\ turns \subseteq Nat
    /\ faults \in 0..MaxFaults
    /\ ops \in 0..MaxOperatorOps

Settled(m) == outbound[m].status \in {"sent", "failed"}

(* A message Telegram no longer returns was refused, answered, given up as *)
(* failed, or its dispatch raised: although the offset is past a batch     *)
(* before its dispatch, no crash and no restart of the runtime skips one.  *)
ForgottenIsSettled ==
    mode = "updates" =>
        \A m \in 1..(next - 1) : m \in Rejected \cup raised \/ Settled(m)

(* A row a webhook stored is marked processed only when its message was    *)
(* refused or its reply was sent or failed: "a crash mid-turn never        *)
(* silently drops inbound traffic".                                        *)
ProcessedIsSettled ==
    \A r \in processed : r[1] \in Rejected \/ Settled(r[1])

(* A chat has one conversation: every turn ran in the one the session is   *)
(* bound to, though creating and binding it are two calls and messages are *)
(* delivered again after failures between them.                            *)
OneConversation == turns \subseteq {bound}

-----------------------------------------------------------------------------
(* What the repository says of this component and the code does not do.    *)

(* OutboundMessage.idempotency_key: "Idempotency key to prevent            *)
(* double-send": a reply marked sent is not up for sending.                *)
NoDoubleSend == pc = "send" => outbound[Current].status # "sent"

=============================================================================
