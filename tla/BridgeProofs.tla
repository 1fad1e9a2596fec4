---------------------------- MODULE BridgeProofs ----------------------------
(***************************************************************************)
(* Proofs about Bridge, for any number of messages, webhook replicas, rows *)
(* in a batch, send attempts and failures, in each of the three modes.     *)
(*                                                                         *)
(* None of the properties is inductive.  A row is marked processed, and an *)
(* offset is given to Telegram, long after the step that settled the       *)
(* message, so BInv says what the worker knows at each step of a dispatch  *)
(* (Envelope, RowKnown, ReplyKnown, ConversationKnown) and where a message *)
(* below the offset is while it is not handled: in the batch (Fetched).    *)
(***************************************************************************)
EXTENDS Bridge, TLAPS

(* A message that was refused, answered or given up, or whose dispatch     *)
(* raised.                                                                 *)
Handled(m) == m \in Rejected \cup raised \/ Settled(m)

(* The worker has an envelope in its hands exactly while it dispatches.    *)
Envelope == pc \in DispatchStep <=> batch # <<>>

(* From _persist_inbound on the row to be marked is one of the message.    *)
Persisted == {"conversation", "bind", "turn", "queue", "send", "markSent",
              "markFailed", "processed"}
RowKnown == pc \in Persisted => inbound \in Row /\ inbound[1] = Current

(* The reply is settled before the row is marked, and a round of the send  *)
(* loop starts only with an attempt left.                                  *)
ReplyKnown ==
    /\ pc = "processed" => Settled(Current)
    /\ pc = "send" => attempts < MaxSendAttempts

(* A conversation is created only while the session has none, and a turn   *)
(* runs in the one of the session.                                         *)
ConversationKnown ==
    /\ pc = "bind" => bound = 0 /\ conv # 0
    /\ pc = "turn" => bound # 0 /\ conv = bound
    /\ bound = 0 => turns = {}
    /\ OneConversation

(* Neither position is past the messages sent, and a message below the     *)
(* driver's offset is handled or still in the batch.                       *)
Fetched ==
    /\ next <= sent + 1
    /\ offset <= sent + 1
    /\ mode = "updates" =>
         \A m \in 1..(offset - 1) :
            Handled(m) \/ \E i \in 1..Len(batch) : batch[i][1] = m

BInv ==
    /\ TypeOK /\ Envelope /\ RowKnown /\ ReplyKnown /\ ConversationKnown
    /\ Fetched /\ ForgottenIsSettled /\ ProcessedIsSettled

USE BridgeAssumption

-----------------------------------------------------------------------------
(* The batch                                                               *)

(* A sequence of rows is empty when its length is 0.                       *)
LEMMA EmptyIsLengthZero ==
    ASSUME NEW s \in Seq(Row)
    PROVE  s # <<>> <=> Len(s) > 0
OBVIOUS

(* The current envelope is a row, of a message.                            *)
LEMMA CurrentRow ==
    ASSUME TypeOK, batch # <<>>
    PROVE  /\ Len(batch) \in Nat \ {0}
           /\ batch[1] \in Row
           /\ Current \in Message
<1>1. batch \in Seq(Row) /\ batch # <<>>
  BY DEF TypeOK
<1>2. Len(batch) \in Nat \ {0} /\ batch[1] \in Row
  BY <1>1
<1> QED
  BY <1>2 DEF Current, Row

(* NextMessage drops the current envelope and keeps the others in order.   *)
LEMMA TailOfBatch ==
    ASSUME TypeOK, batch # <<>>
    PROVE  /\ Tail(batch) \in Seq(Row)
           /\ Len(Tail(batch)) = Len(batch) - 1
           /\ \A i \in 2..Len(batch) : Tail(batch)[i - 1] = batch[i]
           /\ Tail(batch) # <<>> <=> Len(batch) > 1
<1>1. batch \in Seq(Row) /\ batch # <<>>
  BY DEF TypeOK
<1>2. /\ Tail(batch) \in Seq(Row)
      /\ Len(Tail(batch)) = Len(batch) - 1
      /\ Len(batch) \in Nat
  BY <1>1
<1>3. ASSUME NEW i \in 2..Len(batch)
      PROVE  Tail(batch)[i - 1] = batch[i]
  <2>1. \A j \in 1..(Len(batch) - 1) : Tail(batch)[j] = batch[j + 1]
    BY <1>1
  <2>2. i - 1 \in 1..(Len(batch) - 1) /\ (i - 1) + 1 = i
    BY <1>2
  <2> QED
    BY <2>1, <2>2
<1>4. Tail(batch) # <<>> <=> Len(Tail(batch)) > 0
  BY <1>2, EmptyIsLengthZero
<1> QED
  BY <1>2, <1>3, <1>4

(* The envelopes of a poll are those of the messages of an interval.       *)
LEMMA EnvelopesOf ==
    ASSUME NEW from \in Nat \ {0}, NEW to \in 0..MaxMessages, from <= to + 1
    PROVE  /\ Envelopes(from, to) \in Seq(Row)
           /\ Len(Envelopes(from, to)) = to + 1 - from
           /\ \A m \in from..to :
                 \E i \in 1..Len(Envelopes(from, to)) :
                    Envelopes(from, to)[i][1] = m
<1> DEFINE n == to + 1 - from
           e == [i \in 1..n |-> <<from + i - 1, Worker>>]
<1>1. n \in Nat
  OBVIOUS
<1>2. ASSUME NEW i \in 1..n
      PROVE  <<from + i - 1, Worker>> \in Row
  <2>1. from + i - 1 \in 1..MaxMessages
    OBVIOUS
  <2> QED
    BY <2>1 DEF Row, Message
<1>3. e \in [1..n -> Row]
  BY <1>2
<1>4. e \in Seq(Row) /\ Len(e) = n
  <2> HIDE DEF n
  <2> QED
    BY <1>1, <1>3
<1>5. ASSUME NEW m \in from..to
      PROVE  m + 1 - from \in 1..n /\ e[m + 1 - from][1] = m
  <2>1. m + 1 - from \in 1..n
    OBVIOUS
  <2>2. e[m + 1 - from] = <<from + (m + 1 - from) - 1, Worker>>
    BY <2>1
  <2> QED
    BY <2>1, <2>2
<1>6. Envelopes(from, to) = e
  BY DEF Envelopes
<1> QED
  BY <1>4, <1>5, <1>6

(* So are the rows of a poll of the database.                              *)
LEMMA RowsOf ==
    ASSUME TypeOK, NEW n \in Nat, NEW pick \in [1..n -> Unprocessed]
    PROVE  [i \in 1..n |-> rows[pick[i]]] \in Seq(Row)
<1>1. rows \in Seq(Row)
  BY DEF TypeOK
<1>2. ASSUME NEW i \in 1..n
      PROVE  rows[pick[i]] \in Row
  BY <1>1, <1>2 DEF Unprocessed
<1> QED
  BY <1>2

(* The row found for a message that is stored is one of it.                *)
LEMMA FirstRowOf ==
    ASSUME TypeOK, NEW m \in Message, Stored(m)
    PROVE  FirstRow(m) \in Row /\ FirstRow(m)[1] = m
<1>1. rows \in Seq(Row)
  BY DEF TypeOK
<1> DEFINE k == CHOOSE i \in 1..Len(rows) : rows[i][1] = m
<1>2. k \in 1..Len(rows) /\ rows[k][1] = m
  BY DEF Stored
<1> HIDE DEF k
<1>3. rows[k] \in Row
  BY <1>1, <1>2
<1> QED
  BY <1>2, <1>3 DEF FirstRow, k

-----------------------------------------------------------------------------
(* Types                                                                   *)

(* The types hold initially.                                               *)
LEMMA InitType == Init => TypeOK
<1> SUFFICES ASSUME Init PROVE TypeOK
  OBVIOUS
<1>1. outbound \in [Message -> [status : OutStatus, attempts : 0..MaxSendAttempts]]
  <2>1. [status |-> "none", attempts |-> 0]
          \in [status : OutStatus, attempts : 0..MaxSendAttempts]
    BY DEF OutStatus
  <2> QED
    BY <2>1 DEF Init
<1>2. hook \in [Hooks -> 0..MaxMessages]
  BY DEF Init
<1>3. rows \in Seq(Row) /\ batch \in Seq(Row)
  BY DEF Init
<1>4. session \in BOOLEAN
  BY DEF Init
<1>5. /\ mode \in Mode /\ status \in ChannelStatus
      /\ pc \in DispatchStep \cup {"down", "idle"}
      /\ inbound \in Row \cup {NoRow}
  BY DEF Init, ChannelStatus
<1>6. /\ sent \in 0..MaxMessages /\ next \in 1..(MaxMessages + 1)
      /\ acked \subseteq Message /\ processed \subseteq Row
      /\ bound \in Nat /\ convs \in Nat /\ conv \in Nat
      /\ offset \in 0..(MaxMessages + 1) /\ pollFails \in 0..MaxPollFailures
      /\ attempts \in 0..MaxSendAttempts
      /\ raised \subseteq Message /\ turns \subseteq Nat
      /\ faults \in 0..MaxFaults /\ ops \in 0..MaxOperatorOps
  BY DEF Init
<1> QED
  BY <1>1, <1>2, <1>3, <1>4, <1>5, <1>6 DEF TypeOK

(* The two ways a dispatch or a runtime ends keep the worker's types.      *)
WorkerType ==
    /\ pc \in DispatchStep \cup {"down", "idle"}
    /\ offset \in 0..(MaxMessages + 1)
    /\ pollFails \in 0..MaxPollFailures
    /\ batch \in Seq(Row)
    /\ inbound \in Row \cup {NoRow}
    /\ conv \in Nat
    /\ attempts \in 0..MaxSendAttempts

(* A runtime that is dropped leaves the worker in its types.               *)
LEMMA NoRuntimeType == ASSUME NoRuntime PROVE WorkerType'
BY DEF NoRuntime, WorkerType

(* So does the end of a dispatch.                                          *)
LEMMA NextMessageType ==
    ASSUME TypeOK, batch # <<>>, NextMessage
    PROVE  WorkerType'
<1>1. Tail(batch) \in Seq(Row)
  BY TailOfBatch
<1> QED
  BY <1>1 DEF NextMessage, WorkerType, TypeOK, DispatchStep

(* So does a poll.                                                         *)
LEMMA PolledType ==
    ASSUME TypeOK, NEW b \in Seq(Row), Polled(b), offset' \in 0..(MaxMessages + 1)
    PROVE  WorkerType'
BY DEF Polled, WorkerType, TypeOK, DispatchStep

(* Every step keeps the types.                                             *)
LEMMA StepType ==
    ASSUME TypeOK, Envelope, RowKnown, ReplyKnown, Fetched, [Next]_vars
    PROVE  TypeOK'
<1> USE DEF networkVars, tableVars, workerVars, historyVars, boundVars
<1>0. CASE UNCHANGED vars
  BY <1>0 DEF TypeOK, vars
<1>1. CASE UserSends
  BY <1>1 DEF TypeOK, UserSends
<1>2. CASE \E h \in Hooks : \E m \in Message : WebhookCheck(h, m)
  <2>1. PICK h \in Hooks, m \in Message : WebhookCheck(h, m)
    BY <1>2
  <2>2. hook' \in [Hooks -> 0..MaxMessages] /\ acked' \subseteq Message
    <3>1. m \in 0..MaxMessages
      BY DEF Message
    <3>2. CASE Stored(m)
      BY <2>1, <3>2 DEF WebhookCheck, TypeOK
    <3>3. CASE ~Stored(m)
      <4>1. hook' = [hook EXCEPT ![h] = m] /\ acked' = acked
        BY <2>1, <3>3 DEF WebhookCheck
      <4>2. hook \in [Hooks -> 0..MaxMessages] /\ acked \subseteq Message
        BY DEF TypeOK
      <4> QED
        BY <3>1, <4>1, <4>2
    <3> QED
      BY <3>2, <3>3
  <2> QED
    BY <2>1, <2>2 DEF WebhookCheck, TypeOK
<1>3. CASE \E h \in Hooks : WebhookStore(h)
  <2>1. PICK h \in Hooks : WebhookStore(h)
    BY <1>3
  <2>2. hook[h] \in Message
    BY <2>1 DEF WebhookStore, TypeOK, Message
  <2>3. <<hook[h], h>> \in Row
    BY <2>2 DEF Row
  <2>4. rows' \in Seq(Row)
    BY <2>1, <2>3 DEF WebhookStore, TypeOK
  <2>5. acked' \subseteq Message /\ hook' \in [Hooks -> 0..MaxMessages]
    BY <2>1, <2>2 DEF WebhookStore, TypeOK
  <2> QED
    BY <2>1, <2>4, <2>5 DEF WebhookStore, TypeOK
<1>4. CASE \E h \in Hooks : WebhookRaises(h)
  BY <1>4 DEF TypeOK, WebhookRaises, Fault
<1>5. CASE \E s \in {"active", "disabled"} : Operate(s)
  BY <1>5 DEF TypeOK, Operate, ChannelStatus
<1>6. CASE StartRuntime
  BY <1>6 DEF TypeOK, StartRuntime, Goto
<1>7. CASE StartFails
  BY <1>7 DEF TypeOK, StartFails, Fault, ChannelStatus
<1>8. CASE DropRuntime
  <2>1. WorkerType'
    BY <1>8, NoRuntimeType DEF DropRuntime
  <2> QED
    BY <1>8, <2>1 DEF DropRuntime, WorkerType, TypeOK
<1>9. CASE Crash
  <2>1. WorkerType'
    BY <1>9, NoRuntimeType DEF Crash
  <2> QED
    BY <1>9, <2>1 DEF Crash, WorkerType, TypeOK, Fault
<1>10. CASE PollUpdates
  <2>1. next' \in 1..(MaxMessages + 1) /\ next' <= sent + 1
    BY <1>10 DEF PollUpdates, Larger, TypeOK, Fetched
  <2>2. Envelopes(next', sent) \in Seq(Row)
    <3>1. PICK k \in Nat \ {0} : k = next'
      BY <2>1
    <3> QED
      BY <2>1, <3>1, EnvelopesOf DEF TypeOK
  <2>3. offset' \in 0..(MaxMessages + 1)
    BY <1>10 DEF PollUpdates, TypeOK
  <2>4. WorkerType'
    BY <1>10, <2>2, <2>3, PolledType DEF PollUpdates
  <2> QED
    BY <1>10, <2>1, <2>4 DEF PollUpdates, WorkerType, TypeOK
<1>11. CASE PollDrain
  <2>1. Envelopes(next, sent) \in Seq(Row)
    <3>1. next \in Nat \ {0} /\ sent \in 0..MaxMessages /\ next <= sent + 1
      BY DEF TypeOK, Fetched
    <3> QED
      BY <3>1, EnvelopesOf
  <2>2. WorkerType'
    BY <1>11, <2>1, PolledType DEF PollDrain, TypeOK
  <2> QED
    BY <1>11, <2>2 DEF PollDrain, WorkerType, TypeOK
<1>12. CASE PollAnswerLost
  <2>1. next' \in 1..(MaxMessages + 1)
    BY <1>12 DEF PollAnswerLost, Larger, TypeOK
  <2>2. <<>> \in Seq(Row) /\ Polled(<<>>) /\ offset' \in 0..(MaxMessages + 1)
    BY <1>12 DEF PollAnswerLost, TypeOK
  <2>3. WorkerType'
    BY <2>2, PolledType
  <2> QED
    BY <1>12, <2>1, <2>3 DEF PollAnswerLost, Fault, WorkerType, TypeOK
<1>13. CASE PollRows
  <2>1. PICK n \in 0..BatchLimit :
             \E pick \in [1..n -> Unprocessed] : Polled([i \in 1..n |-> rows[pick[i]]])
    BY <1>13 DEF PollRows
  <2>2. PICK pick \in [1..n -> Unprocessed] : Polled([i \in 1..n |-> rows[pick[i]]])
    BY <2>1
  <2>3. [i \in 1..n |-> rows[pick[i]]] \in Seq(Row)
    BY RowsOf, n \in Nat
  <2>4. offset' \in 0..(MaxMessages + 1)
    BY <1>13 DEF PollRows, TypeOK
  <2>5. WorkerType'
    BY <2>2, <2>3, <2>4, PolledType
  <2> QED
    BY <1>13, <2>5 DEF PollRows, WorkerType, TypeOK
<1>14. CASE PollRaises
  <2>1. WorkerType'
    BY <1>14, NoRuntimeType DEF PollRaises, WorkerType, TypeOK
  <2>2. status' \in ChannelStatus
    BY <1>14 DEF PollRaises, TypeOK, ChannelStatus
  <2> QED
    BY <1>14, <2>1, <2>2 DEF PollRaises, Fault, WorkerType, TypeOK
<1>15. CASE Evaluate
  <2>1. batch # <<>>
    BY <1>15 DEF Evaluate, Envelope, DispatchStep
  <2>2. WorkerType'
    BY <1>15, <2>1, NextMessageType DEF Evaluate, WorkerType, TypeOK, DispatchStep
  <2>3. processed' \subseteq Row
    BY <1>15, <2>1, CurrentRow DEF Evaluate, TypeOK
  <2> QED
    BY <1>15, <2>2, <2>3 DEF Evaluate, WorkerType, TypeOK
<1>16. CASE GetOrCreateSession
  BY <1>16 DEF TypeOK, GetOrCreateSession, Goto, DispatchStep
<1>17. CASE PersistInbound
  <2>1. batch # <<>>
    BY <1>17 DEF PersistInbound, Goto, Envelope, DispatchStep
  <2>2. batch[1] \in Row /\ Current \in Message
    BY <2>1, CurrentRow
  <2>3. inbound' \in Row
    BY <1>17, <2>2, FirstRowOf DEF PersistInbound
  <2>4. rows' \in Seq(Row)
    <3>1. rows' = rows \/ rows' = Append(rows, batch[1])
      BY <1>17 DEF PersistInbound
    <3>2. rows \in Seq(Row)
      BY DEF TypeOK
    <3>3. Append(rows, batch[1]) \in Seq(Row)
      BY <2>2, <3>2
    <3> QED
      BY <3>1, <3>2, <3>3
  <2> QED
    BY <1>17, <2>3, <2>4 DEF PersistInbound, Goto, TypeOK, DispatchStep
<1>18. CASE CreateConversation
  BY <1>18 DEF TypeOK, CreateConversation, Goto, DispatchStep
<1>19. CASE BindConversation
  BY <1>19 DEF TypeOK, BindConversation, Goto, DispatchStep
<1>20. CASE RunTurn
  BY <1>20 DEF TypeOK, RunTurn, Goto, DispatchStep
<1>21. CASE QueueOutbound
  <2>1. Current \in Message
    BY <1>21, CurrentRow DEF QueueOutbound, Envelope, DispatchStep
  <2>2. /\ outbound[Current] \in [status : OutStatus, attempts : 0..MaxSendAttempts]
        /\ outbound' \in [Message -> [status : OutStatus, attempts : 0..MaxSendAttempts]]
    BY <1>21, <2>1 DEF QueueOutbound, TypeOK, OutStatus
  <2> QED
    BY <1>21, <2>2 DEF QueueOutbound, TypeOK, DispatchStep
<1>22. CASE SendOutbound
  <2>1. attempts' \in 0..MaxSendAttempts
    BY <1>22 DEF SendOutbound, TypeOK, ReplyKnown
  <2> QED
    BY <1>22, <2>1 DEF SendOutbound, AfterFailedAttempt, TypeOK, DispatchStep
<1>23. CASE MarkSent \/ MarkFailed
  <2>1. Current \in Message
    BY <1>23, CurrentRow DEF MarkSent, MarkFailed, Goto, Envelope, DispatchStep
  <2>2. outbound' \in [Message -> [status : OutStatus, attempts : 0..MaxSendAttempts]]
    <3>1. PICK s \in {"sent", "failed"} : Mark(s)
      BY <1>23 DEF MarkSent, MarkFailed
    <3>2. [status |-> s, attempts |-> attempts]
            \in [status : OutStatus, attempts : 0..MaxSendAttempts]
      BY DEF TypeOK, OutStatus
    <3> QED
      BY <2>1, <3>1, <3>2 DEF Mark, TypeOK
  <2> QED
    BY <1>23, <2>2 DEF MarkSent, MarkFailed, Goto, TypeOK, DispatchStep
<1>24. CASE MarkSentRaises
  BY <1>24 DEF TypeOK, MarkSentRaises, AfterFailedAttempt, Fault, DispatchStep
<1>25. CASE MarkProcessed
  <2>1. batch # <<>> /\ inbound \in Row
    BY <1>25 DEF MarkProcessed, Envelope, RowKnown, DispatchStep, Persisted
  <2>2. WorkerType'
    BY <1>25, <2>1, NextMessageType DEF MarkProcessed
  <2> QED
    BY <1>25, <2>1, <2>2 DEF MarkProcessed, WorkerType, TypeOK
<1>26. CASE DispatchRaises
  <2>1. batch # <<>>
    BY <1>26 DEF DispatchRaises, Envelope
  <2>2. WorkerType' /\ Current \in Message
    BY <1>26, <2>1, NextMessageType, CurrentRow DEF DispatchRaises
  <2> QED
    BY <1>26, <2>2 DEF DispatchRaises, Fault, WorkerType, TypeOK
<1> QED
  BY <1>0, <1>1, <1>2, <1>3, <1>4, <1>5, <1>6, <1>7, <1>8, <1>9, <1>10, <1>11, <1>12, <1>13, <1>14, <1>15, <1>16, <1>17, <1>18, <1>19, <1>20, <1>21, <1>22, <1>23, <1>24, <1>25, <1>26
  DEF Next, Dispatch, Loop, Network, Failure

-----------------------------------------------------------------------------
(* What a step of one kind leaves alone                                    *)

(* Steps of the network, the webhook and the operator, and a failed start, *)
(* are not steps of a running worker.                                      *)
Outside ==
    \/ UserSends
    \/ \E h \in Hooks : \E m \in Message : WebhookCheck(h, m)
    \/ \E h \in Hooks : WebhookStore(h) \/ WebhookRaises(h)
    \/ \E s \in {"active", "disabled"} : Operate(s)
    \/ StartFails

(* They touch nothing a dispatch has learnt.                               *)
LEMMA OutsideLeaves ==
    ASSUME Outside \/ UNCHANGED vars
    PROVE  /\ workerVars' = workerVars /\ historyVars' = historyVars
           /\ processed' = processed /\ bound' = bound /\ outbound' = outbound
           /\ mode' = mode /\ next' = next
<1> USE DEF networkVars, tableVars, workerVars, historyVars, boundVars, vars
<1>1. CASE UserSends \/ UNCHANGED vars
  BY <1>1 DEF UserSends
<1>2. CASE \E h \in Hooks : \E m \in Message : WebhookCheck(h, m)
  BY <1>2 DEF WebhookCheck
<1>3. CASE \E h \in Hooks : WebhookStore(h) \/ WebhookRaises(h)
  BY <1>3 DEF WebhookStore, WebhookRaises
<1>4. CASE \E s \in {"active", "disabled"} : Operate(s)
  BY <1>4 DEF Operate
<1>5. CASE StartFails
  BY <1>5 DEF StartFails
<1> QED
  BY <1>1, <1>2, <1>3, <1>4, <1>5 DEF Outside

(* Steps of a dispatch that keep the batch.                                *)
Inside ==
    \/ GetOrCreateSession \/ PersistInbound \/ CreateConversation
    \/ BindConversation \/ RunTurn \/ QueueOutbound \/ SendOutbound
    \/ MarkSent \/ MarkSentRaises \/ MarkFailed
    \/ Evaluate /\ Current \notin Rejected

(* They touch neither positions nor marks.                                 *)
LEMMA InsideLeaves ==
    ASSUME Inside
    PROVE  /\ pc \in DispatchStep /\ pc' \in DispatchStep
           /\ batch' = batch /\ offset' = offset /\ processed' = processed
           /\ mode' = mode /\ next' = next /\ sent' = sent /\ raised' = raised
<1> USE DEF networkVars, tableVars, historyVars, DispatchStep, Goto
<1>1. CASE GetOrCreateSession \/ PersistInbound
  BY <1>1 DEF GetOrCreateSession, PersistInbound
<1>2. CASE CreateConversation \/ BindConversation \/ RunTurn
  BY <1>2 DEF CreateConversation, BindConversation, RunTurn
<1>3. CASE QueueOutbound \/ SendOutbound
  BY <1>3 DEF QueueOutbound, SendOutbound, AfterFailedAttempt
<1>4. CASE MarkSent \/ MarkSentRaises \/ MarkFailed
  BY <1>4 DEF MarkSent, MarkSentRaises, MarkFailed, AfterFailedAttempt
<1>5. CASE Evaluate /\ Current \notin Rejected
  BY <1>5 DEF Evaluate
<1> QED
  BY <1>1, <1>2, <1>3, <1>4, <1>5 DEF Inside

(* Steps that end a dispatch.                                              *)
Ends == (Evaluate /\ Current \in Rejected) \/ MarkProcessed \/ DispatchRaises

(* They settle nothing and bind nothing.                                   *)
LEMMA EndsLeaves ==
    ASSUME Ends
    PROVE  /\ pc \in DispatchStep /\ NextMessage
           /\ bound' = bound /\ turns' = turns /\ outbound' = outbound
           /\ mode' = mode /\ next' = next /\ sent' = sent
<1> USE DEF networkVars, tableVars, historyVars, DispatchStep
<1>1. CASE Evaluate /\ Current \in Rejected
  BY <1>1 DEF Evaluate
<1>2. CASE MarkProcessed
  BY <1>2 DEF MarkProcessed
<1>3. CASE DispatchRaises
  BY <1>3 DEF DispatchRaises
<1> QED
  BY <1>1, <1>2, <1>3 DEF Ends

(* Steps that end a runtime, and steps of the poll.                        *)
Drops == DropRuntime \/ Crash \/ (PollRaises /\ NoRuntime)
Polls == PollUpdates \/ PollDrain \/ PollAnswerLost \/ PollRows

(* They touch neither tables nor history.                                  *)
LEMMA DropsLeaves ==
    ASSUME Drops
    PROVE  /\ NoRuntime
           /\ bound' = bound /\ turns' = turns /\ raised' = raised
           /\ processed' = processed /\ outbound' = outbound
           /\ mode' = mode /\ next' = next /\ sent' = sent
BY DEF Drops, DropRuntime, Crash, PollRaises, networkVars, tableVars, historyVars

(* They happen between batches and touch no table.                         *)
LEMMA PollsLeaves ==
    ASSUME Polls
    PROVE  /\ pc = "idle" /\ \E b : Polled(b)
           /\ bound' = bound /\ turns' = turns /\ raised' = raised
           /\ processed' = processed /\ outbound' = outbound
           /\ mode' = mode /\ sent' = sent
<1> USE DEF networkVars, tableVars, historyVars
<1>1. CASE PollUpdates
  BY <1>1 DEF PollUpdates
<1>2. CASE PollDrain
  BY <1>2 DEF PollDrain
<1>3. CASE PollAnswerLost
  BY <1>3 DEF PollAnswerLost
<1>4. CASE PollRows
  <2>1. PICK n \in 0..BatchLimit :
             \E pick \in [1..n -> Unprocessed] : Polled([i \in 1..n |-> rows[pick[i]]])
    BY <1>4 DEF PollRows
  <2> QED
    BY <1>4, <2>1 DEF PollRows
<1> QED
  BY <1>1, <1>2, <1>3, <1>4 DEF Polls

(* A poll that raised and is counted, and the start of a runtime.          *)
Waits == StartRuntime \/ (PollRaises /\ ~NoRuntime)

(* They keep the empty batch and the offset.                               *)
LEMMA WaitsLeaves ==
    ASSUME Waits
    PROVE  /\ pc \in {"down", "idle"} /\ pc' = "idle"
           /\ batch' = batch /\ offset' = offset
           /\ bound' = bound /\ turns' = turns /\ raised' = raised
           /\ processed' = processed /\ outbound' = outbound
           /\ mode' = mode /\ next' = next /\ sent' = sent
BY DEF Waits, StartRuntime, PollRaises, Goto, networkVars, tableVars, historyVars

(* Every step is of one of these kinds.                                    *)
LEMMA StepKinds ==
    ASSUME [Next]_vars
    PROVE  \/ Outside \/ UNCHANGED vars
           \/ Inside \/ Ends \/ Drops \/ Polls \/ Waits
<1>1. CASE Dispatch
  BY <1>1 DEF Dispatch, Inside, Ends
<1>2. CASE Loop
  BY <1>2 DEF Loop, Waits, Drops, Polls
<1>3. CASE Network
  BY <1>3 DEF Network, Outside
<1>4. CASE Failure
  BY <1>4 DEF Failure, Outside, Polls, Drops, Waits, Inside, Ends
<1>5. CASE \E s \in {"active", "disabled"} : Operate(s)
  BY <1>5 DEF Outside
<1>6. CASE UNCHANGED vars
  BY <1>6
<1> QED
  BY <1>1, <1>2, <1>3, <1>4, <1>5, <1>6 DEF Next

-----------------------------------------------------------------------------
(* What the worker knows during a dispatch                                 *)

(* Before the inbound row is known there is nothing to know.               *)
LEMMA BeforeTheRow ==
    ASSUME pc' \in {"down", "idle", "dispatch"}
    PROVE  RowKnown' /\ ReplyKnown'
BY DEF RowKnown, ReplyKnown, Persisted

(* Every step keeps the batch and the program counter together.            *)
LEMMA StepEnvelope ==
    ASSUME TypeOK, Envelope, [Next]_vars
    PROVE  Envelope'
<1>1. CASE Outside \/ UNCHANGED vars
  BY <1>1, OutsideLeaves DEF Envelope, workerVars
<1>2. CASE Inside
  BY <1>2, InsideLeaves DEF Envelope
<1>3. CASE Ends
  <2>1. NextMessage /\ batch # <<>>
    BY <1>3, EndsLeaves DEF Envelope
  <2> QED
    BY <2>1, TailOfBatch DEF NextMessage, Envelope, DispatchStep
<1>4. CASE Drops
  BY <1>4, DropsLeaves DEF NoRuntime, Envelope, DispatchStep
<1>5. CASE Polls
  BY <1>5, PollsLeaves DEF Polled, Envelope, DispatchStep
<1>6. CASE Waits
  BY <1>6, WaitsLeaves DEF Envelope, DispatchStep
<1> QED
  BY <1>1, <1>2, <1>3, <1>4, <1>5, <1>6, StepKinds

(* A settled reply stays settled: _queue_outbound's get_or_create only     *)
(* writes a row that did not exist.                                        *)
LEMMA SettledKept ==
    ASSUME TypeOK, Envelope, [Next]_vars, NEW m \in Message, Settled(m)
    PROVE  Settled(m)'
<1>1. CASE outbound' = outbound
  BY <1>1 DEF Settled
<1>2. CASE QueueOutbound
  <2>1. Current \in Message
    BY <1>2, CurrentRow DEF QueueOutbound, Envelope, DispatchStep
  <2>2. CASE outbound[Current].status = "none"
    <3>1. m # Current
      BY <2>2 DEF Settled
    <3>2. outbound'[m] = outbound[m]
      BY <1>2, <2>1, <3>1 DEF QueueOutbound, TypeOK
    <3> QED
      BY <3>2 DEF Settled
  <2>3. CASE outbound[Current].status # "none"
    BY <1>1, <1>2, <2>3 DEF QueueOutbound
  <2> QED
    BY <2>2, <2>3
<1>3. CASE MarkSent \/ MarkFailed
  <2>1. Current \in Message
    BY <1>3, CurrentRow DEF MarkSent, MarkFailed, Goto, Envelope, DispatchStep
  <2>2. PICK s \in {"sent", "failed"} : Mark(s)
    BY <1>3 DEF MarkSent, MarkFailed
  <2>3. outbound'[m] = IF m = Current THEN [status |-> s, attempts |-> attempts]
                                      ELSE outbound[m]
    BY <2>1, <2>2 DEF Mark, TypeOK
  <2> QED
    BY <2>3 DEF Settled
<1>4. CASE Inside /\ ~(QueueOutbound \/ MarkSent \/ MarkFailed)
  BY <1>1, <1>4 DEF Inside, GetOrCreateSession, PersistInbound,
     CreateConversation, BindConversation, RunTurn, SendOutbound,
     MarkSentRaises, Evaluate, tableVars
<1> QED
  BY <1>1, <1>2, <1>3, <1>4, StepKinds, OutsideLeaves, EndsLeaves, DropsLeaves,
     PollsLeaves, WaitsLeaves

(* The row to be marked is found by PersistInbound and kept to the end.    *)
LEMMA StepRow ==
    ASSUME TypeOK, Envelope, RowKnown, [Next]_vars
    PROVE  RowKnown'
<1>1. CASE Outside \/ UNCHANGED vars
  BY <1>1, OutsideLeaves DEF RowKnown, Current, workerVars
<1>2. CASE PersistInbound
  <2>1. batch # <<>>
    BY <1>2 DEF PersistInbound, Goto, Envelope, DispatchStep
  <2>2. batch[1] \in Row /\ Current \in Message
    BY <2>1, CurrentRow
  <2>3. inbound' \in Row /\ inbound'[1] = Current
    BY <1>2, <2>2, FirstRowOf DEF PersistInbound, Current
  <2> QED
    BY <1>2, <2>3 DEF PersistInbound, RowKnown, Current
<1>3. CASE Inside /\ ~PersistInbound
  <2>1. pc' \in Persisted => pc \in Persisted /\ inbound' = inbound
    BY <1>3 DEF Inside, GetOrCreateSession, CreateConversation,
       BindConversation, RunTurn, QueueOutbound, SendOutbound, MarkSent,
       MarkSentRaises, MarkFailed, Evaluate, Goto, Persisted
  <2> QED
    BY <1>3, <2>1, InsideLeaves DEF RowKnown, Current
<1>4. CASE Ends \/ Drops \/ Polls \/ Waits
  <2>1. pc' \in {"down", "idle", "dispatch"}
    BY <1>4, EndsLeaves, DropsLeaves, PollsLeaves, WaitsLeaves
       DEF NextMessage, NoRuntime, Polled
  <2> QED
    BY <2>1, BeforeTheRow
<1> QED
  BY <1>1, <1>2, <1>3, <1>4, StepKinds

(* The reply is settled by the mark that leads to "processed".             *)
LEMMA StepReply ==
    ASSUME TypeOK, Envelope, ReplyKnown, [Next]_vars
    PROVE  ReplyKnown'
<1>1. CASE Outside \/ UNCHANGED vars
  BY <1>1, OutsideLeaves DEF ReplyKnown, Settled, Current, workerVars
<1>2. CASE MarkSent \/ MarkFailed
  <2>1. Current \in Message
    BY <1>2, CurrentRow DEF MarkSent, MarkFailed, Goto, Envelope, DispatchStep
  <2>2. PICK s \in {"sent", "failed"} : Mark(s)
    BY <1>2 DEF MarkSent, MarkFailed
  <2>3. outbound'[Current].status = s
    BY <2>1, <2>2 DEF Mark, TypeOK
  <2> QED
    BY <1>2, <2>3 DEF MarkSent, MarkFailed, Goto, ReplyKnown, Settled, Current
<1>3. CASE Inside /\ ~(MarkSent \/ MarkFailed)
  <2>1. pc' # "processed"
    BY <1>3 DEF Inside, GetOrCreateSession, PersistInbound, CreateConversation,
       BindConversation, RunTurn, QueueOutbound, SendOutbound, MarkSentRaises,
       AfterFailedAttempt, Evaluate, Goto
  <2>2. pc' = "send" => attempts' < MaxSendAttempts
    BY <1>3 DEF Inside, GetOrCreateSession, PersistInbound, CreateConversation,
       BindConversation, RunTurn, QueueOutbound, SendOutbound, MarkSentRaises,
       AfterFailedAttempt, Evaluate, Goto
  <2> QED
    BY <2>1, <2>2 DEF ReplyKnown
<1>4. CASE Ends \/ Drops \/ Polls \/ Waits
  <2>1. pc' \in {"down", "idle", "dispatch"}
    BY <1>4, EndsLeaves, DropsLeaves, PollsLeaves, WaitsLeaves
       DEF NextMessage, NoRuntime, Polled
  <2> QED
    BY <2>1, BeforeTheRow
<1> QED
  BY <1>1, <1>2, <1>3, <1>4, StepKinds

(* Creating and binding a conversation are two steps; between them the     *)
(* session has none, whatever fails.                                       *)
LEMMA StepConversation ==
    ASSUME TypeOK, ConversationKnown, [Next]_vars
    PROVE  ConversationKnown'
<1> USE DEF ConversationKnown, OneConversation
<1>1. CASE Outside \/ UNCHANGED vars
  BY <1>1, OutsideLeaves DEF workerVars, historyVars
<1>2. CASE CreateConversation
  BY <1>2 DEF CreateConversation, Goto, TypeOK, historyVars
<1>3. CASE BindConversation
  BY <1>3 DEF BindConversation, Goto, historyVars
<1>4. CASE RunTurn
  BY <1>4 DEF RunTurn, Goto, tableVars
<1>5. CASE Inside /\ ~(CreateConversation \/ BindConversation \/ RunTurn)
  <2>1. pc' # "bind" /\ pc' # "turn" /\ bound' = bound /\ turns' = turns
    BY <1>5 DEF Inside, GetOrCreateSession, PersistInbound, QueueOutbound,
       SendOutbound, MarkSent, MarkSentRaises, MarkFailed, AfterFailedAttempt,
       Evaluate, Goto, tableVars, historyVars
  <2> QED
    BY <2>1
<1>6. CASE Ends \/ Drops \/ Polls \/ Waits
  <2>1. pc' \in {"down", "idle", "dispatch"}
    BY <1>6, EndsLeaves, DropsLeaves, PollsLeaves, WaitsLeaves
       DEF NextMessage, NoRuntime, Polled
  <2>2. bound' = bound /\ turns' = turns
    BY <1>6, EndsLeaves, DropsLeaves, PollsLeaves, WaitsLeaves
  <2> QED
    BY <2>1, <2>2
<1> QED
  BY <1>1, <1>2, <1>3, <1>4, <1>5, <1>6, StepKinds

-----------------------------------------------------------------------------
(* Rows and updates                                                        *)

(* A row is marked when its message was refused, or by the dispatch whose  *)
(* reply is settled.                                                       *)
LEMMA StepProcessed ==
    ASSUME TypeOK, Envelope, RowKnown, ReplyKnown, ProcessedIsSettled,
           [Next]_vars
    PROVE  ProcessedIsSettled'
<1>1. ASSUME NEW r \in processed
      PROVE  r[1] \in Rejected \/ Settled(r[1])'
  <2>1. r[1] \in Message
    BY DEF TypeOK, Row
  <2> QED
    BY <2>1, SettledKept DEF ProcessedIsSettled
<1>2. CASE processed' = processed
  BY <1>1, <1>2 DEF ProcessedIsSettled
<1>3. CASE Evaluate /\ Current \in Rejected
  BY <1>1, <1>3 DEF Evaluate, ProcessedIsSettled, Current
<1>4. CASE MarkProcessed
  <2>1. /\ inbound[1] = Current /\ Settled(Current) /\ Current \in Message
        /\ processed' = processed \cup {inbound}
    BY <1>4, CurrentRow DEF MarkProcessed, Envelope, RowKnown, ReplyKnown,
       DispatchStep, Persisted
  <2>2. outbound'[inbound[1]].status \in {"sent", "failed"}
    <3>1. Settled(Current)
      BY <2>1
    <3>2. outbound' = outbound
      BY <1>4 DEF MarkProcessed
    <3>3. inbound[1] = Current
      BY <2>1
    <3> QED
      BY <3>1, <3>2, <3>3 DEF Settled
  <2> QED
    BY <1>1, <2>1, <2>2 DEF ProcessedIsSettled, Settled
<1>5. CASE DispatchRaises
  BY <1>2, <1>5 DEF DispatchRaises, tableVars
<1> QED
  BY <1>2, <1>3, <1>4, <1>5, StepKinds, OutsideLeaves, InsideLeaves,
     DropsLeaves, PollsLeaves, WaitsLeaves DEF Ends

(* A handled message stays handled.                                        *)
LEMMA HandledKept ==
    ASSUME TypeOK, Envelope, [Next]_vars, NEW m \in Message, Handled(m)
    PROVE  Handled(m)'
<1>1. raised \subseteq raised'
  BY StepKinds, OutsideLeaves, InsideLeaves, DropsLeaves, PollsLeaves,
     WaitsLeaves DEF Ends, Evaluate, MarkProcessed, DispatchRaises, historyVars
<1>2. Settled(m) => Settled(m)'
  BY SettledKept
<1> QED
  BY <1>1, <1>2 DEF Handled

(* Both positions stay within the messages sent.                           *)
LEMMA StepPositions ==
    ASSUME TypeOK, Fetched, [Next]_vars
    PROVE  next' <= sent' + 1 /\ offset' <= sent' + 1
<1>1. sent \in Nat /\ next \in Nat /\ offset \in Nat
  BY DEF TypeOK
<1>2. next <= sent + 1 /\ offset <= sent + 1
  BY DEF Fetched
<1>3. CASE Outside \/ UNCHANGED vars
  <2>1. sent' = sent \/ sent' = sent + 1
    BY <1>3 DEF Outside, UserSends, WebhookCheck, WebhookStore, WebhookRaises,
       Operate, StartFails, networkVars, vars
  <2> QED
    BY <1>1, <1>2, <1>3, <2>1, OutsideLeaves DEF workerVars
<1>4. CASE Inside
  BY <1>2, <1>4, InsideLeaves
<1>5. CASE Ends
  BY <1>2, <1>5, EndsLeaves DEF NextMessage
<1>6. CASE Drops
  BY <1>1, <1>2, <1>6, DropsLeaves DEF NoRuntime
<1>7. CASE Polls
  BY <1>1, <1>2, <1>7 DEF Polls, PollUpdates, PollDrain, PollAnswerLost,
     PollRows, Larger, networkVars
<1>8. CASE Waits
  BY <1>2, <1>8, WaitsLeaves
<1> QED
  BY <1>3, <1>4, <1>5, <1>6, <1>7, <1>8, StepKinds

(* A number below a position of the network is that of a message.          *)
LEMMA BelowIsMessage ==
    ASSUME NEW k \in 0..(MaxMessages + 1), NEW m \in 1..(k - 1)
    PROVE  m \in Message /\ m < k
BY DEF Message

(* Between two batches everything below the offset is handled, so asking   *)
(* Telegram for the offset forgets nothing that is not.                    *)
LEMMA BelowOffset ==
    ASSUME TypeOK, Envelope, Fetched, mode = "updates", pc = "idle",
           NEW m \in Message, m < offset
    PROVE  Handled(m)
<1>1. Len(batch) = 0
  BY DEF Envelope, DispatchStep
<1>2. m \in 1..(offset - 1)
  BY DEF Message, TypeOK
<1> QED
  BY <1>1, <1>2 DEF Fetched

(* What Telegram has forgotten is handled.                                 *)
LEMMA BelowNext ==
    ASSUME TypeOK, ForgottenIsSettled, mode = "updates",
           NEW m \in Message, m < next
    PROVE  Handled(m)
<1>1. m \in 1..(next - 1)
  BY DEF Message, TypeOK
<1> QED
  BY <1>1 DEF ForgottenIsSettled, Handled

(* Only a poll moves what Telegram forgets, and only up to the offset.     *)
LEMMA StepForgotten ==
    ASSUME TypeOK, TypeOK', Envelope, Fetched, ForgottenIsSettled, [Next]_vars
    PROVE  ForgottenIsSettled'
<1> SUFFICES ASSUME mode' = "updates", NEW m \in Message, m < next'
             PROVE  Handled(m)'
  <2>1. \A m \in 1..(next' - 1) : m \in Message /\ m < next'
    <3>1. next' \in 0..(MaxMessages + 1)
      BY DEF TypeOK
    <3> QED
      BY <3>1, BelowIsMessage
  <2> QED
    BY <2>1 DEF ForgottenIsSettled, Handled
<1>1. mode = "updates"
  BY StepKinds, OutsideLeaves, InsideLeaves, EndsLeaves, DropsLeaves,
     PollsLeaves, WaitsLeaves
<1>2. CASE m < next
  BY <1>1, <1>2, BelowNext, HandledKept
<1>3. CASE ~(m < next)
  <2>1. next' # next
    BY <1>3
  <2>2. Polls
    BY <2>1, StepKinds, OutsideLeaves, InsideLeaves, EndsLeaves, DropsLeaves,
       WaitsLeaves
  <2>3. next' = Larger(next, offset)
    BY <1>1, <2>1, <2>2 DEF Polls, PollUpdates, PollDrain, PollAnswerLost,
       PollRows, networkVars
  <2>4. m < offset
    BY <1>3, <2>3 DEF Larger
  <2>5. pc = "idle"
    BY <2>2, PollsLeaves
  <2> QED
    BY <1>1, <2>4, <2>5, BelowOffset, HandledKept
<1> QED
  BY <1>2, <1>3

(* A message below the offset that is not handled is still in the batch:   *)
(* the end of a dispatch removes only the message it handled.              *)
LEMMA StepFetched ==
    ASSUME TypeOK, TypeOK', Envelope, ReplyKnown, Fetched, ForgottenIsSettled,
           [Next]_vars
    PROVE  Fetched'
<1> DEFINE InBatch(m) == \E i \in 1..Len(batch) : batch[i][1] = m
<1> SUFFICES ASSUME mode' = "updates", NEW m \in Message, m < offset'
             PROVE  Handled(m)' \/ InBatch(m)'
  <2>1. \A m \in 1..(offset' - 1) : m \in Message /\ m < offset'
    <3>1. offset' \in 0..(MaxMessages + 1)
      BY DEF TypeOK
    <3> QED
      BY <3>1, BelowIsMessage
  <2> QED
    BY <2>1, StepPositions DEF Fetched
<1>1. mode = "updates"
  BY StepKinds, OutsideLeaves, InsideLeaves, EndsLeaves, DropsLeaves,
     PollsLeaves, WaitsLeaves
<1>2. ASSUME m < offset
      PROVE  Handled(m)' \/ InBatch(m)
  <2>1. m \in 1..(offset - 1)
    BY <1>2 DEF Message, TypeOK
  <2> QED
    BY <1>1, <2>1, HandledKept DEF Fetched
<1>3. CASE Outside \/ UNCHANGED vars
  BY <1>2, <1>3, OutsideLeaves DEF workerVars
<1>4. CASE Inside
  BY <1>2, <1>4, InsideLeaves
<1>5. CASE Ends
  <2>1. NextMessage /\ batch # <<>>
    BY <1>5, EndsLeaves DEF Envelope
  <2>2. CASE m = Current
    <3>1. m \in Rejected \/ Settled(m) \/ m \in raised'
      BY <1>5, <2>2 DEF Ends, MarkProcessed, ReplyKnown, DispatchRaises
    <3> QED
      BY <3>1, HandledKept DEF Handled
  <2>3. CASE m # Current
    <3>1. Handled(m)' \/ InBatch(m)
      BY <1>2, <2>1 DEF NextMessage
    <3>2. ASSUME InBatch(m)
          PROVE  InBatch(m)'
      <4>1. PICK i \in 1..Len(batch) : batch[i][1] = m
        BY <3>2
      <4>2. Len(batch) \in Nat /\ i # 1
        BY <2>1, <2>3, <4>1, CurrentRow DEF Current
      <4>3. i \in 2..Len(batch) /\ i - 1 \in 1..(Len(batch) - 1)
        BY <4>1, <4>2
      <4>4. batch'[i - 1] = batch[i] /\ Len(batch') = Len(batch) - 1
        BY <2>1, <4>3, TailOfBatch DEF NextMessage
      <4> QED
        BY <4>1, <4>3, <4>4
    <3> QED
      BY <3>1, <3>2
  <2> QED
    BY <2>2, <2>3
<1>6. CASE Drops
  BY <1>6, DropsLeaves DEF NoRuntime, Message
<1>7. CASE PollUpdates
  <2>1. pc = "idle"
    BY <1>7 DEF PollUpdates
  <2>2. CASE m < next'
    <3>1. m < next \/ m < offset
      BY <1>7, <2>2 DEF PollUpdates, Larger
    <3> QED
      BY <1>1, <2>1, <3>1, BelowNext, BelowOffset, HandledKept
  <2>3. CASE ~(m < next')
    <3>1. next' \in Nat \ {0} /\ next' <= sent + 1 /\ sent \in 0..MaxMessages
      <4>1. next' <= sent' + 1 /\ sent' = sent
        BY <1>7, StepPositions DEF PollUpdates
      <4>2. next' \in 1..(MaxMessages + 1) /\ sent \in 0..MaxMessages
        BY DEF TypeOK
      <4> QED
        BY <4>1, <4>2
    <3>2. m \in next'..sent
      <4>1. m \in Nat /\ offset \in Nat /\ sent \in Nat
        BY DEF Message, TypeOK
      <4>2. offset <= next'
        BY <1>7 DEF PollUpdates, Larger, TypeOK
      <4>3. offset' = offset \/ offset' = sent + 1
        BY <1>7 DEF PollUpdates
      <4>4. next' <= m
        BY <2>3, <3>1, <4>1
      <4>5. offset' # offset
        BY <3>1, <4>1, <4>2, <4>4
      <4>6. m < sent + 1
        BY <4>3, <4>5
      <4> QED
        BY <3>1, <4>1, <4>4, <4>6
    <3>3. PICK k \in Nat \ {0} : k = next'
      BY <3>1
    <3>4. batch' = Envelopes(k, sent)
      BY <1>7, <3>3 DEF PollUpdates, Polled
    <3>5. \E i \in 1..Len(Envelopes(k, sent)) : Envelopes(k, sent)[i][1] = m
      <4>1. k <= sent + 1 /\ sent \in 0..MaxMessages /\ m \in k..sent
        BY <3>1, <3>2, <3>3
      <4>2. \A j \in k..sent : \E i \in 1..Len(Envelopes(k, sent)) :
                                  Envelopes(k, sent)[i][1] = j
        BY <4>1, EnvelopesOf
      <4> QED
        BY <4>1, <4>2, Zenon
    <3> QED
      BY <3>4, <3>5
  <2> QED
    BY <2>2, <2>3
<1>8. CASE PollAnswerLost \/ PollDrain \/ PollRows
  <2>1. offset' = offset /\ pc = "idle"
    BY <1>1, <1>8 DEF PollAnswerLost, PollDrain, PollRows
  <2> QED
    BY <1>1, <2>1, BelowOffset, HandledKept
<1>9. CASE Waits
  BY <1>2, <1>9, WaitsLeaves
<1> QED
  BY <1>3, <1>4, <1>5, <1>6, <1>7, <1>8, <1>9, StepKinds DEF Polls

-----------------------------------------------------------------------------
(* The theorems                                                            *)

(* BInv holds initially.                                                   *)
LEMMA InitBInv == Init => BInv
<1> SUFFICES ASSUME Init PROVE BInv
  OBVIOUS
<1>1. TypeOK
  BY InitType
<1>2. Envelope /\ RowKnown /\ ReplyKnown
  BY DEF Init, Envelope, RowKnown, ReplyKnown, DispatchStep, Persisted
<1>3. ConversationKnown
  BY DEF Init, ConversationKnown, OneConversation
<1>4. Fetched /\ ForgottenIsSettled /\ ProcessedIsSettled
  BY DEF Init, Fetched, ForgottenIsSettled, ProcessedIsSettled
<1> QED
  BY <1>1, <1>2, <1>3, <1>4 DEF BInv

(* Every step keeps BInv.                                                  *)
LEMMA StepBInv == BInv /\ [Next]_vars => BInv'
<1> SUFFICES ASSUME BInv, [Next]_vars PROVE BInv'
  OBVIOUS
<1> USE DEF BInv
<1>1. TypeOK'
  BY StepType
<1>2. Envelope' /\ RowKnown' /\ ReplyKnown'
  BY StepEnvelope, StepRow, StepReply
<1>3. ConversationKnown' /\ ProcessedIsSettled'
  BY StepConversation, StepProcessed
<1>4. Fetched' /\ ForgottenIsSettled'
  BY <1>1, StepFetched, StepForgotten
<1> QED
  BY <1>1, <1>2, <1>3, <1>4

(* BInv holds in every reachable state of the bridge.                      *)
LEMMA BridgeBInv == Spec => []BInv
BY InitBInv, StepBInv, PTL DEF Spec

(* Every variable of the worker, the webhook and the tables keeps its      *)
(* type; in particular _deliver never counts past                          *)
(* SA01_BRIDGE_MAX_SEND_ATTEMPTS, though a dispatch of a message that is   *)
(* delivered again resumes the count of an earlier one.                    *)
THEOREM BridgeTypeOK == Spec => []TypeOK
<1>1. BInv => TypeOK
  BY DEF BInv
<1> QED
  BY <1>1, BridgeBInv, PTL

(* For any number of messages, whatever raises and wherever the worker     *)
(* dies, a message Telegram no longer returns was refused, answered, given *)
(* up as failed, or its dispatch raised.                                   *)
THEOREM BridgeForgottenIsSettled == Spec => []ForgottenIsSettled
<1>1. BInv => ForgottenIsSettled
  BY DEF BInv
<1> QED
  BY <1>1, BridgeBInv, PTL

(* For any number of webhook replicas and rows, a row is marked processed  *)
(* only when its message was refused or its reply was sent or given up.    *)
THEOREM BridgeProcessedIsSettled == Spec => []ProcessedIsSettled
<1>1. BInv => ProcessedIsSettled
  BY DEF BInv
<1> QED
  BY <1>1, BridgeBInv, PTL

(* However often a message is delivered again and whichever call between   *)
(* creating and binding a conversation fails, all turns of a chat ran in   *)
(* one conversation, that of its session.                                  *)
THEOREM BridgeOneConversation == Spec => []OneConversation
<1>1. BInv => OneConversation
  BY DEF BInv, ConversationKnown
<1> QED
  BY <1>1, BridgeBInv, PTL

=============================================================================
