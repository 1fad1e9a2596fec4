------------------------------ MODULE ChatTurn ------------------------------
(***************************************************************************)
(* admin/core/chat_orchestrator (stream_turn, process_turn), the tool loop *)
(* of admin/core/tool_calling, the WebSocket consumer of services/gateway  *)
(* and the conversation API of admin/chat: turns on ONE conversation, run  *)
(* by several browser tabs and requests at once.                           *)
(*                                                                         *)
(* A socket awaits the handler of one frame before it receives the next    *)
(* (channels 4.1.0): a frame sent during a turn stays unread until the     *)
(* turn is over.  So a turn's pause flag, and the futures of its approval  *)
(* gate, cannot change while it runs, and a wait for approval always times *)
(* out.  _turn_task is never assigned, hence _stop_requested never set.    *)
(* The text of messages and prompts is left out; semantic memory is        *)
(* MemoryOutbox's subject.  A database call that raises changed nothing.   *)
(***************************************************************************)
EXTENDS Naturals, Sequences, FiniteSets

CONSTANTS
    Sockets,        \* ChatConsumer connections
    Requests,       \* clients of send_message, and bridge dispatchers
    Tools,
    Forget,         \* the tool that erases: {memory_forget}, or none
    ToolPolicy,     \* capsule and AgentIQ decision for each tool
    MaxIterations,  \* TOOL_MAX_ITERATIONS
    MaxCalls,       \* bound: tool calls in one answer of the model
    MaxTurns,       \* bound: turns started
    MaxFrames,      \* bound: frames a socket's client sends
    MaxFaults       \* bound: calls that raise, crashes, clients that leave

Actors == Sockets \cup Requests
(* "resume" stands for chat.stop and chat.reset too, which do the same to   *)
(* a socket.  Frames that change nothing (a ping, a nudge, a chat frame     *)
(* without content, an approval) are left out: no future is registered      *)
(* between two turns for an approval to resolve.                            *)
Frame == {"chat", "pause", "resume"}
Decision == {"auto_execute", "approval_required", "denied"}

ASSUME ChatAssumption ==
    /\ Sockets \cap Requests = {}
    /\ IsFiniteSet(Actors)
    /\ Forget \subseteq Tools
    /\ ToolPolicy \in [Tools -> Decision]
    /\ MaxIterations \in Nat
    /\ MaxCalls \in Nat
    /\ MaxTurns \in Nat
    /\ MaxFrames \in Nat
    /\ MaxFaults \in Nat

VARIABLES
    pc,         \* where each actor is; "gone": a socket that is closed
    frames,     \* per socket, frames sent and not yet received
    frameCount, \* per socket, frames sent
    paused,     \* per actor, _paused
    turn,       \* per actor, its turn (0 before the first)
    round,      \* iteration of run_tool_loop (0 outside it)
    calls,      \* tool calls of this round still to be handled; which tool a
                \* call names is chosen when it is handled
    owed        \* tool calls in messages without their result message
VARIABLES
    conv,       \* the Conversation row; "clearing": its messages are deleted
    rows,       \* Message rows: turn and role
    count       \* Conversation.message_count
VARIABLES
    started,    \* turns started (history, as are the following)
    admitted,   \* turns the permission check and the gate let pass
    unrecorded, \* turns whose user row could not be written
    uncounted,  \* rows whose message_count update raised
    erased,     \* rows that delete_conversation deleted
    ran,        \* tool runs: turn, tool and whether it was given a query
    completed,  \* turns not degraded and followed by chat.done or a 200
    faults      \* bounded events so far

actorVars == <<pc, frames, frameCount, paused, turn, round, calls, owed>>
tableVars == <<conv, rows, count>>
historyVars == <<started, admitted, unrecorded, uncounted, erased, ran, completed>>
vars == <<actorVars, tableVars, historyVars, faults>>

Turn == 1..MaxTurns
Role == {"user", "assistant"}
TurnStep == {"load", "gate", "userRow", "userBump", "gather", "llm", "decide",
             "store", "asstBump", "done", "message"}
Bumping == {"userBump", "asstBump"}

Init ==
    /\ pc = [a \in Actors |-> "idle"]
    /\ frames = [s \in Sockets |-> <<>>]
    /\ frameCount = [s \in Sockets |-> 0]
    /\ paused = [a \in Actors |-> FALSE]
    /\ turn = [a \in Actors |-> 0]
    /\ round = [a \in Actors |-> 0]
    /\ calls = [a \in Actors |-> 0]
    /\ owed = [a \in Actors |-> 0]
    /\ conv = "present" /\ rows = {} /\ count = 0
    /\ started = 0 /\ admitted = {} /\ unrecorded = {} /\ uncounted = {}
    /\ erased = {} /\ ran = {} /\ completed = {}
    /\ faults = 0

Goto(a, from, to) == pc[a] = from /\ pc' = [pc EXCEPT ![a] = to]

-----------------------------------------------------------------------------
(* Frames and requests                                                     *)

SendFrame(s, f) ==
    /\ pc[s] # "gone"
    /\ frameCount[s] < MaxFrames
    /\ frameCount' = [frameCount EXCEPT ![s] = @ + 1]
    /\ frames' = [frames EXCEPT ![s] = Append(@, f)]
    /\ UNCHANGED <<pc, paused, turn, round, calls, owed, tableVars, historyVars, faults>>

ReceiveFrame(s) ==
    /\ frames[s] # <<>>
    /\ frames' = [frames EXCEPT ![s] = Tail(@)]

StartTurn(a) ==
    /\ started < MaxTurns
    /\ started' = started + 1
    /\ turn' = [turn EXCEPT ![a] = started + 1]
    /\ Goto(a, "idle", "load")
    /\ UNCHANGED <<frameCount, paused, round, calls, owed, tableVars, admitted,
                   unrecorded, uncounted, erased, ran, completed, faults>>

(* _handle_chat, up to the lookup of the conversation.                     *)
HandleChat(s) ==
    /\ ReceiveFrame(s)
    /\ Head(frames[s]) = "chat"
    /\ StartTurn(s)

(* _handle_control.                                                        *)
HandleControl(s) ==
    /\ pc[s] = "idle"
    /\ ReceiveFrame(s)
    /\ Head(frames[s]) # "chat"
    /\ paused' = [paused EXCEPT ![s] = Head(frames[s]) = "pause"]
    /\ UNCHANGED <<pc, frameCount, turn, round, calls, owed, tableVars,
                   historyVars, faults>>

(* send_message without stream, or the bridge dispatcher's _run_turn.      *)
StartRequest(r) ==
    /\ StartTurn(r)
    /\ UNCHANGED frames

(* connect; a connection that is refused changes nothing here.             *)
Connect(s) ==
    /\ Goto(s, "gone", "idle")
    /\ paused' = [paused EXCEPT ![s] = FALSE]
    /\ UNCHANGED <<frames, frameCount, turn, round, calls, owed, tableVars,
                   historyVars, faults>>

(* disconnect, received between two frames.                                *)
Disconnect(s) ==
    /\ Goto(s, "idle", "gone")
    /\ frames' = [frames EXCEPT ![s] = <<>>]
    /\ UNCHANGED <<frameCount, paused, turn, round, calls, owed, tableVars,
                   historyVars, faults>>

-----------------------------------------------------------------------------
(* stream_turn and process_turn                                            *)

(* get_conversation; none: an error frame, or a 404.                       *)
LoadConversation(a) ==
    /\ Goto(a, "load", IF conv = "deleted" THEN "idle" ELSE "gate")
    /\ UNCHANGED <<frames, frameCount, paused, turn, round, calls, owed, tableVars,
                   historyVars, faults>>

(* Mutant: the input is recorded together with the answer.                 *)
GatePassesUnrecorded(a) ==
    /\ Goto(a, "gate", "gather")
    /\ admitted' = admitted \cup {turn[a]}
    /\ UNCHANGED <<frames, frameCount, paused, turn, round, calls, owed, tableVars,
                   started, unrecorded, uncounted, erased, ran, completed, faults>>

(* The permission check and the UnifiedGate.                               *)
GatePasses(a) ==
    /\ Goto(a, "gate", "userRow")
    /\ admitted' = admitted \cup {turn[a]}
    /\ UNCHANGED <<frames, frameCount, paused, turn, round, calls, owed, tableVars,
                   started, unrecorded, uncounted, erased, ran, completed, faults>>

(* A step that ends the pipeline early: denied or timed out at the gate,   *)
(* no model or no key, the breaker open or the model's answer timed out.   *)
TurnDegrades(a) ==
    /\ \/ pc[a] \in {"gate", "gather"}
       \/ pc[a] = "llm" /\ ~paused[a]
    /\ pc' = [pc EXCEPT ![a] = "message"]
    /\ round' = [round EXCEPT ![a] = 0]
    /\ UNCHANGED <<frames, frameCount, paused, turn, calls, owed, tableVars,
                   historyVars, faults>>

PersistUserTranscript(a) ==
    /\ Goto(a, "userRow", "userBump")
    /\ rows' = rows \cup {<<turn[a], "user">>}
    /\ UNCHANGED <<frames, frameCount, paused, turn, round, calls, owed, conv,
                   count, historyVars, faults>>

(* Mutant: both rows of a turn are counted with the assistant's.           *)
BumpBothAtOnce(a) ==
    /\ \/ Goto(a, "userBump", "gather") /\ UNCHANGED count
       \/ Goto(a, "asstBump", "done")
          /\ count' = IF conv = "deleted" THEN count ELSE count + 2
    /\ UNCHANGED <<frames, frameCount, paused, turn, round, calls, owed, conv,
                   rows, historyVars, faults>>

(* _bump_message_count, for either row: an UPDATE that matches no row once *)
(* the conversation is deleted.                                            *)
BumpMessageCount(a) ==
    /\ \/ Goto(a, "userBump", "gather")
       \/ Goto(a, "asstBump", "done")
    /\ count' = IF conv = "deleted" THEN count ELSE count + 1
    /\ UNCHANGED <<frames, frameCount, paused, turn, round, calls, owed, conv,
                   rows, historyVars, faults>>

(* Health, budget, recall of history and memory, context, tool discovery   *)
(* and model selection; what fails is left out of the context.             *)
GatherContext(a) ==
    /\ Goto(a, "gather", "llm")
    /\ round' = [round EXCEPT ![a] = 1]
    /\ UNCHANGED <<frames, frameCount, paused, turn, calls, owed, tableVars,
                   historyVars, faults>>

(* A round that ends without tool calls; after the last one the model is   *)
(* given no tools.  turn_meta has been yielded: a paused socket waits.     *)
ModelAnswers(a) ==
    /\ ~paused[a]
    /\ Goto(a, "llm", "store")
    /\ round' = [round EXCEPT ![a] = 0]
    /\ UNCHANGED <<frames, frameCount, paused, turn, calls, owed, tableVars,
                   historyVars, faults>>

ModelCallsTools(a) ==
    /\ ~paused[a]
    /\ round[a] <= MaxIterations
    /\ Goto(a, "llm", "decide")
    /\ \E n \in 1..MaxCalls :
          /\ calls' = [calls EXCEPT ![a] = n]
          /\ owed' = [owed EXCEPT ![a] = @ + n]
    /\ UNCHANGED <<frames, frameCount, paused, turn, round, tableVars, historyVars,
                   faults>>

(* Mutant: the rounds are not counted, so that they never reach the cap.   *)
ToolResultUncounted(a) ==
    /\ owed' = [owed EXCEPT ![a] = @ - 1]
    /\ calls' = [calls EXCEPT ![a] = @ - 1]
    /\ pc' = [pc EXCEPT ![a] = IF calls[a] = 1 THEN "llm" ELSE "decide"]
    /\ UNCHANGED <<frames, frameCount, paused, turn, round, tableVars, started,
                   admitted, unrecorded, uncounted, erased, completed, faults>>

(* The tool result message of the current call, and on to the next.        *)
ToolResult(a) ==
    /\ owed' = [owed EXCEPT ![a] = @ - 1]
    /\ calls' = [calls EXCEPT ![a] = @ - 1]
    /\ IF calls[a] = 1
       THEN /\ pc' = [pc EXCEPT ![a] = "llm"]
            /\ round' = [round EXCEPT ![a] = @ + 1]
       ELSE /\ pc' = [pc EXCEPT ![a] = "decide"]
            /\ UNCHANGED round
    /\ UNCHANGED <<frames, frameCount, paused, turn, tableVars, started, admitted,
                   unrecorded, uncounted, erased, completed, faults>>

(* decide_and_authorize_tool: denied by the policy, by the gate or the     *)
(* choke, or because a check raised.                                       *)
DenyTool(a) ==
    /\ pc[a] = "decide"
    /\ ToolResult(a)
    /\ UNCHANGED ran

(* Only an erasure's query matters here.                                   *)
Query(t) == IF t \in Forget THEN BOOLEAN ELSE {FALSE}

(* Mutant: the query is not looked at.                                     *)
DecideAnyForget(t, q) ==
    IF ToolPolicy[t] = "approval_required" /\ t \in Forget
    THEN "auto_execute" ELSE ToolPolicy[t]

(* decide_and_authorize_tool's decision on a call that carries a query of  *)
(* three characters or more, or none: an erasure by query needs no         *)
(* approval, one by coordinate keeps its policy.                           *)
Decide(t, q) ==
    IF ToolPolicy[t] = "approval_required" /\ t \in Forget /\ q
    THEN "auto_execute" ELSE ToolPolicy[t]

(* Mutant: a refusal ends the round without a result message.              *)
RefuseToolSilently(a, t, q) ==
    /\ pc[a] = "decide"
    /\ Decide(t, q) # "denied"
    /\ pc' = [pc EXCEPT ![a] = "llm"]
    /\ calls' = [calls EXCEPT ![a] = 0]
    /\ UNCHANGED <<frames, frameCount, paused, turn, round, owed, tableVars,
                   historyVars, faults>>

(* The call needs approval, by the decision or because choke_tool_call     *)
(* tightened it.  A request has no approval gate, a socket's wait times    *)
(* out: refused.                                                           *)
RefuseTool(a, t, q) ==
    /\ pc[a] = "decide"
    /\ Decide(t, q) # "denied"
    /\ ToolResult(a)
    /\ UNCHANGED ran

(* execute_tool_call; a failure or a timeout is a result as well.          *)
ExecuteTool(a, t, q) ==
    /\ pc[a] = "decide"
    /\ Decide(t, q) = "auto_execute"
    /\ ToolResult(a)
    /\ ran' = ran \cup {<<turn[a], t, q>>}

(* _store_turn, then the assistant's _persist_message.                     *)
PersistAssistant(a) ==
    /\ Goto(a, "store", "asstBump")
    /\ rows' = rows \cup {<<turn[a], "assistant">>}
    /\ UNCHANGED <<frames, frameCount, paused, turn, round, calls, owed, conv,
                   count, historyVars, faults>>

(* chat.done, or the response of a request.                                *)
FinishTurn(a) ==
    /\ pc[a] \in {"done", "message"}
    /\ ~paused[a]
    /\ pc' = [pc EXCEPT ![a] = "idle"]
    /\ completed' = IF pc[a] = "done" THEN completed \cup {turn[a]} ELSE completed
    /\ UNCHANGED <<frames, frameCount, paused, turn, round, calls, owed, tableVars,
                   started, admitted, unrecorded, uncounted, erased, ran, faults>>

Fault ==
    /\ faults < MaxFaults
    /\ faults' = faults + 1

(* A step raises, the process crashes or the client has left: a request    *)
(* ends in an error, a socket reports it and closes, but for a             *)
(* TimeoutError, after which it stays open.                                *)
TurnRaises(a) ==
    /\ pc[a] \in TurnStep
    /\ Fault
    /\ \/ /\ a \in Sockets
          /\ pc' = [pc EXCEPT ![a] = "gone"]
          /\ frames' = [frames EXCEPT ![a] = <<>>]
       \/ /\ pc' = [pc EXCEPT ![a] = "idle"]
          /\ UNCHANGED frames
    /\ round' = [round EXCEPT ![a] = 0]
    /\ calls' = [calls EXCEPT ![a] = 0]
    /\ owed' = [owed EXCEPT ![a] = 0]
    /\ unrecorded' = IF pc[a] = "userRow" THEN unrecorded \cup {turn[a]} ELSE unrecorded
    /\ uncounted' = CASE pc[a] = "userBump" -> uncounted \cup {<<turn[a], "user">>}
                      [] pc[a] = "asstBump" -> uncounted \cup {<<turn[a], "assistant">>}
                      [] OTHER -> uncounted
    /\ UNCHANGED <<frameCount, paused, turn, tableVars, started, admitted, erased,
                   ran, completed>>

-----------------------------------------------------------------------------
(* delete_conversation: two statements without a transaction               *)

DeleteMessages ==
    /\ conv = "present"
    /\ conv' = "clearing"
    /\ rows' = {}
    /\ erased' = erased \cup rows
    /\ UNCHANGED <<actorVars, count, started, admitted, unrecorded, uncounted, ran,
                   completed, faults>>

DeleteConversation ==
    /\ conv = "clearing"
    /\ conv' = "deleted"
    /\ UNCHANGED <<actorVars, rows, count, historyVars, faults>>

DeleteRaises ==
    /\ conv = "clearing"
    /\ conv' = "present"
    /\ Fault
    /\ UNCHANGED <<actorVars, rows, count, historyVars>>

-----------------------------------------------------------------------------
TurnSteps(a) ==
    \/ LoadConversation(a) \/ GatePasses(a) \/ TurnDegrades(a)
    \/ PersistUserTranscript(a) \/ BumpMessageCount(a) \/ GatherContext(a)
    \/ ModelAnswers(a) \/ ModelCallsTools(a) \/ DenyTool(a)
    \/ \E t \in Tools : \E q \in Query(t) : RefuseTool(a, t, q) \/ ExecuteTool(a, t, q)
    \/ PersistAssistant(a) \/ FinishTurn(a)

Next ==
    \/ \E s \in Sockets : \/ \E f \in Frame : SendFrame(s, f)
                          \/ HandleChat(s) \/ HandleControl(s)
                          \/ Connect(s) \/ Disconnect(s)
    \/ \E r \in Requests : StartRequest(r)
    \/ \E a \in Actors : TurnSteps(a) \/ TurnRaises(a)
    \/ DeleteMessages \/ DeleteConversation \/ DeleteRaises

Spec == Init /\ [][Next]_vars

(* Every await of a turn ends: in an answer, an exception or its timeout.  *)
FairSpec ==
    /\ Spec
    /\ \A a \in Actors : WF_vars(TurnSteps(a))
    /\ \A s \in Sockets : WF_vars(HandleChat(s) \/ HandleControl(s))

-----------------------------------------------------------------------------
(* Properties                                                              *)

Written == rows \cup erased

(* Types, and no turn runs more rounds than the cap and the final one.     *)
TypeOK ==
    /\ pc \in [Actors -> TurnStep \cup {"idle", "gone"}]
    /\ frames \in [Sockets -> Seq(Frame)]
    /\ frameCount \in [Sockets -> 0..MaxFrames]
    /\ paused \in [Actors -> BOOLEAN]
    /\ turn \in [Actors -> 0..MaxTurns]
    /\ round \in [Actors -> 0..MaxIterations + 1]
    /\ calls \in [Actors -> 0..MaxCalls]
    /\ owed \in [Actors -> Nat]
    /\ conv \in {"present", "clearing", "deleted"}
    /\ rows \subseteq Turn \X Role
    /\ count \in Nat
    /\ started \in 0..MaxTurns
    /\ admitted \subseteq Turn /\ unrecorded \subseteq Turn
    /\ uncounted \subseteq Turn \X Role /\ erased \subseteq Turn \X Role
    /\ ran \subseteq Turn \X Tools \X BOOLEAN
    /\ completed \subseteq Turn
    /\ faults \in 0..MaxFaults

(* "Increment Conversation.message_count (created 0, must be maintained)": *)
(* with turns of several tabs under way, rows being deleted and updates    *)
(* that raise, the count lacks exactly the rows whose update is about to   *)
(* run or has raised.                                                      *)
CountFollowsRows ==
    conv # "deleted" =>
        Cardinality(Written) =
            count + Cardinality({a \in Actors : pc[a] \in Bumping})
                  + Cardinality(uncounted)

(* "A failed turn must still leave its input in the transcript": however a *)
(* turn that passed the gate ends, its user row was written, and before    *)
(* the assistant's; a client told that a turn is done which was not        *)
(* degraded has both.                                                      *)
TranscriptKeepsTurns ==
    /\ \A t \in admitted \ unrecorded :
          \/ <<t, "user">> \in Written
          \/ \E a \in Actors : pc[a] = "userRow" /\ turn[a] = t
    /\ \A t \in Turn : <<t, "assistant">> \in Written => <<t, "user">> \in Written
    /\ \A t \in completed : <<t, "assistant">> \in Written

RunsUnasked(t, q) ==
    \/ ToolPolicy[t] = "auto_execute"
    \/ ToolPolicy[t] = "approval_required" /\ t \in Forget /\ q

(* A tool runs only when its policy lets it run unasked, since nobody can  *)
(* be asked, or when it erases by a query and its policy does not deny it; *)
(* and only for a turn whose input the transcript holds.                   *)
EffectsAreTraceable ==
    \A r \in ran :
        /\ RunsUnasked(r[2], r[3])
        /\ <<r[1], "user">> \in Written

(* The messages given to the model hold a result for each earlier tool     *)
(* call, as providers demand: denied, refused and failed calls too.        *)
ToolCallsAnswered ==
    \A a \in Actors : pc[a] \in {"llm", "store"} => owed[a] = 0

(* A turn of a socket that is not paused ends, whatever the model asks for.*)
TurnEnds ==
    \A a \in Actors :
        (pc[a] \in TurnStep /\ ~paused[a]) ~> (pc[a] \in {"idle", "gone"})

(* "hold token emission without dropping the turn; resume flushes the      *)
(* backlog naturally": a resume sent during a paused turn lets it end.     *)
ResumeReleases ==
    \A s \in Sockets :
        (pc[s] \in TurnStep /\ \E i \in 1..Len(frames[s]) : frames[s][i] = "resume")
            ~> (pc[s] \in {"idle", "gone"})

=============================================================================
