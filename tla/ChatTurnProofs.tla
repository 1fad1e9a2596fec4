--------------------------- MODULE ChatTurnProofs ---------------------------
(***************************************************************************)
(* Proofs about ChatTurn, for any number of tabs and requests, any tools   *)
(* and policies and any limits.                                            *)
(*                                                                         *)
(* TypeInv adds to the types what bounds the tool loop: the calls of an    *)
(* answer are the ones that wait for a result message.  TurnInv says where *)
(* the rows of a turn are for each step its actor can be at; turns of      *)
(* several actors do not disturb each other because no two of them have    *)
(* the same turn.                                                          *)
(***************************************************************************)
EXTENDS ChatTurn, FiniteSetTheorems, TLAPS

(* Only while calls are being decided is a result message outstanding.     *)
LoopInv ==
    \A a \in Actors :
        /\ pc[a] # "decide" => calls[a] = 0 /\ owed[a] = 0
        /\ pc[a] = "decide" => /\ calls[a] >= 1 /\ owed[a] = calls[a]
                               /\ round[a] <= MaxIterations

(* An actor in a turn has one.                                             *)
BusyInv == \A a \in Actors : pc[a] \in TurnStep => turn[a] \in Turn

TypeInv == TypeOK /\ LoopInv /\ BusyInv

(* A frame less.                                                           *)
LEMMA NextFrames ==
    ASSUME NEW s \in Sockets, frames \in [Sockets -> Seq(Frame)], ReceiveFrame(s)
    PROVE  frames' \in [Sockets -> Seq(Frame)]
  <1>1. frames[s] \in Seq(Frame) /\ frames[s] # <<>>
    BY DEF ReceiveFrame
  <1>2. Tail(frames[s]) \in Seq(Frame)
    BY <1>1
  <1> QED
    BY <1>2 DEF ReceiveFrame

(* A new turn, of a tab or of a request.                                   *)
LEMMA StartType ==
    ASSUME TypeInv, NEW a \in Actors, StartTurn(a), frames' \in [Sockets -> Seq(Frame)]
    PROVE  TypeInv'
  <1> USE ChatAssumption DEF TypeInv
  <1>1. /\ pc' \in [Actors -> TurnStep \cup {"idle", "gone"}]
        /\ pc[a] = "idle" /\ pc'[a] = "load"
        /\ \A b \in Actors \ {a} : pc'[b] = pc[b]
    BY DEF StartTurn, Goto, TypeOK, TurnStep
  <1>2. /\ turn' \in [Actors -> 0..MaxTurns] /\ turn'[a] \in Turn
        /\ \A b \in Actors \ {a} : turn'[b] = turn[b]
        /\ started' \in 0..MaxTurns
    BY DEF StartTurn, TypeOK, Turn
  <1>3. UNCHANGED <<frameCount, paused, round, calls, owed, tableVars, admitted,
                    unrecorded, uncounted, erased, ran, completed, faults>>
    BY DEF StartTurn
  <1>4. LoopInv' /\ BusyInv'
    BY <1>1, <1>2, <1>3 DEF LoopInv, BusyInv
  <1> QED
    BY <1>1, <1>2, <1>3, <1>4 DEF TypeOK, tableVars

(* The invariant of the types holds initially.                             *)
LEMMA InitType == Init => TypeInv
  BY ChatAssumption DEF Init, TypeInv, TypeOK, LoopInv, BusyInv, TurnStep

(* Every step keeps it, action by action.                                  *)
LEMMA StepType == TypeInv /\ [Next]_vars => TypeInv'
  <1> SUFFICES ASSUME TypeInv, [Next]_vars PROVE TypeInv'
    OBVIOUS
  <1> USE ChatAssumption DEF TypeInv
  <1>1. ASSUME NEW s \in Sockets, NEW f \in Frame, SendFrame(s, f) PROVE TypeInv'
    BY <1>1 DEF SendFrame, TypeOK, LoopInv, BusyInv, tableVars, historyVars
  <1>2. ASSUME NEW s \in Sockets, HandleChat(s) PROVE TypeInv'
    <2>1. frames' \in [Sockets -> Seq(Frame)]
      BY <1>2, NextFrames DEF HandleChat, TypeOK
    <2>2. StartTurn(s) /\ s \in Actors
      BY <1>2 DEF HandleChat, Actors
    <2> QED
      BY <2>1, <2>2, StartType
  <1>3. ASSUME NEW s \in Sockets, HandleControl(s) PROVE TypeInv'
    <2>1. frames' \in [Sockets -> Seq(Frame)]
      BY <1>3, NextFrames DEF HandleControl, TypeOK
    <2>2. paused' \in [Actors -> BOOLEAN]
      BY <1>3 DEF HandleControl, TypeOK
    <2>3. UNCHANGED <<pc, frameCount, turn, round, calls, owed, tableVars, historyVars, faults>>
      BY <1>3 DEF HandleControl
    <2> QED
      BY <2>1, <2>2, <2>3 DEF TypeOK, LoopInv, BusyInv, tableVars, historyVars
  <1>4. ASSUME NEW s \in Sockets, Connect(s) PROVE TypeInv'
    BY <1>4 DEF Connect, Goto, TypeOK, LoopInv, BusyInv, tableVars, historyVars,
       TurnStep, Actors
  <1>5. ASSUME NEW s \in Sockets, Disconnect(s) PROVE TypeInv'
    <2>1. frames' \in [Sockets -> Seq(Frame)]
      BY <1>5 DEF Disconnect, TypeOK
    <2>2. /\ pc' \in [Actors -> TurnStep \cup {"idle", "gone"}]
          /\ pc[s] = "idle" /\ pc'[s] = "gone"
          /\ \A b \in Actors \ {s} : pc'[b] = pc[b]
      BY <1>5 DEF Disconnect, Goto, TypeOK, Actors
    <2>3. UNCHANGED <<frameCount, paused, turn, round, calls, owed, tableVars, historyVars,
                      faults>>
      BY <1>5 DEF Disconnect
    <2>4. LoopInv' /\ BusyInv'
      BY <2>2, <2>3 DEF LoopInv, BusyInv, TurnStep
    <2> QED
      BY <2>1, <2>2, <2>3, <2>4 DEF TypeOK, tableVars, historyVars
  <1>6. ASSUME NEW r \in Requests, StartRequest(r) PROVE TypeInv'
    <2>1. frames' \in [Sockets -> Seq(Frame)] /\ StartTurn(r) /\ r \in Actors
      BY <1>6 DEF StartRequest, TypeOK, Actors
    <2> QED
      BY <2>1, StartType
  <1>7. ASSUME NEW a \in Actors, LoadConversation(a) PROVE TypeInv'
    BY <1>7 DEF LoadConversation, Goto, TypeOK, LoopInv, BusyInv, tableVars, historyVars,
       TurnStep
  <1>8. ASSUME NEW a \in Actors, GatePasses(a) PROVE TypeInv'
    BY <1>8 DEF GatePasses, Goto, TypeOK, LoopInv, BusyInv, tableVars, TurnStep
  <1>9. ASSUME NEW a \in Actors, TurnDegrades(a) PROVE TypeInv'
    BY <1>9 DEF TurnDegrades, TypeOK, LoopInv, BusyInv, tableVars, historyVars, TurnStep
  <1>10. ASSUME NEW a \in Actors, PersistUserTranscript(a) PROVE TypeInv'
    BY <1>10 DEF PersistUserTranscript, Goto, TypeOK, LoopInv, BusyInv, historyVars,
       TurnStep, Role
  <1>11. ASSUME NEW a \in Actors, BumpMessageCount(a) PROVE TypeInv'
    <2>1. /\ pc' \in [Actors -> TurnStep \cup {"idle", "gone"}]
          /\ pc[a] \in TurnStep /\ pc[a] # "decide" /\ pc'[a] # "decide"
          /\ \A b \in Actors \ {a} : pc'[b] = pc[b]
      BY <1>11 DEF BumpMessageCount, Goto, TypeOK, TurnStep
    <2>2. count' \in Nat
      BY <1>11 DEF BumpMessageCount, TypeOK
    <2>3. UNCHANGED <<frames, frameCount, paused, turn, round, calls, owed, conv, rows,
                      historyVars, faults>>
      BY <1>11 DEF BumpMessageCount
    <2> QED
      BY <2>1, <2>2, <2>3 DEF TypeOK, LoopInv, BusyInv, historyVars
  <1>12. ASSUME NEW a \in Actors, GatherContext(a) PROVE TypeInv'
    BY <1>12 DEF GatherContext, Goto, TypeOK, LoopInv, BusyInv, tableVars, historyVars,
       TurnStep
  <1>13. ASSUME NEW a \in Actors, ModelAnswers(a) PROVE TypeInv'
    BY <1>13 DEF ModelAnswers, Goto, TypeOK, LoopInv, BusyInv, tableVars, historyVars,
       TurnStep
  <1>14. ASSUME NEW a \in Actors, ModelCallsTools(a) PROVE TypeInv'
    <2>1. PICK n \in 1..MaxCalls : /\ calls' = [calls EXCEPT ![a] = n]
                                   /\ owed' = [owed EXCEPT ![a] = @ + n]
      BY <1>14 DEF ModelCallsTools
    <2>2. /\ pc' \in [Actors -> TurnStep \cup {"idle", "gone"}]
          /\ pc[a] = "llm" /\ pc'[a] = "decide" /\ round[a] <= MaxIterations
          /\ \A b \in Actors \ {a} : pc'[b] = pc[b]
      BY <1>14 DEF ModelCallsTools, Goto, TypeOK, TurnStep
    <2>3. owed[a] = 0
      BY <2>2 DEF LoopInv
    <2>4. /\ calls' \in [Actors -> 0..MaxCalls] /\ owed' \in [Actors -> Nat]
          /\ calls'[a] = n /\ owed'[a] = n
          /\ \A b \in Actors \ {a} : calls'[b] = calls[b] /\ owed'[b] = owed[b]
      BY <2>1, <2>3 DEF TypeOK
    <2>5. UNCHANGED <<frames, frameCount, paused, turn, round, tableVars, historyVars, faults>>
      BY <1>14 DEF ModelCallsTools
    <2>6. LoopInv'
      BY <2>2, <2>4, <2>5 DEF LoopInv
    <2>7. BusyInv'
      BY <2>2, <2>5 DEF BusyInv, TurnStep
    <2> QED
      BY <2>2, <2>4, <2>5, <2>6, <2>7 DEF TypeOK, tableVars, historyVars
  <1>15. ASSUME NEW a \in Actors, pc[a] = "decide", ToolResult(a),
                ran' \subseteq Turn \X Tools \X BOOLEAN
         PROVE  TypeInv'
    <2>1. /\ calls[a] \in 1..MaxCalls /\ owed[a] = calls[a] /\ round[a] \in 0..MaxIterations
      BY <1>15 DEF LoopInv, TypeOK
    <2>2. /\ calls' \in [Actors -> 0..MaxCalls] /\ owed' \in [Actors -> Nat]
          /\ calls'[a] = calls[a] - 1 /\ owed'[a] = calls[a] - 1
          /\ \A b \in Actors \ {a} : calls'[b] = calls[b] /\ owed'[b] = owed[b]
      BY <1>15, <2>1 DEF ToolResult, TypeOK
    <2>3. /\ pc' \in [Actors -> TurnStep \cup {"idle", "gone"}]
          /\ pc'[a] = IF calls[a] = 1 THEN "llm" ELSE "decide"
          /\ \A b \in Actors \ {a} : pc'[b] = pc[b]
      BY <1>15 DEF ToolResult, TypeOK, TurnStep
    <2>4. /\ round' \in [Actors -> 0..MaxIterations + 1]
          /\ calls[a] # 1 => round'[a] = round[a]
          /\ \A b \in Actors \ {a} : round'[b] = round[b]
      <3>1. CASE calls[a] = 1
        <4>1. round' = [round EXCEPT ![a] = round[a] + 1]
          BY <1>15, <3>1 DEF ToolResult
        <4>2. round[a] + 1 \in 0..MaxIterations + 1
          BY <2>1
        <4> QED
          BY <3>1, <4>1, <4>2 DEF TypeOK
      <3>2. CASE calls[a] # 1
        BY <1>15, <2>1, <3>2 DEF ToolResult, TypeOK
      <3> QED
        BY <3>1, <3>2
    <2>5. UNCHANGED <<frames, frameCount, paused, turn, tableVars, started, admitted,
                      unrecorded, uncounted, erased, completed, faults>>
      BY <1>15 DEF ToolResult
    <2>6. LoopInv'
      BY <2>1, <2>2, <2>3, <2>4 DEF LoopInv
    <2> QED
      BY <1>15, <2>2, <2>3, <2>4, <2>5, <2>6 DEF TypeOK, BusyInv, tableVars, TurnStep
  <1>16. ASSUME NEW a \in Actors,
                \/ DenyTool(a)
                \/ \E t \in Tools : \E q \in Query(t) :
                      RefuseTool(a, t, q) \/ ExecuteTool(a, t, q)
         PROVE  TypeInv'
    <2>1. pc[a] = "decide" /\ ToolResult(a)
      BY <1>16 DEF DenyTool, RefuseTool, ExecuteTool
    <2>2. ran' \subseteq Turn \X Tools \X BOOLEAN
      <3>1. ran \subseteq Turn \X Tools \X BOOLEAN /\ turn[a] \in Turn
        BY <2>1 DEF TypeOK, BusyInv, TurnStep
      <3>2. \/ ran' = ran
            \/ \E t \in Tools, q \in BOOLEAN : ran' = ran \cup {<<turn[a], t, q>>}
        BY <1>16 DEF DenyTool, RefuseTool, ExecuteTool, Query
      <3> HIDE DEF TypeInv
      <3> QED
        BY <3>1, <3>2
    <2> QED
      BY <1>15, <2>1, <2>2
  <1>17. ASSUME NEW a \in Actors, PersistAssistant(a) PROVE TypeInv'
    BY <1>17 DEF PersistAssistant, Goto, TypeOK, LoopInv, BusyInv, historyVars,
       TurnStep, Role
  <1>18. ASSUME NEW a \in Actors, FinishTurn(a) PROVE TypeInv'
    BY <1>18 DEF FinishTurn, TypeOK, LoopInv, BusyInv, tableVars, TurnStep
  <1>19. ASSUME NEW a \in Actors, TurnRaises(a) PROVE TypeInv'
    <2>1. /\ pc' \in [Actors -> TurnStep \cup {"idle", "gone"}]
          /\ pc'[a] \in {"idle", "gone"}
          /\ \A b \in Actors \ {a} : pc'[b] = pc[b]
      <3>1. pc \in [Actors -> TurnStep \cup {"idle", "gone"}]
        BY DEF TypeOK
      <3>2. \E p \in {"idle", "gone"} : pc' = [pc EXCEPT ![a] = p]
        BY <1>19 DEF TurnRaises
      <3> HIDE DEF TypeInv
      <3> QED
        BY <3>1, <3>2
    <2>2. frames' \in [Sockets -> Seq(Frame)]
      <3>1. frames \in [Sockets -> Seq(Frame)] /\ <<>> \in Seq(Frame)
        BY DEF TypeOK
      <3>2. frames' = frames \/ frames' = [frames EXCEPT ![a] = <<>>]
        BY <1>19 DEF TurnRaises
      <3> HIDE DEF TypeInv
      <3> QED
        BY <3>1, <3>2
    <2>3. /\ round' \in [Actors -> 0..MaxIterations + 1] /\ calls' \in [Actors -> 0..MaxCalls]
          /\ owed' \in [Actors -> Nat] /\ calls'[a] = 0 /\ owed'[a] = 0
          /\ \A b \in Actors \ {a} : /\ calls'[b] = calls[b] /\ owed'[b] = owed[b]
                                     /\ round'[b] = round[b]
      <3>1. /\ round \in [Actors -> 0..MaxIterations + 1]
            /\ calls \in [Actors -> 0..MaxCalls] /\ owed \in [Actors -> Nat]
        BY DEF TypeOK
      <3>2. /\ round' = [round EXCEPT ![a] = 0] /\ calls' = [calls EXCEPT ![a] = 0]
            /\ owed' = [owed EXCEPT ![a] = 0]
        BY <1>19 DEF TurnRaises
      <3> HIDE DEF TypeInv
      <3> QED
        BY <3>1, <3>2
    <2>4. turn[a] \in Turn
      BY <1>19 DEF TurnRaises, BusyInv
    <2>5. unrecorded' \subseteq Turn /\ uncounted' \subseteq Turn \X Role
      <3>1. unrecorded \subseteq Turn /\ uncounted \subseteq Turn \X Role
        BY DEF TypeOK
      <3>2. /\ unrecorded' = unrecorded \/ unrecorded' = unrecorded \cup {turn[a]}
            /\ \/ uncounted' = uncounted
               \/ \E r \in Role : uncounted' = uncounted \cup {<<turn[a], r>>}
        BY <1>19 DEF TurnRaises, Role
      <3> HIDE DEF TypeInv
      <3> QED
        BY <2>4, <3>1, <3>2
    <2>6. faults' \in 0..MaxFaults
      <3>1. faults \in 0..MaxFaults /\ MaxFaults \in Nat
        BY DEF TypeOK
      <3>2. faults < MaxFaults /\ faults' = faults + 1
        BY <1>19 DEF TurnRaises, Fault
      <3> HIDE DEF TypeInv
      <3> QED
        BY <3>1, <3>2
    <2>7. UNCHANGED <<frameCount, paused, turn, tableVars, started, admitted, erased, ran,
                      completed>>
      BY <1>19 DEF TurnRaises
    <2>8. LoopInv' /\ BusyInv'
      BY <2>1, <2>3, <2>7 DEF LoopInv, BusyInv, TurnStep
    <2> QED
      BY <2>1, <2>2, <2>3, <2>5, <2>6, <2>7, <2>8 DEF TypeOK, tableVars
  <1>20. CASE DeleteMessages
    BY <1>20 DEF DeleteMessages, TypeOK, LoopInv, BusyInv, actorVars
  <1>21. CASE DeleteConversation \/ DeleteRaises
    BY <1>21 DEF DeleteConversation, DeleteRaises, Fault, TypeOK, LoopInv, BusyInv,
       actorVars, historyVars
  <1>22. CASE UNCHANGED vars
    BY <1>22 DEF vars, actorVars, tableVars, historyVars, TypeOK, LoopInv, BusyInv
  <1> QED
    BY <1>1, <1>2, <1>3, <1>4, <1>5, <1>6, <1>7, <1>8, <1>9, <1>10, <1>11, <1>12,
       <1>13, <1>14, <1>16, <1>17, <1>18, <1>19, <1>20, <1>21, <1>22 DEF Next, TurnSteps

(* Types, and no turn runs more rounds than TOOL_MAX_ITERATIONS and the    *)
(* final one without tools.                                                *)
THEOREM ChatTypeOK == Spec => []TypeOK
  BY InitType, StepType, PTL DEF Spec, TypeInv

(* The messages run_tool_loop hands to the model hold a result for every   *)
(* tool call.                                                              *)
THEOREM ChatToolCallsAnswered == Spec => []ToolCallsAnswered
  <1>1. TypeInv => ToolCallsAnswered
    BY DEF TypeInv, LoopInv, ToolCallsAnswered
  <1> QED
    BY <1>1, InitType, StepType, PTL DEF Spec

-----------------------------------------------------------------------------
UserRow(t) == <<t, "user">>
AsstRow(t) == <<t, "assistant">>
Answering == {"userBump", "gather", "llm", "decide", "store"}
Answered == {"asstBump", "done"}

(* No two actors have the same turn, and a turn that was not started has   *)
(* left nothing behind.                                                    *)
OwnTurns ==
    /\ \A a \in Actors : turn[a] <= started
    /\ \A a, b \in Actors : a # b /\ turn[a] = turn[b] => turn[a] = 0
    /\ \A t \in Turn : t > started =>
          t \notin admitted /\ UserRow(t) \notin Written /\ AsstRow(t) \notin Written

(* What a turn has left in the tables for each step its actor can be at.   *)
Placed ==
    \A a \in Actors :
        /\ pc[a] \in {"load", "gate"} =>
              /\ turn[a] \notin admitted
              /\ UserRow(turn[a]) \notin Written /\ AsstRow(turn[a]) \notin Written
        /\ pc[a] = "userRow" =>
              UserRow(turn[a]) \notin Written /\ AsstRow(turn[a]) \notin Written
        /\ pc[a] \in Answering =>
              UserRow(turn[a]) \in Written /\ AsstRow(turn[a]) \notin Written
        /\ pc[a] \in Answered =>
              UserRow(turn[a]) \in Written /\ AsstRow(turn[a]) \in Written

TurnInv == OwnTurns /\ Placed /\ TranscriptKeepsTurns /\ EffectsAreTraceable

(* No turn has begun initially.                                            *)
LEMMA InitTurn == Init => TurnInv
  <1> SUFFICES ASSUME Init PROVE TurnInv
    OBVIOUS
  <1>1. OwnTurns /\ Placed
    BY ChatAssumption DEF Init, OwnTurns, Placed, Written, Answering, Answered
  <1> QED
    BY <1>1 DEF Init, TurnInv, TranscriptKeepsTurns, EffectsAreTraceable, Written

(* A step of one actor that writes no row and ends where the rows of its   *)
(* turn are as they should be.                                             *)
LEMMA Moves ==
    ASSUME TypeInv, TurnInv, NEW a \in Actors,
           \A b \in Actors \ {a} : pc'[b] = pc[b],
           \/ pc'[a] \in {"idle", "gone", "message"} /\ pc[a] # "userRow"
           \/ pc[a] = "load" /\ pc'[a] = "gate"
           \/ pc[a] \in Answering /\ pc'[a] \in Answering
           \/ pc[a] \in Answered /\ pc'[a] \in Answered,
           Written' = Written,
           UNCHANGED <<turn, started, admitted, unrecorded>>
    PROVE  /\ OwnTurns' /\ Placed'
           /\ \A t \in admitted' \ unrecorded' :
                 \/ <<t, "user">> \in Written'
                 \/ \E b \in Actors : pc'[b] = "userRow" /\ turn'[b] = t
           /\ \A t \in Turn : <<t, "assistant">> \in Written' => <<t, "user">> \in Written'
  <1>1. OwnTurns'
    BY DEF TurnInv, OwnTurns, UserRow, AsstRow
  <1>2. ASSUME NEW b \in Actors
        PROVE  /\ pc'[b] \in {"load", "gate"} =>
                    /\ turn'[b] \notin admitted'
                    /\ UserRow(turn'[b]) \notin Written' /\ AsstRow(turn'[b]) \notin Written'
               /\ pc'[b] = "userRow" =>
                    UserRow(turn'[b]) \notin Written' /\ AsstRow(turn'[b]) \notin Written'
               /\ pc'[b] \in Answering =>
                    UserRow(turn'[b]) \in Written' /\ AsstRow(turn'[b]) \notin Written'
               /\ pc'[b] \in Answered =>
                    UserRow(turn'[b]) \in Written' /\ AsstRow(turn'[b]) \in Written'
    <2>1. CASE b # a
      BY <2>1 DEF TurnInv, Placed
    <2>2. CASE b = a
      BY <2>2 DEF TurnInv, Placed, Answering, Answered
    <2> QED
      BY <2>1, <2>2
  <1>3. Placed'
    BY <1>2 DEF Placed, UserRow, AsstRow
  <1>4. ASSUME NEW t \in admitted' \ unrecorded', <<t, "user">> \notin Written'
        PROVE  \E b \in Actors : pc'[b] = "userRow" /\ turn'[b] = t
    <2>1. PICK b \in Actors : pc[b] = "userRow" /\ turn[b] = t
      BY <1>4 DEF TurnInv, TranscriptKeepsTurns
    <2>2. b # a
      BY <2>1 DEF Answering, Answered
    <2> QED
      BY <2>1, <2>2
  <1>5. \A t \in Turn : <<t, "assistant">> \in Written' => <<t, "user">> \in Written'
    BY DEF TurnInv, TranscriptKeepsTurns
  <1> QED
    BY <1>1, <1>3, <1>4, <1>5

(* A turn starts with a number nobody has, and leaves the others alone.    *)
LEMMA StartPlaced ==
    ASSUME TypeInv, TurnInv, NEW a \in Actors, StartTurn(a)
    PROVE  TurnInv'
  <1> USE ChatAssumption
  <1>1. /\ pc[a] = "idle" /\ pc'[a] = "load" /\ \A b \in Actors \ {a} : pc'[b] = pc[b]
        /\ started' = started + 1 /\ turn'[a] = started + 1
        /\ \A b \in Actors \ {a} : turn'[b] = turn[b]
    BY DEF StartTurn, Goto, TypeInv, TypeOK
  <1>2. /\ started \in Nat /\ started + 1 \in Turn
        /\ \A b \in Actors : turn[b] \in Nat
    BY DEF StartTurn, TypeInv, TypeOK, Turn
  <1>3. /\ UNCHANGED <<admitted, unrecorded, ran, completed>>
        /\ Written' = Written
    BY DEF StartTurn, tableVars, Written
  <1>4. OwnTurns'
    <2>1. \A b \in Actors : turn'[b] <= started'
      BY <1>1, <1>2 DEF TurnInv, OwnTurns
    <2>2. \A b, c \in Actors : b # c /\ turn'[b] = turn'[c] => turn'[b] = 0
      BY <1>1, <1>2 DEF TurnInv, OwnTurns
    <2>3. \A t \in Turn : t > started' =>
             t \notin admitted' /\ UserRow(t) \notin Written' /\ AsstRow(t) \notin Written'
      BY <1>1, <1>2, <1>3 DEF TurnInv, OwnTurns, Turn
    <2> QED
      BY <2>1, <2>2, <2>3 DEF OwnTurns, UserRow, AsstRow
  <1>5. Placed'
    <2>1. /\ turn'[a] \notin admitted
          /\ UserRow(turn'[a]) \notin Written /\ AsstRow(turn'[a]) \notin Written
      BY <1>1, <1>2 DEF TurnInv, OwnTurns
    <2> QED
      BY <1>1, <1>3, <2>1 DEF TurnInv, Placed, Answering, Answered, UserRow, AsstRow
  <1>6. TranscriptKeepsTurns' /\ EffectsAreTraceable'
    BY <1>1, <1>3 DEF TurnInv, TranscriptKeepsTurns, EffectsAreTraceable
  <1> QED
    BY <1>4, <1>5, <1>6 DEF TurnInv

(* Every step keeps what is known of the rows of each turn.                *)
LEMMA StepTurn == TypeInv /\ TurnInv /\ [Next]_vars => TurnInv'
  <1> SUFFICES ASSUME TypeInv, TurnInv, [Next]_vars PROVE TurnInv'
    OBVIOUS
  <1>t. pc \in [Actors -> TurnStep \cup {"idle", "gone"}] /\ Sockets \subseteq Actors
    BY DEF TypeInv, TypeOK, Actors
  (* Steps of an actor between two writes.                                 *)
  <1>m. ASSUME NEW a \in Actors,
               \A b \in Actors \ {a} : pc'[b] = pc[b],
               \/ pc'[a] \in {"idle", "gone", "message"} /\ pc[a] # "userRow"
               \/ pc[a] = "load" /\ pc'[a] = "gate"
               \/ pc[a] \in Answering /\ pc'[a] \in Answering
               \/ pc[a] \in Answered /\ pc'[a] \in Answered,
               Written' = Written, UNCHANGED <<turn, started, admitted, unrecorded>>,
               \A t \in completed' \ completed : <<t, "assistant">> \in Written,
               \A r \in ran' \ ran :
                  RunsUnasked(r[2], r[3]) /\ <<r[1], "user">> \in Written
        PROVE  TurnInv'
    <2>1. /\ OwnTurns' /\ Placed'
          /\ \A t \in admitted' \ unrecorded' :
                 \/ <<t, "user">> \in Written'
                 \/ \E b \in Actors : pc'[b] = "userRow" /\ turn'[b] = t
          /\ \A t \in Turn : <<t, "assistant">> \in Written' => <<t, "user">> \in Written'
      BY <1>m, Moves
    <2>2. \A t \in completed' : <<t, "assistant">> \in Written'
      BY <1>m DEF TurnInv, TranscriptKeepsTurns
    <2>3. EffectsAreTraceable'
      BY <1>m DEF TurnInv, EffectsAreTraceable
    <2> QED
      BY <2>1, <2>2, <2>3 DEF TurnInv, TranscriptKeepsTurns
  (* Steps that move nobody.                                               *)
  <1>s. ASSUME UNCHANGED <<pc, turn, started, admitted, unrecorded, ran, completed>>,
               Written' = Written
        PROVE  TurnInv'
    BY <1>s DEF TurnInv, OwnTurns, Placed, TranscriptKeepsTurns, EffectsAreTraceable,
       UserRow, AsstRow
  <1>1. ASSUME NEW s \in Sockets, (\E f \in Frame : SendFrame(s, f)) \/ HandleControl(s)
        PROVE  TurnInv'
    BY <1>1, <1>s DEF SendFrame, HandleControl, tableVars, historyVars, Written
  <1>2. ASSUME NEW s \in Sockets, HandleChat(s) PROVE TurnInv'
    BY <1>2, <1>t, StartPlaced DEF HandleChat
  <1>3. ASSUME NEW r \in Requests, StartRequest(r) PROVE TurnInv'
    BY <1>3, StartPlaced DEF StartRequest, Actors
  <1>4. ASSUME NEW s \in Sockets, Connect(s) \/ Disconnect(s) PROVE TurnInv'
    <2>1. /\ s \in Actors /\ \A b \in Actors \ {s} : pc'[b] = pc[b]
          /\ pc'[s] \in {"idle", "gone"} /\ pc[s] # "userRow"
      BY <1>4, <1>t DEF Connect, Disconnect, Goto
    <2>2. UNCHANGED <<tableVars, historyVars, turn>>
      BY <1>4 DEF Connect, Disconnect
    <2> QED
      BY <2>1, <2>2, <1>m DEF tableVars, historyVars, Written
  <1>5. ASSUME NEW a \in Actors,
               \/ LoadConversation(a) \/ TurnDegrades(a) \/ GatherContext(a)
               \/ ModelAnswers(a) \/ ModelCallsTools(a)
        PROVE  TurnInv'
    <2>1. \A b \in Actors \ {a} : pc'[b] = pc[b]
      BY <1>5, <1>t DEF LoadConversation, TurnDegrades, GatherContext, ModelAnswers,
         ModelCallsTools, Goto
    <2>2. \/ pc'[a] \in {"idle", "gone", "message"} /\ pc[a] # "userRow"
          \/ pc[a] = "load" /\ pc'[a] = "gate"
          \/ pc[a] \in Answering /\ pc'[a] \in Answering
      BY <1>5, <1>t DEF LoadConversation, TurnDegrades, GatherContext, ModelAnswers,
         ModelCallsTools, Goto, Answering
    <2>3. UNCHANGED <<tableVars, historyVars, turn>>
      BY <1>5 DEF LoadConversation, TurnDegrades, GatherContext, ModelAnswers,
         ModelCallsTools
    <2> QED
      BY <2>1, <2>2, <2>3, <1>m DEF tableVars, historyVars, Written
  <1>6. ASSUME NEW a \in Actors, BumpMessageCount(a) PROVE TurnInv'
    <2>1. /\ \A b \in Actors \ {a} : pc'[b] = pc[b]
          /\ \/ pc[a] \in Answering /\ pc'[a] \in Answering
             \/ pc[a] \in Answered /\ pc'[a] \in Answered
      BY <1>6, <1>t DEF BumpMessageCount, Goto, Answering, Answered
    <2>2. UNCHANGED <<rows, historyVars, turn>>
      BY <1>6 DEF BumpMessageCount
    <2> QED
      BY <2>1, <2>2, <1>m DEF historyVars, Written
  <1>7. ASSUME NEW a \in Actors,
               \/ DenyTool(a)
               \/ \E t \in Tools : \E q \in Query(t) :
                     RefuseTool(a, t, q) \/ ExecuteTool(a, t, q)
        PROVE  TurnInv'
    <2>1. pc[a] = "decide" /\ ToolResult(a)
      BY <1>7 DEF DenyTool, RefuseTool, ExecuteTool
    <2>2. /\ \A b \in Actors \ {a} : pc'[b] = pc[b]
          /\ pc[a] \in Answering /\ pc'[a] \in Answering
      BY <2>1, <1>t DEF ToolResult, Answering
    <2>3. /\ UNCHANGED <<turn, started, admitted, unrecorded, completed>>
          /\ Written' = Written
      BY <2>1 DEF ToolResult, tableVars, Written
    <2>4. <<turn[a], "user">> \in Written
      BY <2>2 DEF TurnInv, Placed, UserRow
    <2>5. \A r \in ran' \ ran : RunsUnasked(r[2], r[3]) /\ <<r[1], "user">> \in Written
      <3> SUFFICES ASSUME NEW r \in ran' \ ran
                   PROVE  RunsUnasked(r[2], r[3]) /\ <<r[1], "user">> \in Written
        OBVIOUS
      <3>1. PICK t \in Tools, q \in BOOLEAN :
               /\ Decide(t, q) = "auto_execute" /\ r = <<turn[a], t, q>>
        BY <1>7 DEF DenyTool, RefuseTool, ExecuteTool, Query
      <3>2. RunsUnasked(t, q)
        BY <3>1 DEF Decide, RunsUnasked
      <3> QED
        BY <2>4, <3>1, <3>2
    <2> QED
      BY <2>2, <2>3, <2>5, <1>m
  <1>8. ASSUME NEW a \in Actors, FinishTurn(a) PROVE TurnInv'
    <2>1. /\ \A b \in Actors \ {a} : pc'[b] = pc[b]
          /\ pc'[a] = "idle" /\ pc[a] \in {"done", "message"}
      BY <1>8, <1>t DEF FinishTurn
    <2>2. /\ UNCHANGED <<turn, started, admitted, unrecorded, ran>>
          /\ Written' = Written
      BY <1>8 DEF FinishTurn, tableVars, Written
    <2>3. \A t \in completed' \ completed : <<t, "assistant">> \in Written
      BY <1>8 DEF FinishTurn, TurnInv, Placed, Answered, AsstRow
    <2> QED
      BY <2>1, <2>2, <2>3, <1>m
  (* The steps that write: the other actors have other turns.              *)
  <1>9. ASSUME NEW a \in Actors, GatePasses(a) PROVE TurnInv'
    <2>1. /\ pc[a] = "gate" /\ pc'[a] = "userRow"
          /\ \A b \in Actors \ {a} : pc'[b] = pc[b]
          /\ admitted' = admitted \cup {turn[a]} /\ Written' = Written
          /\ UNCHANGED <<turn, started, unrecorded, ran, completed>>
      BY <1>9, <1>t DEF GatePasses, Goto, tableVars, Written
    <2>2. turn[a] \in Turn /\ turn[a] # 0
      BY <2>1 DEF TypeInv, BusyInv, TurnStep, Turn
    <2>3. \A b \in Actors \ {a} : turn[b] # turn[a]
      BY <2>2 DEF TurnInv, OwnTurns
    <2>4. OwnTurns'
      <3>1. started \in Nat
        BY ChatAssumption DEF TypeInv, TypeOK
      <3>2. \A t \in Turn : t > started => t # turn[a]
        BY <2>2, <3>1 DEF TurnInv, OwnTurns, Turn
      <3> QED
        BY <2>1, <3>2 DEF TurnInv, OwnTurns, UserRow, AsstRow
    <2>5. Placed'
      BY <2>1, <2>3 DEF TurnInv, Placed, Answering, Answered, UserRow, AsstRow
    <2>6. TranscriptKeepsTurns' /\ EffectsAreTraceable'
      BY <2>1 DEF TurnInv, TranscriptKeepsTurns, EffectsAreTraceable
    <2> QED
      BY <2>4, <2>5, <2>6 DEF TurnInv
  <1>10. ASSUME NEW a \in Actors, PersistUserTranscript(a) PROVE TurnInv'
    <2>1. /\ pc[a] = "userRow" /\ pc'[a] = "userBump"
          /\ \A b \in Actors \ {a} : pc'[b] = pc[b]
          /\ Written' = Written \cup {UserRow(turn[a])}
          /\ UNCHANGED <<turn, started, admitted, unrecorded, ran, completed>>
      BY <1>10, <1>t DEF PersistUserTranscript, Goto, historyVars, Written, UserRow
    <2>2. turn[a] \in Turn /\ turn[a] # 0
      BY <2>1 DEF TypeInv, BusyInv, TurnStep, Turn
    <2>3. \A b \in Actors \ {a} : turn[b] # turn[a]
      BY <2>2 DEF TurnInv, OwnTurns
    <2>r. /\ UserRow(turn[a]) \in Written' /\ AsstRow(turn[a]) \notin Written'
          /\ \A t : AsstRow(t) \in Written' <=> AsstRow(t) \in Written
          /\ \A t : t # turn[a] => (UserRow(t) \in Written' <=> UserRow(t) \in Written)
      BY <2>1 DEF TurnInv, Placed, UserRow, AsstRow
    <2>4. OwnTurns'
      <3>1. started \in Nat
        BY ChatAssumption DEF TypeInv, TypeOK
      <3>2. \A t \in Turn : t > started => t # turn[a]
        BY <2>2, <3>1 DEF TurnInv, OwnTurns, Turn
      <3> QED
        BY <2>1, <2>r, <3>2 DEF TurnInv, OwnTurns, UserRow, AsstRow
    <2>5. Placed'
      BY <2>1, <2>3, <2>r DEF TurnInv, Placed, Answering, Answered, UserRow, AsstRow
    <2>6. TranscriptKeepsTurns'
      <3>1. ASSUME NEW t \in admitted' \ unrecorded', <<t, "user">> \notin Written'
            PROVE  \E b \in Actors : pc'[b] = "userRow" /\ turn'[b] = t
        <4>1. t # turn[a] /\ <<t, "user">> \notin Written
          BY <3>1, <2>1 DEF UserRow
        <4>2. PICK b \in Actors : pc[b] = "userRow" /\ turn[b] = t
          BY <3>1, <2>1, <4>1 DEF TurnInv, TranscriptKeepsTurns
        <4> QED
          BY <2>1, <4>1, <4>2
      <3>2. /\ \A t \in Turn : <<t, "assistant">> \in Written' => <<t, "user">> \in Written'
            /\ \A t \in completed' : <<t, "assistant">> \in Written'
        BY <2>1, <2>r DEF TurnInv, TranscriptKeepsTurns, UserRow, AsstRow
      <3> QED
        BY <3>1, <3>2 DEF TranscriptKeepsTurns
    <2>7. EffectsAreTraceable'
      BY <2>1 DEF TurnInv, EffectsAreTraceable
    <2> QED
      BY <2>4, <2>5, <2>6, <2>7 DEF TurnInv
  <1>11. ASSUME NEW a \in Actors, PersistAssistant(a) PROVE TurnInv'
    <2>1. /\ pc[a] = "store" /\ pc'[a] = "asstBump"
          /\ \A b \in Actors \ {a} : pc'[b] = pc[b]
          /\ Written' = Written \cup {AsstRow(turn[a])}
          /\ UNCHANGED <<turn, started, admitted, unrecorded, ran, completed>>
      BY <1>11, <1>t DEF PersistAssistant, Goto, historyVars, Written, AsstRow
    <2>2. turn[a] \in Turn /\ turn[a] # 0
      BY <2>1 DEF TypeInv, BusyInv, TurnStep, Turn
    <2>3. \A b \in Actors \ {a} : turn[b] # turn[a]
      BY <2>2 DEF TurnInv, OwnTurns
    <2>r. /\ AsstRow(turn[a]) \in Written' /\ UserRow(turn[a]) \in Written'
          /\ \A t : UserRow(t) \in Written' <=> UserRow(t) \in Written
          /\ \A t : t # turn[a] => (AsstRow(t) \in Written' <=> AsstRow(t) \in Written)
      BY <2>1 DEF TurnInv, Placed, Answering, UserRow, AsstRow
    <2>4. OwnTurns'
      <3>1. started \in Nat
        BY ChatAssumption DEF TypeInv, TypeOK
      <3>2. \A t \in Turn : t > started => t # turn[a]
        BY <2>2, <3>1 DEF TurnInv, OwnTurns, Turn
      <3> QED
        BY <2>1, <2>r, <3>2 DEF TurnInv, OwnTurns, UserRow, AsstRow
    <2>5. Placed'
      BY <2>1, <2>3, <2>r DEF TurnInv, Placed, Answering, Answered, UserRow, AsstRow
    <2>6. TranscriptKeepsTurns'
      <3>1. ASSUME NEW t \in admitted' \ unrecorded', <<t, "user">> \notin Written'
            PROVE  \E b \in Actors : pc'[b] = "userRow" /\ turn'[b] = t
        <4>1. PICK b \in Actors : pc[b] = "userRow" /\ turn[b] = t
          BY <3>1, <2>1 DEF TurnInv, TranscriptKeepsTurns
        <4> QED
          BY <2>1, <4>1
      <3>2. /\ \A t \in Turn : <<t, "assistant">> \in Written' => <<t, "user">> \in Written'
            /\ \A t \in completed' : <<t, "assistant">> \in Written'
        <4>1. \A t \in Turn : AsstRow(t) \in Written' => UserRow(t) \in Written'
          BY <2>r DEF TurnInv, TranscriptKeepsTurns, UserRow, AsstRow
        <4>2. \A t \in completed' : AsstRow(t) \in Written'
          BY <2>1 DEF TurnInv, TranscriptKeepsTurns, AsstRow
        <4> QED
          BY <4>1, <4>2 DEF UserRow, AsstRow
      <3> QED
        BY <3>1, <3>2 DEF TranscriptKeepsTurns
    <2>7. EffectsAreTraceable'
      BY <2>1 DEF TurnInv, EffectsAreTraceable
    <2> QED
      BY <2>4, <2>5, <2>6, <2>7 DEF TurnInv
  <1>12. ASSUME NEW a \in Actors, TurnRaises(a) PROVE TurnInv'
    <2>1. /\ pc'[a] \in {"idle", "gone"} /\ \A b \in Actors \ {a} : pc'[b] = pc[b]
          /\ unrecorded' = IF pc[a] = "userRow" THEN unrecorded \cup {turn[a]}
                                                ELSE unrecorded
          /\ Written' = Written
          /\ UNCHANGED <<turn, started, admitted, ran, completed>>
      BY <1>12, <1>t DEF TurnRaises, tableVars, Written
    <2>2. OwnTurns' /\ Placed'
      BY <2>1 DEF TurnInv, OwnTurns, Placed, Answering, Answered, UserRow, AsstRow
    <2>3. ASSUME NEW t \in admitted' \ unrecorded', <<t, "user">> \notin Written'
          PROVE  \E b \in Actors : pc'[b] = "userRow" /\ turn'[b] = t
      <3>1. PICK b \in Actors : pc[b] = "userRow" /\ turn[b] = t
        BY <2>1, <2>3 DEF TurnInv, TranscriptKeepsTurns
      <3>2. b # a
        BY <2>1, <2>3, <3>1
      <3> QED
        BY <2>1, <3>1, <3>2
    <2>4. TranscriptKeepsTurns' /\ EffectsAreTraceable'
      BY <2>1, <2>3 DEF TurnInv, TranscriptKeepsTurns, EffectsAreTraceable
    <2> QED
      BY <2>2, <2>4 DEF TurnInv
  <1>13. CASE DeleteMessages \/ DeleteConversation \/ DeleteRaises
    BY <1>13, <1>s DEF DeleteMessages, DeleteConversation, DeleteRaises, actorVars,
       historyVars, Written
  <1>14. CASE UNCHANGED vars
    BY <1>14, <1>s DEF vars, actorVars, tableVars, historyVars, Written
  <1> QED
    BY <1>1, <1>2, <1>3, <1>4, <1>5, <1>6, <1>7, <1>8, <1>9, <1>10, <1>11, <1>12, <1>13,
       <1>14 DEF Next, TurnSteps

(* "A failed turn must still leave its input in the transcript", in every  *)
(* interleaving of tabs, requests, failures and the deletion.              *)
THEOREM ChatTranscriptKeepsTurns == Spec => []TranscriptKeepsTurns
  <1>1. TurnInv => TranscriptKeepsTurns
    BY DEF TurnInv
  <1> QED
    BY <1>1, InitType, StepType, InitTurn, StepTurn, PTL DEF Spec

(* run_tool_loop runs a tool only when its policy says auto_execute, or to *)
(* erase by a query what its policy does not deny, and only for a turn     *)
(* whose input was recorded.                                               *)
THEOREM ChatEffectsAreTraceable == Spec => []EffectsAreTraceable
  <1>1. TurnInv => EffectsAreTraceable
    BY DEF TurnInv
  <1> QED
    BY <1>1, InitType, StepType, InitTurn, StepTurn, PTL DEF Spec

-----------------------------------------------------------------------------
Bumpers == {a \in Actors : pc[a] \in Bumping}

(* A row is counted, about to be counted or uncounted: one of the three.   *)
CountInv ==
    /\ CountFollowsRows
    /\ uncounted \subseteq Written
    /\ \A a \in Actors : /\ pc[a] = "userBump" => UserRow(turn[a]) \notin uncounted
                         /\ pc[a] = "asstBump" => AsstRow(turn[a]) \notin uncounted

(* The sets that are counted are finite.                                   *)
LEMMA FiniteSets ==
    ASSUME TypeOK
    PROVE  /\ IsFiniteSet(Written) /\ Cardinality(Written) \in Nat
           /\ IsFiniteSet(Bumpers) /\ Cardinality(Bumpers) \in Nat
           /\ IsFiniteSet(uncounted) /\ Cardinality(uncounted) \in Nat
  <1>1. IsFiniteSet(Turn)
    BY ChatAssumption, FS_Interval DEF Turn
  <1>2. IsFiniteSet(Role)
    <2>1. IsFiniteSet({} \cup {"user"})
      BY FS_EmptySet, FS_AddElement
    <2>2. IsFiniteSet(({} \cup {"user"}) \cup {"assistant"})
      BY <2>1, FS_AddElement
    <2>3. Role = ({} \cup {"user"}) \cup {"assistant"}
      BY DEF Role
    <2> QED
      BY <2>2, <2>3
  <1>3. IsFiniteSet(Turn \X Role)
    BY <1>1, <1>2, FS_Product
  <1>4. Written \in SUBSET (Turn \X Role) /\ uncounted \in SUBSET (Turn \X Role)
    BY DEF TypeOK, Written
  <1>5. IsFiniteSet(Written) /\ IsFiniteSet(uncounted)
    BY <1>3, <1>4, FS_Subset
  <1>6. IsFiniteSet(Bumpers)
    BY ChatAssumption, FS_Subset DEF Bumpers
  <1> QED
    BY <1>5, <1>6, FS_CardinalityType

(* Initially there is nothing to count.                                    *)
LEMMA InitCount == Init => CountInv
  <1> SUFFICES ASSUME Init PROVE CountInv
    OBVIOUS
  <1>a. \A a \in Actors : pc[a] \in {"idle", "gone"}
    BY DEF Init, Actors
  <1>1. Written = {} /\ Bumpers = {} /\ uncounted = {} /\ count = 0
    BY <1>a DEF Init, Written, Bumpers, Bumping
  <1>2. Cardinality({}) = 0
    BY FS_EmptySet
  <1>3. Cardinality(Written) = 0 /\ Cardinality(Bumpers) = 0 /\ Cardinality(uncounted) = 0
    BY <1>1, <1>2
  <1>4. Cardinality(Written) = count + Cardinality(Bumpers) + Cardinality(uncounted)
    BY <1>1, <1>3
  <1>5. CountFollowsRows
    BY <1>4 DEF CountFollowsRows, Bumpers
  <1> QED
    BY <1>a, <1>1, <1>5 DEF CountInv

(* Every step changes both sides of the equation alike.                    *)
LEMMA StepCount ==
    TypeInv /\ TypeInv' /\ TurnInv /\ CountInv /\ [Next]_vars => CountInv'
  <1> SUFFICES ASSUME TypeInv, TypeInv', TurnInv, CountInv, [Next]_vars PROVE CountInv'
    OBVIOUS
  <1>t. /\ pc \in [Actors -> TurnStep \cup {"idle", "gone"}] /\ Sockets \subseteq Actors
        /\ count \in Nat /\ Requests \subseteq Actors
    BY DEF TypeInv, TypeOK, Actors
  <1>f. /\ IsFiniteSet(Written) /\ Cardinality(Written) \in Nat
        /\ IsFiniteSet(Bumpers) /\ Cardinality(Bumpers) \in Nat
        /\ IsFiniteSet(uncounted) /\ Cardinality(uncounted) \in Nat
    BY FiniteSets DEF TypeInv
  <1>c. conv # "deleted" =>
           Cardinality(Written) = count + Cardinality(Bumpers) + Cardinality(uncounted)
    BY DEF CountInv, CountFollowsRows, Bumpers
  <1>q. CountFollowsRows' <=>
           (conv' # "deleted" =>
              Cardinality(Written') = count' + Cardinality(Bumpers') + Cardinality(uncounted'))
    BY DEF CountFollowsRows, Bumpers
  (* Steps that neither write a row nor reach or leave an update.          *)
  <1>m. ASSUME NEW a \in Actors,
               \A b \in Actors \ {a} : pc'[b] = pc[b] /\ turn'[b] = turn[b],
               pc[a] \notin Bumping, pc'[a] \notin Bumping,
               Written' = Written, UNCHANGED <<uncounted, count>>,
               conv = "deleted" => conv' = "deleted"
        PROVE  CountInv'
    <2>1. Bumpers' = Bumpers
      BY <1>m DEF Bumpers
    <2>2. CountFollowsRows'
      BY <1>m, <2>1, <1>c, <1>q
    <2> QED
      BY <1>m, <2>2 DEF CountInv, Bumping, UserRow, AsstRow
  <1>s. ASSUME UNCHANGED <<pc, turn, uncounted, count>>, Written' = Written,
               conv = "deleted" => conv' = "deleted"
        PROVE  CountInv'
    <2>1. Bumpers' = Bumpers
      BY <1>s DEF Bumpers
    <2>2. CountFollowsRows'
      BY <1>s, <2>1, <1>c, <1>q
    <2> QED
      BY <1>s, <2>2 DEF CountInv, UserRow, AsstRow
  <1>1. ASSUME NEW s \in Sockets, (\E f \in Frame : SendFrame(s, f)) \/ HandleControl(s)
        PROVE  CountInv'
    BY <1>1, <1>s DEF SendFrame, HandleControl, tableVars, historyVars, Written
  <1>2. ASSUME NEW a \in Actors, StartTurn(a) PROVE CountInv'
    <2>1. /\ \A b \in Actors \ {a} : pc'[b] = pc[b] /\ turn'[b] = turn[b]
          /\ pc[a] \notin Bumping /\ pc'[a] \notin Bumping
      BY <1>2, <1>t DEF StartTurn, Goto, Bumping, TypeInv, TypeOK
    <2>2. Written' = Written /\ UNCHANGED <<uncounted, count, conv>>
      BY <1>2 DEF StartTurn, tableVars, Written
    <2> QED
      BY <2>1, <2>2, <1>m
  <1>3. ASSUME NEW a \in Actors,
               \/ a \in Sockets /\ (Connect(a) \/ Disconnect(a))
               \/ LoadConversation(a) \/ GatePasses(a) \/ TurnDegrades(a)
               \/ GatherContext(a) \/ ModelAnswers(a) \/ ModelCallsTools(a)
               \/ FinishTurn(a)
        PROVE  CountInv'
    <2>1. /\ \A b \in Actors \ {a} : pc'[b] = pc[b]
          /\ pc[a] \notin Bumping /\ pc'[a] \notin Bumping
      BY <1>3, <1>t DEF Connect, Disconnect, LoadConversation, GatePasses, TurnDegrades,
         GatherContext, ModelAnswers, ModelCallsTools, FinishTurn, Goto, Bumping
    <2>2. Written' = Written /\ UNCHANGED <<turn, uncounted, count, conv>>
      BY <1>3 DEF Connect, Disconnect, LoadConversation, GatePasses, TurnDegrades,
         GatherContext, ModelAnswers, ModelCallsTools, FinishTurn, tableVars, historyVars,
         Written
    <2> QED
      BY <2>1, <2>2, <1>m
  <1>4. ASSUME NEW a \in Actors,
               \/ DenyTool(a)
               \/ \E t \in Tools : \E q \in Query(t) :
                     RefuseTool(a, t, q) \/ ExecuteTool(a, t, q)
        PROVE  CountInv'
    <2>1. pc[a] = "decide" /\ ToolResult(a)
      BY <1>4 DEF DenyTool, RefuseTool, ExecuteTool
    <2>2. /\ \A b \in Actors \ {a} : pc'[b] = pc[b]
          /\ pc[a] \notin Bumping /\ pc'[a] \notin Bumping
      BY <2>1, <1>t DEF ToolResult, Bumping
    <2>3. Written' = Written /\ UNCHANGED <<turn, uncounted, count, conv>>
      BY <2>1 DEF ToolResult, tableVars, Written
    <2> QED
      BY <2>2, <2>3, <1>m
  (* A row is written, and its update is to follow.                        *)
  <1>5. ASSUME NEW a \in Actors, PersistUserTranscript(a) \/ PersistAssistant(a)
        PROVE  CountInv'
    <2>1. PICK x : /\ x \in {UserRow(turn[a]), AsstRow(turn[a])}
                   /\ x \notin Written /\ Written' = Written \cup {x}
      <3>1. CASE PersistUserTranscript(a)
        <4>1. UserRow(turn[a]) \notin Written
          BY <3>1 DEF PersistUserTranscript, Goto, TurnInv, Placed
        <4>2. Written' = Written \cup {UserRow(turn[a])}
          BY <3>1 DEF PersistUserTranscript, historyVars, Written, UserRow
        <4> QED
          BY <4>1, <4>2
      <3>2. CASE PersistAssistant(a)
        <4>1. AsstRow(turn[a]) \notin Written
          BY <3>2 DEF PersistAssistant, Goto, TurnInv, Placed, Answering
        <4>2. Written' = Written \cup {AsstRow(turn[a])}
          BY <3>2 DEF PersistAssistant, historyVars, Written, AsstRow
        <4> QED
          BY <4>1, <4>2
      <3> QED
        BY <1>5, <3>1, <3>2
    <2>2. /\ pc[a] \notin Bumping /\ \A b \in Actors \ {a} : pc'[b] = pc[b]
          /\ \/ pc[a] = "userRow" /\ pc'[a] = "userBump"
             \/ pc[a] = "store" /\ pc'[a] = "asstBump"
          /\ UNCHANGED <<turn, uncounted, count, conv>>
      BY <1>5, <1>t DEF PersistUserTranscript, PersistAssistant, Goto, Bumping, historyVars
    <2>3. Bumpers' = Bumpers \cup {a} /\ a \notin Bumpers
      BY <2>2 DEF Bumpers, Bumping
    <2>4. /\ Cardinality(Written') = Cardinality(Written) + 1
          /\ Cardinality(Bumpers') = Cardinality(Bumpers) + 1
      BY <2>1, <2>3, <1>f, FS_AddElement
    <2>5. CountFollowsRows'
      BY <2>2, <2>4, <1>c, <1>f, <1>t, <1>q
    <2>6. /\ pc'[a] = "userBump" => UserRow(turn[a]) \notin uncounted
          /\ pc'[a] = "asstBump" => AsstRow(turn[a]) \notin uncounted
      BY <2>2 DEF CountInv, TurnInv, Placed, Answering
    <2> QED
      BY <2>1, <2>2, <2>5, <2>6 DEF CountInv, UserRow, AsstRow
  (* The update runs; it matches no row once the conversation is deleted.  *)
  <1>6. ASSUME NEW a \in Actors, BumpMessageCount(a) PROVE CountInv'
    <2>1. /\ pc[a] \in Bumping /\ pc'[a] \notin Bumping
          /\ \A b \in Actors \ {a} : pc'[b] = pc[b]
          /\ Written' = Written /\ UNCHANGED <<turn, uncounted, conv>>
          /\ conv # "deleted" => count' = count + 1
      BY <1>6, <1>t DEF BumpMessageCount, Goto, Bumping, historyVars, Written
    <2>2. Bumpers' = Bumpers \ {a} /\ a \in Bumpers
      BY <2>1 DEF Bumpers
    <2>3. Cardinality(Bumpers') = Cardinality(Bumpers) - 1
      BY <2>2, <1>f, FS_RemoveElement
    <2>4. CountFollowsRows'
      BY <2>1, <2>3, <1>c, <1>f, <1>t, <1>q
    <2> QED
      BY <2>1, <2>4 DEF CountInv, Bumping, UserRow, AsstRow
  (* The update raises: its row stays uncounted.                           *)
  <1>7. ASSUME NEW a \in Actors, TurnRaises(a) PROVE CountInv'
    <2>1. /\ pc'[a] \notin Bumping /\ pc'[a] \in {"idle", "gone"}
          /\ \A b \in Actors \ {a} : pc'[b] = pc[b]
          /\ Written' = Written /\ UNCHANGED <<turn, count, conv>>
      BY <1>7, <1>t DEF TurnRaises, Bumping, tableVars, Written
    <2>2. CASE pc[a] \notin Bumping
      <3>1. uncounted' = uncounted
        BY <1>7, <2>2 DEF TurnRaises, Bumping
      <3> QED
        BY <2>1, <2>2, <3>1, <1>m
    <2>3. CASE pc[a] \in Bumping
      <3> DEFINE x == IF pc[a] = "userBump" THEN UserRow(turn[a]) ELSE AsstRow(turn[a])
      <3>1. uncounted' = uncounted \cup {x} /\ x \notin uncounted /\ x \in Written
        BY <1>7, <2>3 DEF TurnRaises, Bumping, CountInv, UserRow, AsstRow, TurnInv, Placed,
           Answering, Answered
      <3>2. Bumpers' = Bumpers \ {a} /\ a \in Bumpers
        BY <2>1, <2>3 DEF Bumpers
      <3>3. turn[a] # 0 /\ \A b \in Actors \ {a} : turn[b] # turn[a]
        BY <2>3 DEF Bumping, TypeInv, BusyInv, TurnStep, Turn, TurnInv, OwnTurns
      <3>4. \A b \in Actors \ {a} : UserRow(turn[b]) # x /\ AsstRow(turn[b]) # x
        BY <3>3 DEF UserRow, AsstRow
      <3> HIDE DEF x
      <3>5. /\ Cardinality(Bumpers') = Cardinality(Bumpers) - 1
            /\ Cardinality(uncounted') = Cardinality(uncounted) + 1
        BY <3>1, <3>2, <1>f, FS_AddElement, FS_RemoveElement
      <3>6. CountFollowsRows'
        BY <2>1, <3>5, <1>c, <1>f, <1>t, <1>q
      <3>7. \A b \in Actors : /\ pc'[b] = "userBump" => UserRow(turn'[b]) \notin uncounted'
                              /\ pc'[b] = "asstBump" => AsstRow(turn'[b]) \notin uncounted'
        BY <2>1, <3>1, <3>4 DEF CountInv
      <3> QED
        BY <2>1, <3>1, <3>6, <3>7 DEF CountInv, UserRow, AsstRow
    <2> QED
      BY <2>2, <2>3
  <1>8. CASE DeleteMessages \/ DeleteConversation \/ DeleteRaises
    BY <1>8, <1>s DEF DeleteMessages, DeleteConversation, DeleteRaises, actorVars,
       historyVars, Written
  <1>9. CASE UNCHANGED vars
    BY <1>9, <1>s DEF vars, actorVars, tableVars, historyVars, Written
  <1>10. ASSUME NEW s \in Sockets, HandleChat(s) \/ Connect(s) \/ Disconnect(s)
         PROVE  CountInv'
    BY <1>10, <1>2, <1>3, <1>t DEF HandleChat
  <1>11. ASSUME NEW r \in Requests, StartRequest(r) PROVE CountInv'
    BY <1>11, <1>2, <1>t DEF StartRequest
  <1> QED
    BY <1>1, <1>3, <1>4, <1>5, <1>6, <1>7, <1>8, <1>9, <1>10, <1>11 DEF Next, TurnSteps

(* "Increment Conversation.message_count (created 0, must be maintained)": *)
(* the count lacks exactly the rows whose update is to come or has raised. *)
THEOREM ChatCountFollowsRows == Spec => []CountFollowsRows
  <1>1. CountInv => CountFollowsRows
    BY DEF CountInv
  <1> QED
    BY <1>1, InitType, StepType, InitTurn, StepTurn, InitCount, StepCount, PTL DEF Spec
=============================================================================
