---------------------------- MODULE ToolExecutor ----------------------------
(***************************************************************************)
(* services/tool_executor: the consumer of tool.requests, its handler      *)
(* RequestHandler.handle and the ResultPublisher.  The loop around the     *)
(* handler is EventBus; while it is "handling", the handler takes the      *)
(* steps below, one per await that can fail, and returns or raises.        *)
(*                                                                         *)
(* What the choke, OPA, the registry and the tool answer is open.  A       *)
(* request is answered when its result is on tool.results or in the local  *)
(* outbox of DurablePublisher.  Audit, tool.start, the UI event and the    *)
(* feedback to SomaBrain are best effort: they never stop the handler.     *)
(*                                                                         *)
(* StoreAppends is FALSE of the service as its main module builds it: its  *)
(* store is Session.objects, which has no append_event.                    *)
(***************************************************************************)
EXTENDS Naturals, FiniteSets

CONSTANTS MaxLog, MaxFailures, Poison,  \* see EventBus
    Invalid,        \* requests without tenant, session_id or tool_name
    StoreAppends    \* executor.store has an append_event

ASSUME ExecutorAssumption ==
    /\ MaxLog \in Nat
    /\ MaxFailures \in Nat \ {0}
    /\ Poison \subseteq Nat
    /\ Invalid \subseteq Nat
    /\ StoreAppends \in BOOLEAN

VARIABLES logEnd, committed, position, consumer, failures, stop, delivered,
          handled               \* see EventBus
VARIABLES
    step,       \* where RequestHandler.handle is
    status,     \* the result status it is about to publish
    answers,    \* statuses published for each request
    payloads,   \* RequeueStore: identifiers with a payload key
    keyset,     \* RequeueStore: identifiers in the key set
    inflight,   \* the TOOL_INFLIGHT gauge
    owesDec     \* publish_result was called before inflight.dec()

Bus == INSTANCE EventBus
busVars == <<logEnd, committed, position, consumer, failures, stop, delivered,
             handled>>
requeueVars == <<payloads, keyset>>
gaugeVars == <<inflight, owesDec>>
handlerVars == <<step, status, answers, requeueVars, gaugeVars>>
vars == <<busVars, handlerVars>>

Request == 0..MaxLog
current == position - 1

(* "blocked": denied, or an approval is required that has no channel here. *)
Status == {"success", "error", "timeout", "circuit_open", "blocked"}
None == "none"
HandlerStep == {"idle", "validate", "policy", "requeue", "index", "registry",
                "execute", "running", "append", "publish", "telemetry",
                "returned", "raised"}

Goto(from, to) ==
    /\ step = from
    /\ step' = to

-----------------------------------------------------------------------------
(* The loop around the handler                                             *)

Deliver ==
    /\ Bus!Deliver
    /\ Goto("idle", "validate")
    /\ UNCHANGED <<status, answers, requeueVars, gaugeVars>>

(* The handler's locals are gone; what it has done stays done.             *)
Leave ==
    /\ step' = "idle"
    /\ status' = None
    /\ owesDec' = FALSE
    /\ UNCHANGED <<answers, requeueVars>>

HandlerReturns ==
    /\ step = "returned"
    /\ Bus!HandlerReturns
    /\ Leave
    /\ UNCHANGED inflight

HandlerRaises ==
    /\ step = "raised"
    /\ Bus!Raises
    /\ Leave
    /\ UNCHANGED inflight

(* The rest of the loop, with no handler running.                          *)
BusStep(A) ==
    /\ consumer # "handling"
    /\ A
    /\ UNCHANGED handlerVars

(* Mutant of Start: every start is at the end of the topic.                *)
StartAtEnd ==
    /\ consumer = "starting"
    /\ consumer' = "polling"
    /\ position' = logEnd
    /\ UNCHANGED <<logEnd, committed, failures, stop, delivered, handled, handlerVars>>

Start == BusStep(Bus!Start)
Commit == BusStep(Bus!Commit)
BackoffElapses == BusStep(Bus!BackoffElapses)
BusError == BusStep(Bus!Raises) \/ BusStep(Bus!CommitRaises)

Produce ==
    /\ Bus!Produce
    /\ UNCHANGED handlerVars

(* A new process, whose gauge starts at 0.                                 *)
Crash == Bus!Crash /\ Leave /\ inflight' = 0
Restart == Bus!Restart /\ Leave /\ inflight' = 0

-----------------------------------------------------------------------------
(* RequestHandler.handle                                                   *)

(* The consumer's json.loads, then validate_tool_request: a message that   *)
(* is not JSON raises, an invalid request is logged and dropped.           *)
Validate ==
    /\ \/ Goto("validate", "raised") /\ current \in Poison
       \/ Goto("validate", "returned") /\ current \in Invalid \ Poison
       \/ Goto("validate", "policy") /\ current \notin Invalid \cup Poison
    /\ UNCHANGED <<busVars, status, answers, requeueVars, gaugeVars>>

(* _check_policy: the choke and OPA allow; or one denies and the event is  *)
(* requeued; or one fails, which stops the request as an error.            *)
CheckPolicy ==
    /\ \/ Goto("policy", "registry") /\ UNCHANGED status
       \/ Goto("policy", "requeue") /\ status' = "blocked"
       \/ Goto("policy", "append") /\ status' = "error"
    /\ UNCHANGED <<busVars, answers, requeueVars, gaugeVars>>

(* RequeueStore.add: SET, then SADD.                                       *)
RequeueSet ==
    /\ Goto("requeue", "index")
    /\ payloads' = payloads \cup {current}
    /\ UNCHANGED <<busVars, status, answers, keyset, gaugeVars>>

(* Mutant of RequeueIndex: an error of the second call is swallowed.       *)
RequeueIndexSwallowed ==
    /\ Goto("index", "append")
    /\ keyset' \in {keyset, keyset \cup {current}}
    /\ UNCHANGED <<busVars, status, answers, payloads, gaugeVars>>

RequeueIndex ==
    /\ Goto("index", "append")
    /\ keyset' = keyset \cup {current}
    /\ UNCHANGED <<busVars, status, answers, payloads, gaugeVars>>

(* tool_registry.get; an unknown tool is answered with an error.           *)
Lookup ==
    /\ \/ Goto("registry", "execute") /\ UNCHANGED status
       \/ Goto("registry", "append") /\ status' = "error"
    /\ UNCHANGED <<busVars, answers, requeueVars, gaugeVars>>

(* _execute_tool counts the execution in and calls ExecutionEngine.execute.*)
Execute ==
    /\ Goto("execute", "running")
    /\ inflight' = inflight + 1
    /\ UNCHANGED <<busVars, status, answers, requeueVars, owesDec>>

(* The engine returned a result: success, an error or time limit caught by *)
(* the sandbox or the engine, or circuit_open.  dec() comes first.         *)
ToolReturns ==
    /\ Goto("running", "append")
    /\ status' \in {"success", "error", "timeout", "circuit_open"}
    /\ inflight' = inflight - 1
    /\ UNCHANGED <<busVars, answers, requeueVars, owesDec>>

(* ToolExecutionError, or any other exception: publish_result, then dec(). *)
ToolRaises ==
    /\ Goto("running", "append")
    /\ status' = "error"
    /\ owesDec' = TRUE
    /\ UNCHANGED <<busVars, answers, requeueVars, inflight>>

-----------------------------------------------------------------------------
(* ResultPublisher.publish                                                 *)

(* executor.store.append_event: an AttributeError where there is no such   *)
(* method.                                                                 *)
AppendEvent ==
    /\ step = "append"
    /\ step' = IF StoreAppends THEN "publish" ELSE "raised"
    /\ UNCHANGED <<busVars, status, answers, requeueVars, gaugeVars>>

Answer == answers' = [answers EXCEPT ![current] = @ \cup {status}]

(* DurablePublisher.publish: on the topic, or in the outbox.               *)
PublishResult ==
    /\ Goto("publish", "telemetry")
    /\ Answer
    /\ UNCHANGED <<busVars, status, requeueVars, gaugeVars>>

(* Mutant of EmitTelemetry: dec() runs on every path, in a finally clause. *)
EmitTelemetryDec ==
    /\ Goto("telemetry", "returned")
    /\ inflight' = inflight - 1
    /\ UNCHANGED <<busVars, status, answers, requeueVars, owesDec>>

(* emit_tool_execution, the last await that can raise; back in the handler *)
(* the except branches of _execute_tool count the execution out.           *)
EmitTelemetry ==
    /\ Goto("telemetry", "returned")
    /\ inflight' = IF owesDec THEN inflight - 1 ELSE inflight
    /\ UNCHANGED <<busVars, status, answers, requeueVars, owesDec>>

(* Mutant of StepRaises: publish_result's errors are swallowed.            *)
StepRaisesSwallowed ==
    /\ step \in {"requeue", "index", "append", "publish", "telemetry"}
    /\ step' = IF step \in {"requeue", "index"} THEN "raised" ELSE "returned"
    /\ UNCHANGED <<busVars, status, answers, requeueVars, gaugeVars>>

(* Redis, the session store, or Kafka and the outbox both, fail; a publish *)
(* that timed out may have reached the topic.                              *)
StepRaises ==
    /\ step \in {"requeue", "index", "append", "publish", "telemetry"}
    /\ step = "append" => StoreAppends
    /\ step' = "raised"
    /\ UNCHANGED answers \/ (step = "publish" /\ Answer)
    /\ UNCHANGED <<busVars, status, requeueVars, gaugeVars>>

Init ==
    /\ Bus!Init
    /\ step = "idle"
    /\ status = None
    /\ answers = [r \in Request |-> {}]
    /\ payloads = {} /\ keyset = {}
    /\ inflight = 0 /\ owesDec = FALSE

Handle ==
    \/ Validate \/ CheckPolicy \/ RequeueSet \/ RequeueIndex \/ Lookup
    \/ Execute \/ ToolReturns \/ ToolRaises
    \/ AppendEvent \/ PublishResult \/ EmitTelemetry \/ StepRaises

Loop ==
    \/ Deliver \/ HandlerReturns \/ HandlerRaises
    \/ Start \/ Commit \/ BackoffElapses \/ BusError

Next == Handle \/ Loop \/ Produce \/ Crash \/ Restart

Spec == Init /\ [][Next]_vars

-----------------------------------------------------------------------------
(* Type correctness of the handler's variables; the loop's are EventBus's. *)
TypeOK ==
    /\ Bus!TypeOK
    /\ step \in HandlerStep
    /\ status \in Status \cup {None}
    /\ answers \in [Request -> SUBSET Status]
    /\ payloads \subseteq Request
    /\ keyset \subseteq Request
    /\ inflight \in 0..(MaxFailures + 1)
    /\ owesDec \in BOOLEAN

(* A request the group moves past was answered or was not valid: no error  *)
(* of Redis, the store, Kafka, the outbox or the tool swallows it.         *)
HandledIsAnswered ==
    \A r \in handled : r \in Invalid \/ answers[r] # {}

(* A request answered "blocked" can be replayed by an operator: it is in   *)
(* the requeue store, payload and key set both, though add() is two calls. *)
BlockedIsListed ==
    \A r \in Request : "blocked" \in answers[r] => r \in payloads \cap keyset

(* The loop and its handler together: once the group has an offset, the    *)
(* broker's copy of it moves forward only, and past a request only when    *)
(* that was answered or was not valid, whatever raised, crashed or was     *)
(* delivered again between the tool and the commit.                        *)
CommitsOnlyAnswered ==
    [][committed' # committed =>
          /\ committed' > committed
          /\ committed > 0 =>
                \A r \in committed..(committed' - 1) :
                    r \in Invalid \/ answers[r] # {}]_vars

=============================================================================
