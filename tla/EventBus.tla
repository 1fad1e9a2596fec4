------------------------------ MODULE EventBus ------------------------------
(***************************************************************************)
(* KafkaEventBus.consume of services/common/event_bus.py: one consumer of  *)
(* one topic partition, the process around it and the group offset at the  *)
(* broker.  Every service of the repository that reads Kafka (memory       *)
(* replicator, tool executor, conversation and delegation workers) runs    *)
(* this loop with a handler of its own; here a handler returns or raises.  *)
(*                                                                         *)
(* Messages are their offsets 0, 1, ...; a commit stores the consumer's    *)
(* position, one past the last message handed out, so `committed = 0`      *)
(* means that the group has no committed offset.  The consumer is created  *)
(* without auto_offset_reset: aiokafka's default, "latest", applies.       *)
(***************************************************************************)
EXTENDS Naturals, FiniteSets

CONSTANTS
    MaxLog,         \* bound: messages produced on the topic
    MaxFailures,    \* max_consecutive_failures
    Poison          \* messages whose handling always raises (bad JSON, say)

ASSUME EventBusAssumption ==
    /\ MaxLog \in Nat
    /\ MaxFailures \in Nat \ {0}
    /\ Poison \subseteq Nat

VARIABLES
    logEnd,     \* messages produced so far
    committed,  \* the group's offset at the broker, 0 when there is none
    position,   \* next offset the running consumer hands out
    consumer,   \* where consume() is
    failures,   \* failure_count
    stop,       \* stop_event.is_set()
    delivered,  \* offsets handed to the handler (history)
    handled     \* offsets whose handler has returned (history)

busVars == <<logEnd, committed, position, consumer, failures, stop, delivered,
             handled>>

Offset == 0..MaxLog

(* "starting": AIOKafkaConsumer.start(); "polling": async for; "handling": *)
(* the handler runs; "commit": consumer.commit(); "backoff": sleeping;     *)
(* "done": left by stop_event; "gaveUp": stopped retrying.                 *)
ConsumerPc == {"starting", "polling", "handling", "commit", "backoff", "done",
               "gaveUp"}
Ended == {"done", "gaveUp"}

Current == position - 1     \* the message being handled

-----------------------------------------------------------------------------
Produce ==
    /\ logEnd < MaxLog
    /\ logEnd' = logEnd + 1
    /\ UNCHANGED <<committed, position, consumer, failures, stop, delivered,
                   handled>>

StartPosition == IF committed = 0 THEN logEnd ELSE committed

Start ==
    /\ consumer = "starting"
    /\ consumer' = "polling"
    /\ position' = StartPosition
    /\ UNCHANGED <<logEnd, committed, failures, stop, delivered, handled>>

(* Mutant of Deliver: a message is handed out once the next one is there.  *)
DeliverLate ==
    /\ consumer = "polling"
    /\ position + 1 < logEnd
    /\ consumer' = "handling"
    /\ position' = position + 1
    /\ delivered' = delivered \cup {position}
    /\ UNCHANGED <<logEnd, committed, failures, stop, handled>>

Deliver ==
    /\ consumer = "polling"
    /\ position < logEnd
    /\ consumer' = "handling"
    /\ position' = position + 1
    /\ delivered' = delivered \cup {position}
    /\ UNCHANGED <<logEnd, committed, failures, stop, handled>>

HandlerReturns ==
    /\ consumer = "handling"
    /\ Current \notin Poison
    /\ consumer' = "commit"
    /\ handled' = handled \cup {Current}
    /\ UNCHANGED <<logEnd, committed, position, failures, stop, delivered>>

(* The commit of this message, then the look at stop_event.                *)
Commit ==
    /\ consumer = "commit"
    /\ committed' = position
    /\ consumer' = IF stop THEN "done" ELSE "polling"
    /\ UNCHANGED <<logEnd, position, failures, stop, delivered, handled>>

(* Mutant of Fail: the loop polls on without a restart.                    *)
FailPollsOn ==
    /\ failures' = failures + 1
    /\ consumer' = IF failures + 1 >= MaxFailures THEN "gaveUp" ELSE "polling"

(* An exception leaves _consume_once: back off, or stop retrying.          *)
Fail ==
    /\ failures' = failures + 1
    /\ consumer' = IF failures + 1 >= MaxFailures THEN "gaveUp" ELSE "backoff"

(* Mutant of Raises: the commit moves into the finally clause.             *)
RaisesCommitted ==
    /\ consumer \in {"starting", "polling", "handling"}
    /\ Fail
    /\ committed' = IF consumer = "handling" THEN position ELSE committed
    /\ UNCHANGED <<logEnd, position, stop, delivered, handled>>

(* start(), the fetch of a message, its JSON or its handler raises.        *)
Raises ==
    /\ consumer \in {"starting", "polling", "handling"}
    /\ Fail
    /\ UNCHANGED <<logEnd, committed, position, stop, delivered, handled>>

(* commit() raises, before or after the broker has stored the offset.      *)
CommitRaises ==
    /\ consumer = "commit"
    /\ Fail
    /\ committed' \in {committed, position}
    /\ UNCHANGED <<logEnd, position, stop, delivered, handled>>

BackoffElapses ==
    /\ consumer = "backoff"
    /\ consumer' = "starting"
    /\ UNCHANGED <<logEnd, committed, position, failures, stop, delivered,
                   handled>>

(* iterate_topic's finally clause.                                         *)
RequestStop ==
    /\ ~stop
    /\ stop' = TRUE
    /\ UNCHANGED <<logEnd, committed, position, consumer, failures, delivered,
                   handled>>

(* A new process: consume() begins again with its locals reset.            *)
NewProcess ==
    /\ consumer' = "starting"
    /\ failures' = 0
    /\ stop' = FALSE
    /\ UNCHANGED <<logEnd, committed, position, delivered, handled>>

(* The process dies and is started again; or consume() has returned, main()*)
(* with it, and someone starts the service again.                          *)
Crash == consumer \notin Ended /\ NewProcess
Restart == consumer \in Ended /\ NewProcess

Init ==
    /\ logEnd = 0 /\ committed = 0 /\ position = 0
    /\ consumer = "starting"
    /\ failures = 0
    /\ stop = FALSE
    /\ delivered = {} /\ handled = {}

ConsumerNext ==
    \/ Start \/ Deliver \/ HandlerReturns \/ Commit
    \/ Raises \/ CommitRaises \/ BackoffElapses

Next == Produce \/ ConsumerNext \/ RequestStop \/ Crash \/ Restart

Spec == Init /\ [][Next]_busVars

(***************************************************************************)
(* No step of the loop fails every time it is tried, and the sleep ends.   *)
(* Nothing in the repository restarts a loop that gave up: Restart is not  *)
(* fair.                                                                   *)
(***************************************************************************)
FairSpec ==
    /\ Spec
    /\ SF_busVars(Start) /\ SF_busVars(Deliver) /\ SF_busVars(HandlerReturns)
    /\ SF_busVars(Commit)
    /\ WF_busVars(BackoffElapses)

-----------------------------------------------------------------------------
(* Type correctness of every variable.                                     *)
TypeOK ==
    /\ logEnd \in Offset
    /\ committed \in Offset
    /\ position \in Offset
    /\ consumer \in ConsumerPc
    /\ failures \in 0..MaxFailures
    /\ stop \in BOOLEAN
    /\ delivered \subseteq Offset
    /\ handled \subseteq Offset

(* Once the group has an offset, it only moves past messages whose handler *)
(* returned: no restart, raising handler, crash or commit of unknown       *)
(* outcome skips one.                                                      *)
CommitsOnlyHandled ==
    [][committed' # committed =>
          /\ committed' > committed
          /\ committed > 0 => committed..(committed' - 1) \subseteq handled]_busVars

(* At most one message is handled again: whatever fails, only the message  *)
(* at the group's offset can have been handled and not be committed.       *)
RedeliveryWindow ==
    committed > 0 => \A o \in handled : o <= committed

(* Every message with no poison between it and the group's offset is       *)
(* handled in the end, through failures and crashes, unless the loop ends. *)
EventuallyHandled ==
    \A o \in Offset :
        (committed > 0 /\ o \in committed..(logEnd - 1) /\ committed..o \cap Poison = {})
            ~> (o \in handled \/ consumer \in Ended)

=============================================================================
