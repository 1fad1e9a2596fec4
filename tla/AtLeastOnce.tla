---------------------------- MODULE AtLeastOnce ----------------------------
(***************************************************************************)
(* At-least-once delivery through a durable buffer, as both buffers of the *)
(* repository promise it: services/common/publisher.py of an event it took *)
(* ("A broker blip cannot lose a write.") and the T-6 memory outbox of a   *)
(* write it accepted.  An event is accepted only when it is delivered or   *)
(* kept in the buffer, which the acceptance itself may do; the buffer lets *)
(* go of it only when it is delivered.  It may be delivered, and kept      *)
(* again, any number of times.                                             *)
(***************************************************************************)
CONSTANT Event

VARIABLES
    accepted,   \* events that were taken
    kept,       \* events in a durable buffer
    delivered   \* events where they are wanted

vars == <<accepted, kept, delivered>>

Init == accepted = {} /\ kept = {} /\ delivered = {}

Keep(e) ==
    /\ kept' = kept \cup {e}
    /\ UNCHANGED <<accepted, delivered>>

Deliver(e) ==
    /\ delivered' = delivered \cup {e}
    /\ UNCHANGED <<accepted, kept>>

Accept(e) ==
    /\ kept' \in {kept, kept \cup {e}}
    /\ e \in kept' \cup delivered
    /\ accepted' = accepted \cup {e}
    /\ UNCHANGED delivered

Release(e) ==
    /\ e \in delivered
    /\ kept' = kept \ {e}
    /\ UNCHANGED <<accepted, delivered>>

Next == \E e \in Event : Keep(e) \/ Deliver(e) \/ Accept(e) \/ Release(e)

Spec == Init /\ [][Next]_vars

=============================================================================
