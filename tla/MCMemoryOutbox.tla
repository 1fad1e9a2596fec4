--------------------------- MODULE MCMemoryOutbox ---------------------------
(* Instances of MemoryOutbox for TLC: memories m1 and m2, a publish_outbox *)
(* run p1 and a drain_memory_wal_activity run d1.                          *)
EXTENDS MemoryOutbox

CONSTANTS m1, m2, p1, d1

=============================================================================
