----------------------------- MODULE MCEventBus -----------------------------
(* The consumer loop for TLC: all of its constants are numbers.            *)
EXTENDS EventBus
=============================================================================
