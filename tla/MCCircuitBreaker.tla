-------------------------- MODULE MCCircuitBreaker --------------------------
(* An instance of CircuitBreaker for TLC: coroutines c1..c3. *)
EXTENDS CircuitBreaker

CONSTANTS c1, c2, c3

=============================================================================
