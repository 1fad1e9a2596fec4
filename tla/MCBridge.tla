------------------------------ MODULE MCBridge ------------------------------
(* An instance of Bridge for TLC: webhook requests h1 and h2. *)
EXTENDS Bridge

CONSTANTS h1, h2

=============================================================================
