---------------------------- MODULE MCDelegation ----------------------------
(* An instance of Delegation for TLC: a task, overlapping drains and a     *)
(* callback.                                                               *)
EXTENDS Delegation

CONSTANTS t1, c1, d1, d2

=============================================================================
