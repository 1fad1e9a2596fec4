---------------------------- MODULE MCLocalLogin ----------------------------
(* An instance of LocalLogin for TLC: the first failure locks for a moment, *)
(* the second for two.                                                      *)
EXTENDS LocalLogin

CONSTANTS a1, a2, r1, r2

MCLockWindows == << <<1, 1>>, <<2, 2>>, <<3, 3>> >>
=============================================================================
