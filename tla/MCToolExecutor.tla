--------------------------- MODULE MCToolExecutor ---------------------------
(* The tool executor for TLC: all of its constants are numbers and flags.  *)
EXTENDS ToolExecutor
=============================================================================
