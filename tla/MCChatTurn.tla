----------------------------- MODULE MCChatTurn -----------------------------
(* An instance of ChatTurn for TLC: one tab, one request and the tool that  *)
(* erases, which is denied, refused or run as its query decides.            *)
EXTENDS ChatTurn

CONSTANTS tab, req, forget

MCToolPolicy == [t \in Tools |-> "approval_required"]

=============================================================================
