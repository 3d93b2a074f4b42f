------------------------- MODULE MCTerminalSessions -------------------------
(* Instances of TerminalSessions for TLC. *)
EXTENDS TerminalSessions
=============================================================================
