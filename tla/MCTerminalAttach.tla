-------------------------- MODULE MCTerminalAttach --------------------------
(* Model checking instances of TerminalAttach.                             *)
EXTENDS TerminalAttach
=============================================================================
