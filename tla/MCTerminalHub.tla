--------------------------- MODULE MCTerminalHub ---------------------------
(* Model checking instances of TerminalHub.                                *)
EXTENDS TerminalHub, TLC

\* Browsers are interchangeable; for the runs without a liveness property.
Symmetry == Permutations(Viewers)
=============================================================================
