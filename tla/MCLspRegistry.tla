--------------------------- MODULE MCLspRegistry ---------------------------
(* A model checking instance of LspRegistry.                               *)
EXTENDS LspRegistry

\* Every request is about the same language and root.
OneRoot == [q \in LspStarters |-> CHOOSE k \in Roots : TRUE]
=============================================================================
