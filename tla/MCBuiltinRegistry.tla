-------------------------- MODULE MCBuiltinRegistry --------------------------
(* Model checking instances of BuiltinRegistry.                            *)
EXTENDS BuiltinRegistry, TLC

\* Requests are interchangeable threads and no definition orders paths.
Symmetry == Permutations(Requests) \cup Permutations(Paths)

AllMethods ==
  {"workspace.create", "workspace.close", "agent.start", "rename",
   "tab.create", "tab.close", "tab.promote", "pane.close",
   "worktree.open", "worktree.create", "worktree.remove"}
=============================================================================
