SPECIFICATION LspSpec
CONSTANTS
 Roots = {k1}
 LspStarters = {s1,s2}
 Stoppers = {x1}
 Listers = {l1}
 Free = Free
 RootOf <- OneRoot
 MaxServers = 1
 LspHandles = 2
CHECK_DEADLOCK FALSE
INVARIANTS NoLockCycle
