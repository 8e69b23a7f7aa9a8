\* The services: bounds as each component's own constants name them.
SPECIFICATION ServicesSpec
CONSTANTS
 Promotes = {r1, r2, r3}
 Starters = {e1, e2}
 Launches = {l1}
 Closes = {c1}
 Cleanups = {k1}
 Backends = 3
 MaxSessions = 2
 Tokens = 3
 Epochs = 1
 Policies = 2
 Saves = 2
 NoteRequests = {n1, n2, n3}
 MaxNotes = 2
 Desktops = {d1}
 Mobiles = {m1}
 Texts = 3
 Calls = 3
 Roots = {root}
 LspStarters = {s1, s2}
 Stoppers = {x1}
 Listers = {i1}
 Free = Free
 RootOf <- OneRoot
 MaxServers = 1
 LspHandles = 2
 TuiSessions = {t1, t2}
 FirstSession = t1
 NoTui = NoTui
 MaxTerms = 2
 MaxOverlays = 1
 ServerTurns = 1
INVARIANTS ServicesTypeOK StartedOnce  BroadcastIsOnDisk UnseenNeverOverwritten StopMeansStopped SnapshotOfTarget TypedIntoTarget
PROPERTIES NeverClosesArmed
CHECK_DEADLOCK FALSE
