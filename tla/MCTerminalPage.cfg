\* Two clients, three chunks and caps of two and three; two terminals, one
\* editor and three panes.
SPECIFICATION PageSpec
CONSTANTS
  Clients = {c1, c2}
  MaxOutput = 3
  MaxReplays = 2
  ScrollbackCap = 2
  PendingCap = 3
  Panels = {1, 2}
  Files = {f1}
  Seed = Seed
  NoTab = NoTab
  MaxLeaves = 3
  MaxPanes = 3
INVARIANTS PageTypeOK Balanced NeverSilentlyDropped TabsHaveOneHome
PROPERTIES ShedOnlyTheStalled  EmptiedPaneGoes
CHECK_DEADLOCK FALSE
