SPECIFICATION Spec
CONSTANTS
  Clients = {c1, c2}
  MaxOutput = 3
  MaxReplays = 2
  ScrollbackCap = 2
  PendingCap = 3
PROPERTY LiveFollowsReplay
CHECK_DEADLOCK FALSE
