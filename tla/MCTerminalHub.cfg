SPECIFICATION Spec
CONSTANTS
  Viewers = {v1, v2}
  MaxAttaches = 2
  MaxFrames = 3
  QueueCap = 1
  RingCap = 2
SYMMETRY Symmetry
INVARIANTS TypeOK OpenAttachShared NoHoles
PROPERTIES FeedImplemented
CHECK_DEADLOCK FALSE
