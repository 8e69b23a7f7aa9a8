SPECIFICATION Spec
CONSTANTS
  Viewers = {v1, v2}
  MaxAttaches = 2
  MaxFrames = 2
  QueueCap = 1
  RingCap = 2
INVARIANT LastViewerDetaches
CHECK_DEADLOCK FALSE
