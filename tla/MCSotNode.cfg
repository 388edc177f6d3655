SPECIFICATION Spec
CONSTANTS
  left = left
  right = right
  Boxes <- MCBoxes
  Degenerate = Degenerate
  None = None
  InitBox = left
  DumpPath = TRUE
  QosDepth = 2
  MaxLag = 2
INVARIANTS
  CallbacksHaveTracker
  LastRequestWins
  CacheSinceReset
PROPERTIES
  StatusTellsTarget
  TargetTakesHold
CHECK_DEADLOCK FALSE
