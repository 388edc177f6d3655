SPECIFICATION Spec
CONSTANTS
  left = left
  right = right
  Boxes <- MCBoxes
  Degenerate = Degenerate
  None = None
  InitBox = None
  DumpPath = FALSE
  QosDepth = 2
  MaxLag = 2
INVARIANTS
  SeededOnLastSeen
CHECK_DEADLOCK FALSE
