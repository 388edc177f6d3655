SPECIFICATION Spec
CONSTANTS
  ImageDepth = 1
  AckDepth = 10
  Reliable = TRUE
  SourceLen = 5
  FrameLimit = 0
  Loop = FALSE
  Viewer = FALSE
  DumpPath = FALSE
  MaxTimeouts = 2
INVARIANTS
  DropProof
CHECK_DEADLOCK FALSE
