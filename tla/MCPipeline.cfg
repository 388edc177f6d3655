SPECIFICATION ViewSpec
CONSTANTS
  ImageDepth = 2
  AckDepth = 2
  Reliable = TRUE
  SourceLen = 2
  FrameLimit = 4
  Loop = TRUE
  Viewer = TRUE
  DumpPath = TRUE
  MaxTimeouts = 5
  ViewDepth = 2
  Lossless = TRUE
INVARIANTS
  OneInFlight
  Parity
  NeverAhead
PROPERTIES
  TimeGoesOn
  PlaybackEnds
CHECK_DEADLOCK FALSE
