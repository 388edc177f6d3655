SPECIFICATION BlendSpec
CONSTANTS
  LostPatience = 3
  DriftCheckEvery = 2
  Backend = "NanoTrack"
  Embedder = "HsvHist"
  Accept = 5
  DriftThr = 4
  One = 10
  DetectEvery = 2
  BaseRadius = 0
  Growth = 1
  tgt = tgt
  dim = dim
  alien = alien
  Look <- MCLook
  NoCrop = NoCrop
  Sim <- MCSim
  Pos <- MCPos
  MaxDets = 1
  PickDets = 2
  MaxStreak = 4
  MaxLost = 4
  RefreshEvery = 2
  Scores = {0, 1, 2}
  LostThr = 1
  RefreshThr = 2
INVARIANTS
  StateFromStreak
  VerdictHolds
  FullCycleFirst
  NeverLocksLookalike
  DriftBlindSpot
  LoopPicksBest
  BlendOfThisTarget
PROPERTIES
  ImplementsContract
  RefreshesApart
