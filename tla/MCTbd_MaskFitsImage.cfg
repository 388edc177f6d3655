SPECIFICATION MotionSpec
CONSTANTS
  NInit = 2
  MaxAge = 1
  TentativePatience = 1
  UseByte = TRUE
  MaxDets = 1
  MaxId = 2
  HitCap = 2
  DetectInterval = 2
  Gmc = "SparseFlow"
  VelocitySeed = TRUE
  OneFrame = 10
  MinDt = 1
  MaxDt = 50
  Elapsed = {0, 20, 60}
INVARIANTS
  MaskFitsImage
