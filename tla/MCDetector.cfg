SPECIFICATION Spec
CONSTANTS
  a1 = a1
  a2 = a2
  a3 = a3
  Anchor <- MCAnchor
  NumClasses = 2
  KeepClasses = {}
  ConfThr = 1
  NmsIou = 45
  Offset = 8
  InputSize = 4
  Sizes <- MCSizes
  Boxes <- MCBoxes
  Rows <- MCRows
SYMMETRY Symmetry
INVARIANTS
  CanvasIsClean
  BestClassWins
  KeptApart
  NothingVanishes
