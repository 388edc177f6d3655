SPECIFICATION Spec
CONSTANTS
  sot = sot
  tbd = tbd
  plain = plain
  Nodes = {sot, tbd, plain}
  Benched = {sot, tbd}
INVARIANT SamplesArePrivate
PROPERTY AllAreTold
