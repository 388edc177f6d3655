SPECIFICATION Spec
CONSTANTS
  MaxSize = 3
  Costs = {1, 2, 7}
  Forbidden = 7
INVARIANTS
  Certificate
  NeverStuck
  Cheapest
  GateLosesNone
PROPERTY Returns
CHECK_DEADLOCK FALSE
