SPECIFICATION Spec
CONSTANTS
  Costs = {0, 1, 2, 3}
  TrapIds = {1}
  Capacity = 7
  NULL = NULL
INVARIANT
  LowestFirst
