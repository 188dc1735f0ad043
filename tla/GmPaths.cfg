SPECIFICATION PathsSpec
CONSTANTS
  TrapIds = {1, 2, 3, 4, 5}
  Neighbors <- MCNeighbors
  Costs <- MCCosts
  Lengths = {0, 1}
  Estimates = {0, 2}
  MaxCost = 3
  Infinity = 9
  Capacity = 6
  NULL = NULL
INVARIANTS
  PathsTypeOK
  ParentsAreClosed
  QueueInStep
  PathIsWay
  GivesUpAtTheEnd
PROPERTIES
  IsPriorityQueue
  SearchEnds
