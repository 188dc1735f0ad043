SPECIFICATION FairSpec
CONSTANTS
  Points = {0, 1, 2}
  Furthest = 4
  MaxWaypoints = 3
  MaxDelta = 2
  MaxTickTime = 2
  MaxCorrection = 2
  NaN = NaN
  NULL = NULL
CHECK_DEADLOCK FALSE
INVARIANTS
  TypeOK
  ReachesItsGoal
  HeadsForItsDestination
  ClientsAreTold
PROPERTIES
  
  ComesToStand
