SPECIFICATION Spec
CONSTANTS
  Accounts = {a1}
  Characters = {c1}
  Districts = {d1}
  MaxToken = 4
  MaxServer = 1
  MaxReserved = 1
  MaxPlayerToken = 2
  Allowed = {}
  MaxStray = 0
  NULL = NULL
CHECK_DEADLOCK FALSE
INVARIANTS
  PlayingIsKnown
