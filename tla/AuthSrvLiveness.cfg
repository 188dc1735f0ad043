SPECIFICATION FairSpec
CONSTANTS
  Accounts = {a1}
  Characters = {c1}
  Districts = {d1}
  MaxToken = 3
  MaxServer = 1
  MaxReserved = 1
  MaxPlayerToken = 1
  Allowed = {}
  MaxStray = 0
  NULL = NULL
CHECK_DEADLOCK FALSE
PROPERTIES
  PendingAnswered
  AccountReleased
