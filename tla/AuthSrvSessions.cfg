SPECIFICATION Spec
CONSTANTS
  Accounts = {a1, a2}
  Characters = {c1}
  Districts = {d1}
  MaxToken = 3
  MaxServer = 1
  MaxReserved = 1
  MaxPlayerToken = 2
  Allowed = {"relogin"}
  MaxStray = 0
  NULL = NULL
CHECK_DEADLOCK FALSE
INVARIANTS
  TypeOK
  Registered
  NoLostWakeup
PROPERTIES
  StaysOnServer
