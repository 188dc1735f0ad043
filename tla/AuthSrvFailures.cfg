SPECIFICATION Spec
CONSTANTS
  Accounts = {a1}
  Characters = {}
  Districts = {d1, d2}
  MaxToken = 3
  MaxServer = 2
  MaxReserved = 1
  MaxPlayerToken = 3
  Allowed = {"db_error", "start_failure", "server_exit", "stray_ctrl", "token_reuse", "map_transfer"}
  MaxStray = 1
  NULL = NULL
SYMMETRY Symmetry
CHECK_DEADLOCK FALSE
INVARIANTS
  AssignedIsQueued
  CtrlConnIsPeer
  GivenOutOnce
  NothingWaitsForReady
  OneServerPerDistrict
PROPERTIES
  ServersAreGameServers
