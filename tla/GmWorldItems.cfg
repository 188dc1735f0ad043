SPECIFICATION WorldSpec
CONSTANTS
  Accounts = {a1}
  Characters <- MCCharacters
  MaxToken = 3
  MaxAgents = 3
  MaxChanges = 0
  Size = 9
  MaxLive = 12
  NULL = NULL
CHECK_DEADLOCK FALSE
INVARIANT
  GivesOutFreed
