SPECIFICATION FairSpec
CONSTANTS
  MaxAccount = 2
  MaxToken = 2
  MaxMessages = 1
  Size = 4
  Allowed = {"invalid_message", "flush_failure", "ctrl_blocks", "ctrl_lost"}
  NULL = NULL
CHECK_DEADLOCK FALSE
INVARIANTS
  TypeOK
  SessionsAgree
  IdsAreAccounted
  NoLostWakeup
PROPERTIES
  IsGameServer
  HangupReported
