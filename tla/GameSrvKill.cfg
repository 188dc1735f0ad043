SPECIFICATION Spec
CONSTANTS
  MaxAccount = 2
  MaxToken = 2
  MaxMessages = 1
  Size = 4
  Allowed = {"invalid_message"}
  NULL = NULL
CHECK_DEADLOCK FALSE
INVARIANTS
  RightPlayer
