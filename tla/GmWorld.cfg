SPECIFICATION WorldSpec
CONSTANTS
  Accounts = {a1, a2}
  Characters <- MCCharacters
  MaxToken = 2
  MaxAgents = 3
  MaxChanges = 2
  Size = 12
  MaxLive = 10
  NULL = NULL
CHECK_DEADLOCK FALSE
SYMMETRY Symmetry
INVARIANTS
  WorldTypeOK
  GivesOutFreed
  BagsReferToItems
  ItemInOnePlace
  GroundIsItems
  LoadedAsSaved
  WearsWhatWasChosen
  ViewsAgree
PROPERTIES
  QueueSpec
