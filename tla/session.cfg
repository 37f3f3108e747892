SPECIFICATION FairSpec
CONSTANTS
  MaxConnect = 2
  Ids = {0, 1}
  MaxServerId = 1
  ZeroedHeap = FALSE
  RepeatMax = 1
INVARIANTS
  SessionTypeOK
  RegistryBound
PROPERTIES
  MatchLeavesOne
  WaitersMatched
  WalkSlots
