SPECIFICATION Spec
CONSTANTS
  MaxConnect = 2
  Ids = {1}
  MaxServerId = 3
  ZeroedHeap = TRUE
  RepeatMax = 1
INVARIANTS
  SecureCount
