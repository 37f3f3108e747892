SPECIFICATION FairSpec
CONSTANTS
  MaxConn = 2
  MaxFaults = 1
  HeartMax = 2
  RoomMax = 3
INVARIANTS
  LinkInv
  NoBadHead
PROPERTIES
  Agrees
  Reconnects
CHECK_DEADLOCK FALSE
