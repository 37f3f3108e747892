SPECIFICATION FairSpec
CONSTANTS
  SendMax = 5
  SendOne = 2
  MaxPayload = 2
  StreamLen = 9
INVARIANTS
  SendInv
  ResetIdle
PROPERTIES
  InOrder
  WholeFrames
  NoSendStall
CHECK_DEADLOCK FALSE
