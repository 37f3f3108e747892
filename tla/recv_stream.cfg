SPECIFICATION FairSpec
CONSTANTS
  ReceMax = 6
  ReceOne = 3
  StreamLen <- Bytes
  FrameLen <- Frames
  TornTest = FALSE
INVARIANTS
  RecvInv
  HonestKept
PROPERTIES
  InOrder
  ParseCatchesUp
CHECK_DEADLOCK FALSE
