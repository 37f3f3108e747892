SPECIFICATION FairSpec
CONSTANTS
  ReceMax = 6
  ReceOne = 3
  StreamLen <- Bytes
  FrameLen <- Frames
  TornTest = TRUE
PROPERTIES
  InOrder
CHECK_DEADLOCK FALSE
