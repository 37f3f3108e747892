SPECIFICATION FairSpec
CONSTANTS
  ReceMax = 6
  ReceOne = 3
  StreamLen <- Bytes
  FrameLen <- Frames
  TornTest = FALSE
PROPERTIES
  EveryFrameParsed
CHECK_DEADLOCK FALSE
