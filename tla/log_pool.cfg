SPECIFICATION FairSpec
CONSTANTS
  main = main
  client = client
  Threads <- MCThreads
  NoMsg = NoMsg
  Stock = 1
  SayMax <- MCSayMax
INVARIANTS
  LogInv
  OwnText
PROPERTIES
  InOrder
  AllHandled
CHECK_DEADLOCK FALSE
