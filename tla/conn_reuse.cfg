SPECIFICATION FairSpec
CONSTANTS
  MaxConnect = 2
  Handles = {h1}
  NoHandle = NoHandle
  Workers = {w1}
  MaxAccept = 1
  OrphanMax = 1
INVARIANTS
  ConnInv
  CountMatches
  NeverDeaf
PROPERTIES
  ClosingReclaimed
  HandshakeDeadline
  WalkSlots
