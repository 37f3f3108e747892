SPECIFICATION Spec
CONSTANTS
  MaxConnect = 2
  Handles = {h1, h2}
  NoHandle = NoHandle
  Workers = {w1}
  MaxAccept = 1
  OrphanMax = 0
SYMMETRY Perms
INVARIANTS
  HandleOwned
  FindsOwner
  OneRecv
  SendGate
  AcceptsBounded
  DrainedInv
PROPERTIES
  NoCrossTalk
