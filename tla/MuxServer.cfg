SPECIFICATION FairSpec
CONSTANTS
  Inst = {1, 2}
  Fd = {4, 5}
  OthersUseFd = TRUE
  NoInst = 0 NoFd = 0
INVARIANTS
  NeverBlocksInRecv
  ConnectionsSound
PROPERTIES
  EndedIsClosed
  InputReceived
  ShutdownReturns
