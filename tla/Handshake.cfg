SPECIFICATION FairSpec
CONSTANTS
  Base = 2
  LenBytes = 2
  WordBytes = 3
  WorkerAddrs <- MCWorkerAddrs
  RKeys <- MCRKeys
  Words = {0, 1, 6}
  SockBuf = 4
  Faults = {"client", "server"}
INVARIANTS
  HandshakeTypeOK
  HandshakeIntact
  SidesAgree
PROPERTY
  HandshakeEnds
CHECK_DEADLOCK FALSE
