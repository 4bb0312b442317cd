SPECIFICATION FairSpec
CONSTANT
  Faults = {"setup", "alloc", "cuda", "post", "status", "crash"}
INVARIANTS
  HelloTypeOK
  RemoteDisconnectedFirst
  ServerSuccessMeansShown
PROPERTIES
  BarrierEnds
  HelloSucceeds
CHECK_DEADLOCK FALSE
