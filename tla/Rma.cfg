SPECIFICATION FairSpec
CONSTANTS
  c1 = c1
  c2 = c2
  Clients = {c1, c2}
  NoClient = NoClient
  Size = 3
  Base = 5
  HeadLen = 2
  Backlog = 1
  Faults = {"setup", "post", "link", "crash"}
INVARIANTS
  RmaTypeOK
  GetReflectsPut
PROPERTIES
  HeadNeverReverts
  HandshakeServed
  ClientsEnd
  PutIsShown
CHECK_DEADLOCK FALSE
