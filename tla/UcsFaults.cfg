SPECIFICATION Spec
CONSTANTS
  c1 = c1
  c2 = c2
  Clients = {c1, c2}
  Server = Server
  NoClient = NoClient
  Apis = {"stream", "tag", "am"}
  Protocols = {"eager", "rndv"}
  Iters = {0, 1, 2}
  OddSize = {c1, c2}
  Faults = {"alloc", "setup", "link"}
SYMMETRY ClientSymmetry
INVARIANTS
  FinAcksDelivery
  ReceivesInOrder
  NoLeftovers
  EagerCopyTarget
  WrongSizeNeverAcked
PROPERTY
  ImplementsAckedTransfer
CHECK_DEADLOCK FALSE
