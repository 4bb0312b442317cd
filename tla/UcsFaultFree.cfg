SPECIFICATION FairSpec
CONSTANTS
  c1 = c1
  c2 = c2
  Clients = {c1, c2}
  Server = Server
  NoClient = NoClient
  Apis = {"stream", "tag"}
  Protocols = {"eager", "rndv"}
  Iters = {1, 2}
  OddSize = {}
  Faults = {}
INVARIANTS
  TypeOK
  ForceCloseAfterClient
PROPERTIES
  AcceptedIsAcked
  ServerComesBack
