SPECIFICATION FairSpec
CONSTANTS
  c1 = c1
  c2 = c2
  Clients = {c1, c2}
  Server = Server
  NoClient = NoClient
  Apis = {"stream"}
  Protocols = {"eager", "rndv"}
  Iters = {1}
  OddSize = {}
  Faults = {"post", "setup", "link", "crash"}
PROPERTY
  StreamClientEnds
CHECK_DEADLOCK FALSE
