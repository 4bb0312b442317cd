SPECIFICATION FairSpec
CONSTANTS
  c1 = c1
  Clients = {c1}
  Server = Server
  NoClient = NoClient
  Apis = {"am"}
  Protocols = {"eager"}
  Iters = {1}
  OddSize = {}
  Faults = {}
PROPERTY AmClientGetsFin
CHECK_DEADLOCK FALSE
