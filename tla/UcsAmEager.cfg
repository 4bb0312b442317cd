SPECIFICATION Spec
CONSTANTS
  c1 = c1
  Clients = {c1}
  Server = Server
  NoClient = NoClient
  Apis = {"am"}
  Protocols = {"eager"}
  Iters = {2}
  OddSize = {}
  Faults = {}
INVARIANT AmIterationGetsItsMessage
CHECK_DEADLOCK FALSE
