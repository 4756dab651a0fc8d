SPECIFICATION FairSpec
CONSTANTS
  near = near
  fickle = fickle
  far = far
  Conns = {near, fickle, far}
  Address <- From
  MaxClients = 2
  PerIP = 2
  Backlog = 3
  Window = 1
  HelloTimeout = 1
  Requests = 3
  Fickle = {fickle}
  None = None
INVARIANTS
  StreamIntact
PROPERTIES
  ServesTheReported
  NobodyWaits
CHECK_DEADLOCK FALSE
