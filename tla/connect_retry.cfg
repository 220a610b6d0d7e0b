SPECIFICATION Spec
CONSTANTS
  A = A
  B = B
  c = c
  Servers = {A}
  Clients = {c}
  Dials <- OneDial
  Programs <- OneClient
  StartFirst = {}
  Retries = 1
  MaxFailures = 0
  NoID = NoID
  NoQP = NoQP
INVARIANTS
  ConnectTrueMeansReady
CHECK_DEADLOCK FALSE
