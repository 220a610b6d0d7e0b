SPECIFICATION FairSpec
CONSTANTS
  A = A
  B = B
  c = c
  Servers = {A, B}
  Clients = {c}
  Dials <- AllDials
  Programs <- Deployments
  StartFirst = {A}
  Retries = 1
  MaxFailures = 1
  NoID = NoID
  NoQP = NoQP
INVARIANTS
  IDsIdentify
  QueuePairsMatch
  ClientIsLinked
PROPERTIES
  LinksStay
  CallsReturn
  BothEndsConnect
CHECK_DEADLOCK FALSE
