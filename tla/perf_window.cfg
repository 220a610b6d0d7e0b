SPECIFICATION Spec
CONSTANTS
  Clients = {c1, c2}
  ServerCount = 1
  RDMA_MAX_WR = 5
  IterationsPerThread = 7
INVARIANTS
  CreditsConserved
  MessagesAreReceived
  ReceivesArePosted
  EndTogether
PROPERTIES
  AllFinish
