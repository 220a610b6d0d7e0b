SPECIFICATION Spec
CONSTANTS
  Nodes = {n1}
  Groups = {g1, g2}
  NoGroup = NoGroup
  RDMA_MAX_WR = 2
  MaxJoins = 3
  MaxPosts = 3
  MaxFailures = 1
INVARIANTS
  KeysNameGroups
  MembershipRecorded
PROPERTIES
  SendsImplementSendQueue
CHECK_DEADLOCK FALSE
