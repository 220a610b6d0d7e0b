SPECIFICATION Spec
CONSTANTS
  s = s
  a = a
  b = b
  Objects = {s, a, b}
  Partner <- ServerAndClients
  SRQOwners = {s}
  MaxID = 1
  Numbers = {q1, q2, q3}
  MaxInits = 3
  MaxHandles = 2
  MaxReceives = 1
  MaxFailures = 0
  NoQP = NoQP
  NoObject = NoObject
INVARIANT EveryPairHasQueue
CHECK_DEADLOCK FALSE
