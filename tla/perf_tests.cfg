CONSTANTS
  c1 = c1  c2 = c2  s1 = s1  s2 = s2
  Clients = {c1, c2}
  Servers = {s1, s2}
  MaxThreads = 2
  Tests <- Deployments
  MaxSlots = 2
SPECIFICATION Spec
INVARIANTS StartedTogether AnswersInTurn EndsInStep
PROPERTY TestRuns
CHECK_DEADLOCK FALSE
