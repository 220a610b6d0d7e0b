SPECIFICATION FairServerSpec
CONSTANTS
  MaxRequests = 2
  MaxStarts = 2
  BindMayFail = TRUE
  MayGarble = TRUE
INVARIANTS
  NoUseAfterDelete
PROPERTIES
  DestroyedJoined
  ControlReturns
CHECK_DEADLOCK FALSE
