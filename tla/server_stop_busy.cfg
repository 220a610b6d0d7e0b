SPECIFICATION FairServerSpec
CONSTANTS
  MaxRequests = 1
  MaxStarts = 1
  BindMayFail = FALSE
  MayGarble = FALSE
PROPERTIES
  StopReturns
CHECK_DEADLOCK FALSE
