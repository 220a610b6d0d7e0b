SPECIFICATION FairSpec
CONSTANTS
  Clients = {c1, c2}
  NoClient = NoClient
  m_maxNumberMsgs = 2
  MaxCalls = 2
  MaxStarts = 2
INVARIANTS
  BuffersAccounted
  MessagesMatch
PROPERTIES
  BreaksBeforeRepost
  CallsAnswered
  ControlReturns
CHECK_DEADLOCK FALSE
