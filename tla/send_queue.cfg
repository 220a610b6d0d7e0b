SPECIFICATION FairSpec
CONSTANTS
  RDMA_MAX_WR = 3
  MaxPosts = 9
  PollsReads = TRUE
  MayFail = TRUE
INVARIANTS
  PostsSucceed
  SignaledMeansDone
PROPERTIES
  CallsReturn
CHECK_DEADLOCK FALSE
