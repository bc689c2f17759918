SPECIFICATION FairSpec
CONSTANTS
  Requests <- MCRequests
  Form <- MCForm
  Mixes <- MCMixes
  ProxyTimeout = 1
  LLMTimeout = 2
  TopK = 1
  MaxStarts = 2
INVARIANTS
  PlatformInv
  AnsweredStoreIsKept
  
  PostsRunOnce
  OkMeansDone
  ModelWaitIsBounded
PROPERTIES
  RequestsAreAnswered
CHECK_DEADLOCK FALSE
