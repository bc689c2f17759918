SPECIFICATION FairSpec
CONSTANTS
  Requests <- MCRequests
  Form <- MCForm
  Mixes <- StopMixes
  ProxyTimeout = 1
  LLMTimeout = 2
  TopK = 1
  MaxStarts = 2
PROPERTIES
  GatewayStops
CHECK_DEADLOCK FALSE
