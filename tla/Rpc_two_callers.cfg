SPECIFICATION Spec
CONSTANTS
  Tasks <- MCTwo
  Servers <- MCTwoServers
  Stubs <- MCCaller
  MAX_MSG_QUEUE = 1
  ReceiveMayFail = FALSE
  HeaderAsSent = TRUE
  MaxCalls = 4
  NoStub = NoStub
  NoRequest = NoRequest
PROPERTIES OwnAnswer
CHECK_DEADLOCK FALSE
