SPECIFICATION Spec
CONSTANTS
  Tasks <- MCOne
  Servers <- MCTwoServers
  Stubs <- MCCaller
  MAX_MSG_QUEUE = 1
  ReceiveMayFail = FALSE
  HeaderAsSent = FALSE
  MaxCalls = 4
  NoStub = NoStub
  NoRequest = NoRequest
INVARIANTS NobodyForgotten
CHECK_DEADLOCK FALSE
