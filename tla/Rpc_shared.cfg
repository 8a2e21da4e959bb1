SPECIFICATION Spec
CONSTANTS
  Tasks <- MCTwo
  Servers <- MCTwoServers
  Stubs <- MCAll
  MAX_MSG_QUEUE = 2
  ReceiveMayFail = TRUE
  HeaderAsSent = TRUE
  MaxCalls = 4
  NoStub = NoStub
  NoRequest = NoRequest
INVARIANTS TypeOK NobodyForgotten AnsweredOnce
CHECK_DEADLOCK FALSE
