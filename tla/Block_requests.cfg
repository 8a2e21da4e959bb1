SPECIFICATION Spec
CONSTANTS
  Requests <- MCRequests
  LastId = 4
INVARIANTS TypeOK QueueIsServed 
CHECK_DEADLOCK FALSE
