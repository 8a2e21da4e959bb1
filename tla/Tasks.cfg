SPECIFICATION FairSpec
CONSTANTS
  NR_TASKS = 4
  Pages = 3
  Servers = 1
  MaxForks = 3
INVARIANTS TypeOK SlotsAreAllocated NoPanic
PROPERTIES OnlyTheDeadLeave WaitEnds
CHECK_DEADLOCK FALSE
