SPECIFICATION Spec
CONSTANTS
  BootDays <- MCBootDays
  BootTimes <- MCBootTimes
  MaxTicks = 3
  MaxDays = 47846
INVARIANTS MktimeCounts ValidDatesExist StartupTimeIsNow
CHECK_DEADLOCK FALSE
