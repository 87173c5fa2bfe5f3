CONSTANTS
  MaxCalls = 2
  MaxTimers = 3
  Timeouts = {FALSE, TRUE}
SPECIFICATION FairSpec
INVARIANTS OwnTimeout OneTimerSet ResultTrue
PROPERTIES CallEnds
CHECK_DEADLOCK FALSE
