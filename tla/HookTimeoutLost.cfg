CONSTANTS
  MaxCalls = 2
  MaxTimers = 2
  Timeouts = {TRUE}
SPECIFICATION Spec
INVARIANTS TimeoutWakes
CHECK_DEADLOCK FALSE
