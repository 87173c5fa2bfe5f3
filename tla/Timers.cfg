CONSTANTS
  x1 = x1
  x2 = x2
  t1 = t1
  t2 = t2
  c1 = c1
  c2 = c2
  Timers = {x1, x2}
  Threads = {t1}
  Clients = {c1, c2}
  Periods = {1, 2}
  MAX_TIMEOUT = 2
  Hour = 1
  IntMax = 7
  SetBacks = {2}
  Start = 1
  MaxClock = 3
SPECIFICATION Spec
SYMMETRY Symmetry
INVARIANTS SetConsistent SleepersCovered CancelIsFinal
PROPERTIES NotEarly
CHECK_DEADLOCK FALSE
