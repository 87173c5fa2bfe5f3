CONSTANTS
  t1 = t1
  t2 = t2
  Fds = {2, 4}
  Threads = {t1}
  InitSize = 2
  MaxMade = 2
SPECIFICATION Spec
SYMMETRY Symmetry
INVARIANTS PendingExact RecordsAgree CancelReaches
CHECK_DEADLOCK FALSE
