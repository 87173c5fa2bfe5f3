CONSTANTS
  w1 = w1
  w2 = w2
  f1 = f1
  f2 = f2
  j1 = j1
  j2 = j2
  AnyThread = AnyThread
  NoFiber = NoFiber
  NoJob = NoJob
  Workers = {w1, w2}
  Root = w2
  Fibers = {f1, f2}
  Jobs = {j1, j2}
  MaxYields = 1
  Pins = {AnyThread, w1}
SPECIFICATION RSpec
SYMMETRY Symmetry
INVARIANTS PendingCoversWaits StopLeavesPinned
CHECK_DEADLOCK FALSE
