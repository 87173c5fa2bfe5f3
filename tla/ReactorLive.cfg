CONSTANTS
  w1 = w1
  w2 = w2
  f1 = f1
  f2 = f2
  j1 = j1
  j2 = j2
  AnyThread = AnyThread
  NoFiber = NoFiber
  NoJob = NoJob
  Workers = {w1, w2}
  Root = AnyThread
  Fibers = {f1}
  Jobs = {j1}
  MaxYields = 1
  Pins = {AnyThread}
SPECIFICATION RFairSpec
PROPERTIES NobodyWaitsForever
CHECK_DEADLOCK FALSE
