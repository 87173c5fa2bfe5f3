CONSTANTS
  a1 = a1
  a2 = a2
  k1 = k1
  NoFile = NoFile
  Addrs = {a1, a2}
  Conns = {k1}
  Fds = {3, 4, 5}
  ThreadCounts = {1, 2}
  MaxBinds = 2
SPECIFICATION FairSpec
INVARIANTS FdsOwned CtxDescribesFile NeverBlocksThread OneAfterStop
PROPERTIES StopEndsAccept
CHECK_DEADLOCK FALSE
