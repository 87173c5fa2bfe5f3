CONSTANTS
  k1 = k1
  k2 = k2
  p1 = p1
  p2 = p2
  NoConn = NoConn
  NoResponse = NoResponse
  Clients = {k1, k2}
  Conns = {p1, p2}
  m_maxRequest = 3
  m_maxAliveTime = 3
  Now = 10
  MaxCalls = 2
SPECIFICATION Spec
SYMMETRY Symmetry
INVARIANTS AnswersItsRequest PoolExact FirstSendSpared
CHECK_DEADLOCK FALSE
