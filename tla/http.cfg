CONSTANTS
  k1 = k1
  k2 = k2
  None = None
  Conns = {c1, c2}
  Clients = {k1, k2}
  KeepAlive = {k2}
  Slots = {c1, c2}
  Requests <- LinkRequests
  MaxCalls <- LinkCalls
  Split = FALSE
  Workers = {w1}
  KeepAliveMax = 2
  AnswerLen = 1
  SlowWriters = FALSE
  ServerCalls <- MCServerCalls
SPECIFICATION FairSpec
INVARIANTS ResultsTellWhatRan NobodySleepsOnWork ListenEndsClean
PROPERTIES CallsReturn
CHECK_DEADLOCK FALSE
