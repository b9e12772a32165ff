CONSTANTS
  None = None
  EmptyValue = empty
  k1 = k1
  k2 = k2
  v1 = v1
  Nodes = {n1}
  Keys = {k1, k2}
  Values = {v1, empty}
  Cells = {c1}
  Capacity = 1
  Threads = {t1, t2}
  MaxConnections = 2
  MaxFaults = 1
  Requests <- MCRequests
  Adversity = {}
SPECIFICATION FairSpec
INVARIANTS TypeOK ReadsCurrent CacheFollowsTable
PROPERTIES HandlersAreTransactions Answered
