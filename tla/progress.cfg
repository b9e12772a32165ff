CONSTANTS
  n1 = n1
  n2 = n2
  n3 = n3
  k1 = k1
  v1 = v1
  v2 = v2
  v3 = v3
  p1 = p1
  p2 = p2
  None = None
  EmptyValue = EmptyValue
  Nodes = {n1, n2}
  Keys = {k1}
  Values = {v1}
  Proxies = {p1}
  RingRank <- MCRingRank
  ReplicationFactor = 2
  MaxFaults = 1
  Writers = {p1}
  Readers = {p1}
  OpsAllowed = {"get", "put"}
  MaxCrashes = 2
  Adversity = {"cut write", "late fill", "late mark", "write in recovery", "create in outage", "delete in outage", "second outage", "lb restart"}
SPECIFICATION FairSpec
INVARIANTS TypeOK RecoveringOwned
PROPERTIES Answered StatusTold BackInService DeadIsEvicted
CHECK_DEADLOCK FALSE
