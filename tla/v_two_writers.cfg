CONSTANTS
  n1 = n1
  n2 = n2
  n3 = n3
  k1 = k1
  v1 = v1
  v2 = v2
  v3 = v3
  p1 = p1
  p2 = p2
  None = None
  EmptyValue = EmptyValue
  Nodes = {n1, n2, n3}
  Keys = {k1}
  Values = {v1, v2}
  Proxies = {p1, p2}
  RingRank <- MCRingRank
  ReplicationFactor = 2
  MaxFaults = 0
  Writers = {p1, p2}
  Readers = {p1, p2}
  OpsAllowed = {"get", "put"}
  MaxCrashes = 0
  Adversity = {}
SPECIFICATION Spec
INVARIANTS QuietReplicasAgree
