CONSTANTS
  None = None
  EmptyValue = empty
  Nodes = {n1}
  Keys = {k1, k2, k3, k4}
  Values = {v1, v2}
  Cells = {c1, c2, c3}
  Capacity = 3
SPECIFICATION UseSpec
INVARIANTS ListAndMapAgree EvictsLeastRecent
