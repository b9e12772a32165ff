CONSTANTS
  None = None
  EmptyValue = None
  Nodes = {n1, n2, n3}
  Keys = {}
  Values = {}
  HashSpace = 7
  VirtualNodes = 2
  ReplicationFactor = 2
  Collisions = FALSE
SPECIFICATION Spec
INVARIANTS RingHoldsMembers WalkIsRouterOrder
PROPERTIES OnlyItsKeysMove
