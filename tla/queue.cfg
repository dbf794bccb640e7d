SPECIFICATION FairSpec
CONSTANTS
  Nodes = {n1, n2, n3, n4}
  Consumers = {c1, c2, c3}
  NULL = NULL
INVARIANT
  WellLinked
PROPERTIES
  ImplementsFifo
  Delivered
