SPECIFICATION FairSpec
CONSTANTS
  n1 = n1
  n2 = n2
  n3 = n3
  n4 = n4
  Nodes = {n1, n2, n3, n4}
  size = 2
  KeyOf <- Hashed
  Nil = null
  Freed = freed
INVARIANTS
  WellChained
PROPERTIES
  IsNodeTable
  TraversalEnds
