SPECIFICATION Spec
CONSTANTS
  Ids = {a, b}
  Root = root
  Nodes = {n1, n2, n3, n4}
  Objs = {o1, o2, o3}
  Null = null
  MaxClose = 2
SYMMETRY Symmetry
INVARIANT TypeOK
INVARIANT Links
INVARIANT Owned
INVARIANT NotMissed
PROPERTY StackHolds
