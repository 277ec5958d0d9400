SPECIFICATION Spec
CONSTANTS
  Ids = {a, b}
  Root = root
  Nodes = {n1, n2, n3}
  Objs = {o1, o2, o3}
  Null = null
  MaxClose = 1
SYMMETRY Symmetry
INVARIANT NoUseAfterFree
