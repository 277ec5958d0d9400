SPECIFICATION Spec
CONSTANTS
  Windows = {w1, w2}
  Root = root
  NoWindow = none
  Pixmaps = {1, 2, 3, 4, 5, 6}
  NoPixmap = 0
  MaxOps = 2
  ReuseXids = FALSE
SYMMETRY XidSymmetry
INVARIANT ListMatchesServer
INVARIANT PixmapsCurrent
INVARIANT NoPixmapLeak
PROPERTY ContractHolds
CHECK_DEADLOCK FALSE
