SPECIFICATION FairSpec
CONSTANTS
  Windows = {w1}
  Root = root
  NoWindow = none
  Pixmaps = {1, 2, 3, 4, 5, 6}
  NoPixmap = 0
  MaxOps = 3
  ReuseXids = TRUE
INVARIANT TypeOK
INVARIANT ListMatchesServer
INVARIANT PixmapsCurrent
PROPERTY ContractHolds
CHECK_DEADLOCK FALSE
PROPERTY EventuallyAgrees
