SPECIFICATION Spec
CONSTANTS
  Windows = {w1}
  Root = root
  NoWindow = none
  Pixmaps = {1, 2, 3, 4, 5, 6}
  NoPixmap = 0
  MaxOps = 2
  ReuseXids = FALSE
INVARIANT NeverCrashes
CHECK_DEADLOCK FALSE
