SPECIFICATION Spec
CONSTANTS
  Width = 3
  MaxDraws = 1
  MaxResizes = 0
  MaxMoves = 0
  Overrides = {FALSE}
INVARIANT ScreenUpToDate
CHECK_DEADLOCK FALSE
