SPECIFICATION FairSpec
CONSTANTS
  Width = 2
  MaxDraws = 2
  MaxResizes = 1
  MaxMoves = 1
  Overrides = {TRUE, FALSE}
INVARIANT TypeOK
INVARIANT StrandedOnlyOutside
PROPERTY OnlyCopiedIsSubtracted
PROPERTY EventuallyRepaired
CHECK_DEADLOCK FALSE
