SPECIFICATION Spec
CONSTANTS
  WindowHints <- MCHints
  Sizes <- MCSizes
INVARIANT SizeFits
INVARIANT SizeNearest
INVARIANT AspectKept
PROPERTY SizeStable
