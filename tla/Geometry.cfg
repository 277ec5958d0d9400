SPECIFICATION Spec
CONSTANTS
  Windows = {w1, w2}
  None = none
  Screen = 800
  Tops = {0, 300}
  Heights = {100, 200}
  MaxOps = 4
SYMMETRY Symmetry
INVARIANT TypeOK
INVARIANT ShownInPlace
INVARIANT ServerInPlace
PROPERTY UnaskedKept
CHECK_DEADLOCK FALSE
