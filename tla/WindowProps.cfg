SPECIFICATION Spec
CONSTANTS
  Windows = {w1, w2}
  None = none
  Names = {a, b}
  TypeLists <- MCTypeLists
  KnownTypes <- MCKnownTypes
  Settings = {set}
  Garbage = garbage
  MaxChanges = 2
SYMMETRY Symmetry
INVARIANT TypeOK
INVARIANT PropertiesAgree
INVARIANT NotKilled
CHECK_DEADLOCK FALSE
