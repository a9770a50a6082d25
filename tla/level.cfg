SPECIFICATION Spec
CONSTANTS
  Nbits = 2
  Node = {n1, n2, n3, n4}
  Value = {v1}
  NoValue = none
SYMMETRY Symmetry
INVARIANTS TypeOK Indexed Owned FreesAll
PROPERTY ImplementsSlotMap
CHECK_DEADLOCK FALSE
