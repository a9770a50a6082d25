SPECIFICATION Spec
CONSTANTS
  AddrBits = 8
  v1 = v1
  v2 = v2
  NoValue = NoValue
  Value = {v1, v2}
  Net <- NestedLossyNets
  Addr <- NestedAddrs
  ExtendFrozen = TRUE
INVARIANTS TypeOK WellLinked LongestOrMiss
PROPERTIES ImplementsLoose LookupReturns CollapseTransparent
SYMMETRY Symmetry
CHECK_DEADLOCK FALSE
