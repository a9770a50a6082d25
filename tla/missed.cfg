SPECIFICATION Spec
CONSTANTS
  AddrBits = 8
  v1 = v1
  v2 = v2
  NoValue = NoValue
  Value = {v1, v2}
  Net <- NestedNets
  Addr <- SomeAddrs
  ExtendFrozen = FALSE
INVARIANT LongestMatch

