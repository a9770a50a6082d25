SPECIFICATION Spec
CONSTANTS
  AddrBits = 8
  v1 = v1
  v2 = v2
  NoValue = NoValue
  Value = {v1, v2}
  Net <- ZeroNets
  Addr <- SomeAddrs
  ExtendFrozen = FALSE
INVARIANT NoCrash
CHECK_DEADLOCK FALSE
