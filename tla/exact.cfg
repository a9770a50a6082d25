SPECIFICATION FairSpec
CONSTANTS
  AddrBits = 32
  Value = {1, 2}
  NoValue = NoValue
  Net <- Blocks
  Addr <- Hosts
  ExtendFrozen = FALSE
INVARIANTS LongestMatch NoCrash
PROPERTIES ImplementsExact CallsReturn InsertLocal
