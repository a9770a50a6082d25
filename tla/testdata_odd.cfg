SPECIFICATION Spec
CONSTANTS
  AddrBits = 32
  NoValue = NoValue
  Value = {v1}
  Net <- OddBlocks
  Addr <- OddHosts
  ExtendFrozen = FALSE
INVARIANT OnlyCovered

