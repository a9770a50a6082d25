SPECIFICATION GeoAPISpec
CONSTANTS
  AddrBits = 8
  k1 = k1
  k2 = k2
  k3 = k3
  Key = {k1, k2, k3}
  NoKey = NoKey
  NoValue = NoValue
  Value <- Ids
  IdRange = 32
  Net <- AllNets
  Addr <- FewAddrs
  ExtendFrozen = TRUE
  File <- AllFiles
  PushNet <- NorthZero
  PushKey = {k1, k2}
  MaxPrefixes = 3
  MaxLoads = 2
INVARIANTS GeoTypeOK OwnKey OnlyGiven PushesNeverClash
PROPERTIES FindsKey KeysStay
CHECK_DEADLOCK FALSE
