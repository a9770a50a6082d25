SPECIFICATION GeoAPISpec
CONSTANTS
  AddrBits = 8
  k1 = k1
  k2 = k2
  k3 = k3
  Key = {k1, k2, k3}
  NoKey = NoKey
  NoValue = NoValue
  Value <- Ids
  Net <- AllNets
  Addr <- SomeAddrs
  ExtendFrozen = TRUE
  File <- AsnFiles
  PushNet <- WestNet
  PushKey = {k3}
  IdRange = 32
  MaxPrefixes = 4
  MaxLoads = 1
INVARIANT PushIsSafe
CHECK_DEADLOCK FALSE
