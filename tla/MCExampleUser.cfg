CONSTANTS
  w1 = w1
  w2 = w2
  Null = Null
  Endpoints <- MCEndpoints
  Public = "pub"
  Addresses <- MCAddresses
  Programs <- MCUserStream
  Keys <- MCKeys
  MaxLevels = 1
  MaxTrades = 1
  MaxPublished = 3
  MaxInt = 2
  MaxConnects = 3
SPECIFICATION Spec
INVARIANT
  LockedAsReported
SYMMETRY Symmetry
CHECK_DEADLOCK FALSE
