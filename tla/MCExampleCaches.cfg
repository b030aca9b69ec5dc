CONSTANTS
  w1 = w1
  w2 = w2
  Null = Null
  Endpoints <- MCEndpoints
  Public = "pub"
  Addresses <- MCAddresses
  Programs <- MCPrograms
  Keys <- MCKeys
  MaxLevels = 1
  MaxTrades = 1
  MaxPublished = 3
  MaxInt = 2
  MaxConnects = 3
SPECIFICATION Spec
INVARIANTS
  DepthIsBook
  TradesKept
  RightCallback
PROPERTY
  SendsToPublic
SYMMETRY Symmetry
CHECK_DEADLOCK FALSE
