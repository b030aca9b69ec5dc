CONSTANTS
  t1 = t1
  t2 = t2
  pub = pub
  pri = pri
  NoCell = NoCell
  Threads <- MCThreads
  Cells <- MCCells
  Plan <- MCPlan
  MaxLookups = 2
  MaxConnects = 4
SPECIFICATION FairSpec
INVARIANTS
  SubscribesOwn
PROPERTIES
  EntriesStay
  MissesOnlyWhileConnecting
  KeepsServing

