CONSTANTS
  MaxFaults = 3
  MaxSends = 2
  MaxBuf = 2
  Sizes <- MCSizes
  SendWhen = "open"
  HasOnReconn = FALSE
  Torn = FALSE
  CanClose = FALSE
SPECIFICATION FairSpec
INVARIANTS
  NeverDeaf
  NeverAborts
PROPERTY
  Recovers
