CONSTANTS
  MaxFaults = 3
  MaxSends = 2
  MaxBuf = 2
  Sizes <- MCSizes
  SendWhen = "any"
  HasOnReconn = TRUE
  Torn = TRUE
  CanClose = TRUE
SPECIFICATION Spec
INVARIANTS
  TypeOK
  NoLostReconnect
  OneChain
  DeafOnlyIfDisturbed
PROPERTIES
  ReadAbortOnlyMidMessage
  StoppedStaysDown
CHECK_DEADLOCK FALSE
