CONSTANTS
  t1 = t1
  t2 = t2
  t3 = t3
  t4 = t4
  Threads <- MCThree
  MaxClients = 2
  ConnectFirst = TRUE
  OneByOne = FALSE
  ClientsEnd = FALSE
SPECIFICATION FairSpec
PROPERTY
  StartsServing
CHECK_DEADLOCK FALSE
