CONSTANTS
  t1 = t1
  t2 = t2
  t3 = t3
  t4 = t4
  Threads <- MCFour
  MaxClients = 2
  ConnectFirst = FALSE
  OneByOne = FALSE
  ClientsEnd = TRUE
SPECIFICATION Spec
INVARIANT
  OneIoThread
SYMMETRY MCSymmetry
CHECK_DEADLOCK FALSE
