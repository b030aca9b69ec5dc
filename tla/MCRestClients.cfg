CONSTANTS
  t1 = t1
  t2 = t2
  Callers <- MCCallers
  Accounts <- MCAccounts
  NoAccount = NoAccount
  NoRequest = NoRequest
  NoSign = NoSign
  MaxTasks = 2
  May <- MCMay
  Sets <- MCSets
  InitsLate = TRUE
SPECIFICATION Spec
PROPERTY
  KeepsPromise
CHECK_DEADLOCK FALSE
