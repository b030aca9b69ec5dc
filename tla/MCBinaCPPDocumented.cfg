CONSTANTS
  Keys <- MCKeys
  Null = Null
  Freed = Freed
  NoRequest = NoRequest
SPECIFICATION Spec
INVARIANT
  SentAsDocumented
