SPECIFICATION ReadSpec
CONSTANTS
  k1 = k1
  None = None
  Outside = Outside
  Failed = Failed
  Messages = {1, 2, 3, 4}
  Contents = {k1}
  Estimates = {"absent", "agrees", "differs"}
  Top = 5
  Limit = 3
  MaxPages = 3
  MaxPageSize = 2
INVARIANTS
  YieldsARead
  CompleteReadSawSteady
CHECK_DEADLOCK FALSE
