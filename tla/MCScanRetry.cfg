SPECIFICATION ScanSpec
CONSTANTS
  p1 = p1
  p2 = p2
  boxA = boxA
  boxB = boxB
  s1 = s1
  s2 = s2
  i1 = i1
  i2 = i2
  a = a
  b = b
  k1 = k1
  k2 = k2
  c1 = c1
  None = None
  Outside = Outside
  Failed = Failed
  Procs = {p1}
  Mailboxes = {boxA, boxB}
  SourceIds = {s1, s2}
  ItemIds = {i1, i2}
  Messages = {a}
  Contents = {k1}
  Estimates = {"absent"}
  Revisited = {i1, i2}
  Configs = {c1}
  Runs = {1, 2}
  NeedsTeaching <- MCNeeds
  Requests <- MCRetry
  MaxTime = 1
  MaxEvals = 3
SYMMETRY MCSymmetry
PROPERTIES
  RetryChangesNothing
CHECK_DEADLOCK FALSE
