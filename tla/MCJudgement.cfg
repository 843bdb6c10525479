SPECIFICATION FocusedSpec
CONSTANTS
  p1 = p1
  p2 = p2
  p3 = p3
  b1 = b1
  b2 = b2
  u1 = u1
  kb1 = kb1
  kb2 = kb2
  k1 = k1
  n1 = n1
  n2 = n2
  n3 = n3
  e1 = e1
  e2 = e2
  d1 = d1
  up = up
  w1 = w1
  w2 = w2
  inbox = inbox
  None = None
  AutoAt = 70
  ReviewAt = 50
  Destructive = 95
  Day = 2
  Procs = {p1, p2, p3}
  Base <- MCBase
  NewIds = {u1}
  NewKeys = {k1}
  Names = {n1, n2, n3}
  Requests <- MCRequests
  Learnable = {b2}
  MaxSaves = 3
  Policies <- MCPolicies
  Mails <- MCMails
SYMMETRY MCSymmetry
INVARIANTS
  CatalogLoads
  CleanupIsWarranted
  LessEvidenceNeverCleans
  NoReviewMeansSettled
PROPERTIES
  SavedAsShown
CHECK_DEADLOCK FALSE
