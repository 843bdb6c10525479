SPECIFICATION QueuedSpec
CONSTANTS
  g1 = g1
  g2 = g2
  srcG = srcG
  t1 = t1
  t2 = t2
  p1 = p1
  p2 = p2
  catA = catA
  catB = catB
  k1 = k1
  k2 = k2
  sam = sam
  ann = ann
  s1 = s1
  s2 = s2
  srcS = srcS
  NoItem = NoItem
  NoSender = NoSender
  NoTeaching = NoTeaching
  NoConfig = NoConfig
  Items = {g1, g2}
  Works = {1, 2}
  Sources = {srcG, srcS}
  GmailSources = {srcG}
  SourceOf <- MCSourceOf
  Procs = {p1, p2}
  Teachings = {t1, t2}
  Categories = {catA}
  Contents <- MCContents
  SenderOf <- MCTwoSenders
  Evidence <- MCOneSender
  Retirable = {}
  Learnable = {}
  Deferrable = {}
  MaxTime = 0
  PageSize = 1
SYMMETRY MCSymmetry
INVARIANTS
  TeachTypeOK
  OneTeachingPerCandidate
PROPERTIES
  ImplementsContract
  CompletionCoversQueue
CHECK_DEADLOCK FALSE
