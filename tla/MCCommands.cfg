SPECIFICATION MCFairSpec
CONSTANTS
  p1 = p1
  p2 = p2
  src = src
  box = box
  g0 = g0
  g1 = g1
  g2 = g2
  NoToken = NoToken
  Garbled = Garbled
  Procs = {p1, p2}
  Clients = {p1, p2}
  SourceRows = {src, box}
  GmailRows = {box}
  Grants = {g0, g1, g2}
INVARIANTS
  OpenedIsCurrent
  LeaseIsProven
  ExitZeroMeansDone
  OutcomeOutlivesDisplay
  WaitingHoldsNothing
PROPERTIES
  ImplementsStore
  RefusedForCause
  TokenFileStaysWhole
  EveryCommandAnswers
CHECK_DEADLOCK FALSE
