SPECIFICATION QueueSpec
CONSTANTS
  s1 = s1
  s2 = s2
  o1 = o1
  g1 = g1
  srcS = srcS
  srcO = srcO
  srcG = srcG
  NoItem = NoItem
  MaxTime = 1
  Items <- MCItems
  Works <- MCWorks
  Sources <- MCSources
  SourceOf <- MCSourceOf
  GmailSources <- MCGmailSources
INVARIANTS
  OneUnresolvedWorkPerItem
  WorkResolvesWithMembers
  HistoryTellsState
PROPERTIES
  HistoryIsAChain
  ResolvedIsFinal
  UpdatedNeverMovesBack
CHECK_DEADLOCK FALSE
