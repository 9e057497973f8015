SPECIFICATION FairSpec
CONSTANTS
  r1 = r1
  r2 = r2
  e1 = e1
  e2 = e2
  c1 = c1
  c2 = c2
  NoTx = NoTx
  NoRequest = NoRequest
  Regions <- TwoRegions
  Evaluators <- OneEvaluator
  Clients <- TwoClients
  Creations <- AnyDown
  Requests <- Edits
  Policies <- FastAndSlow
  MaxCount = 2
  Faults = FALSE
INVARIANTS
  NoOrphans
  IncidentTracksStatus
  AnnouncementsCurrent
PROPERTIES
  OverflowKeepsTally
  TransactionsEnd
CHECK_DEADLOCK FALSE
