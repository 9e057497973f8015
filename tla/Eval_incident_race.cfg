SPECIFICATION Spec
CONSTANTS
  r1 = r1
  r2 = r2
  e1 = e1
  e2 = e2
  c1 = c1
  c2 = c2
  NoTx = NoTx
  NoRequest = NoRequest
  Regions <- TwoRegions
  Evaluators <- TwoEvaluators
  Clients <- NoClients
  Creations <- BothDown
  Requests <- NoRequests
  Policies <- FastOnly
  MaxCount = 2
  Faults = FALSE
INVARIANTS
  IncidentTracksStatus
CHECK_DEADLOCK FALSE
