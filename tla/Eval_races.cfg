SPECIFICATION Spec
CONSTANTS
  r1 = r1
  r2 = r2
  e1 = e1
  e2 = e2
  c1 = c1
  c2 = c2
  NoTx = NoTx
  NoRequest = NoRequest
  Regions <- TwoRegions
  Evaluators <- TwoEvaluators
  Clients <- OneClient
  Creations <- BothDown
  Requests <- RaceRequests
  Policies <- FastOnly
  MaxCount = 1
  Faults = TRUE
SYMMETRY Alike
INVARIANTS
  TypeOK
PROPERTIES
  NoResultLost
  AloneDerivesStatus
CHECK_DEADLOCK FALSE
