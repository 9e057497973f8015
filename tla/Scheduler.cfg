SPECIFICATION FairSpec
CONSTANTS
  a1 = a1
  a2 = a2
  a3 = a3
  s1 = s1
  s2 = s2
  Nobody = Nobody
  Assignments <- Three
  RegionOf <- TwoRegions
  Schedulers <- TwoSchedulers
  BatchSize = 2
  MaxFaults = 1
  MaxEdits = 2
INVARIANTS
  TypeOK
  WindowsAccounted
PROPERTIES
  NobodyStarves
CHECK_DEADLOCK FALSE
