SPECIFICATION FairTabSpec
CONSTANTS
  Areas <- EveryArea
  MaxWrites = 2
  OthersWrite <- SomeFields
  MaxFaults = 1
INVARIANTS
  OwnWritesShown
PROPERTIES
  SavesKeepTheRest
  PolledListsCatchUp
CHECK_DEADLOCK FALSE
