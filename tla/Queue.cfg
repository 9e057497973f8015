SPECIFICATION FairSpec
CONSTANTS
  w1 = w1
  w2 = w2
  NoConsumer = NoConsumer
  Consumers <- TwoWorkers
  MaxJobs = 3
  Malformed <- FirstMalformed
  Count = 2
  MaxLen = 2
  MaxFaults = 1
  MaxStops = 1
INVARIANTS
  TypeOK
  NoJobForgotten
PROPERTIES
  EveryJobHandled
CHECK_DEADLOCK FALSE
