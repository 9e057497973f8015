SPECIFICATION FairSpec
CONSTANTS
  w1 = w1
  w2 = w2
  ra = ra
  rb = rb
  NoLatency = NoLatency
  NoValue = NoValue
  Workers <- TwoWorkers
  Regions <- TwoRegions
  RegionOf <- InRegionA
  Earlier <- InRegionB
  Outcomes <- ThreeOutcomes
  StartHour = 1
  MaxHour = 2
  HoursPerDay = 2
  FlushMaxRows = 2
  MaxFaults = 1
  Stoppable <- OneWorker
  WindowDays = 1
  BarHours = 2
  Bars = 1
  RecentLimit = 2
INVARIANTS
  TypeOK
  RollupsExact
  ChartWithinSummary
PROPERTIES
  ResultsLeaveBuffer
CHECK_DEADLOCK FALSE
