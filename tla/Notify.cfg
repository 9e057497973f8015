SPECIFICATION FairSpec
CONSTANTS
  n1 = n1
  k1 = k1
  k2 = k2
  Notifiers <- OneNotifier
  Channels <- TwoChannels
  Linked <- TwoChannels
  TypeOf <- ConnectorsOf
  Transitions <- OutageAndNoise
  MaxEvents = 2
  Count = 2
  MaxLen = 1
  MaxFaults = 1
  MaxEdits = 1
INVARIANTS
  AlertsInOrder
  DeliveriesLogged
PROPERTIES
  EveryEventSettles
CHECK_DEADLOCK FALSE
