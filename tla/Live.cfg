SPECIFICATION FairSpec
CONSTANTS
  s1 = s1
  s2 = s2
  k1 = k1
  k2 = k2
  wa = wa
  wb = wb
  here = here
  there = there
  Addresses <- TwoAddresses
  AddressOf <- Places
  BodyOf <- KeyBodies
  Existing <- FirstKey
  Null = Null
  NoKey = NoKey
  Dollar = Dollar
  Sockets <- TwoSockets
  Workspaces <- TwoWorkspaces
  Keys <- TwoKeys
  WorkspaceOf <- KeysOf
  MaxPending = 1
  MaxPerWorkspace = 1
  MaxEvents = 2
  MaxFaults = 1
INVARIANTS
  PlacesHeld
  NothingMissed
PROPERTIES
  StaleSocketsDropped
CHECK_DEADLOCK FALSE
