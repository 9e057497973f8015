SPECIFICATION Spec
CONSTANTS
  u1 = u1
  u2 = u2
  b1 = b1
  b2 = b2
  t1 = t1
  t2 = t2
  t3 = t3
  c1 = c1
  c2 = c2
  c3 = c3
  None = None
  Users <- OneUser
  Passwords = {"p", "q"}
  Browsers <- TwoBrowsers
  Tabs <- ThreeTabs
  Calls <- ThreeCalls
  BrowserOf <- TabsOf
  TabOf <- CallsOf
  Starts <- CleanOrNot
  FirstPassword = "p"
  AllowRegistration = FALSE
  MaxSessions = 8
  MaxMoves = 3
  MaxOpen = 2
SYMMETRY SameTabs
INVARIANTS
  TypeOK
  SoloSessionsHold
  ChangeEndsOthers
  AccountsComplete
CHECK_DEADLOCK FALSE
