SPECIFICATION FairSpec
CONSTANTS
  wa = wa
  wb = wb
  m1 = m1
  m2 = m2
  g1 = g1
  t1 = t1
  tb = tb
  c1 = c1
  c2 = c2
  p1 = p1
  p2 = p2
  ra = ra
  rb = rb
  s1 = s1
  s2 = s2
  q1 = q1
  q2 = q2
  host = host
  tail1 = tail1
  tail2 = tail2
  secret1 = secret1
  secret2 = secret2
  Requests <- TwoRequests
  Objects <- Rows
  KindOf <- Tables
  WorkspaceOf <- Owners
  Shared = Shared
  DefaultRegion = ra
  Preset <- FirstRows
  PresetLinks <- FirstLinks
  PresetConfig <- FirstConfig
  Slugs <- TwoSlugs
  Sent <- SomeRequests
  Keep = Keep
  NoGroup = NoGroup
  NoCall = NoCall
  PoolSizes = {2, 3}
  MaxCalls = 3
  Visible <- OneHost
  Tails <- TwoTails
  Unmarked <- Slash
  Secrets <- TwoSecrets
  MASK = MASK
  Absent = Absent
INVARIANTS
  TypeOK
  LinksSound
  ListsReplaced
  CredentialsKept
PROPERTIES
  RequestsEnd
CHECK_DEADLOCK FALSE
