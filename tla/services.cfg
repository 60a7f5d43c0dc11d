SPECIFICATION ServicesSpec
CONSTANTS
  NoOne = NoOne
  Flows = {x1, x2, x3}
  Profiles = {y1, y2}
  Accounts = {z1, z2}
  NoPair = NoPair
  TokenCalls = {r1, r2}
  Pairs = {y1, y2, z1, z2}
  NoInst = NoInst
  Members = {y1, y2}
  Installs = {z1, z2}
  Requests = {r1, r2}
  Keys = {k1}
  Limit = 2
  Per = 2
  LastTick = 7
  m1 = m1  m2 = m2  s1 = s1  s2 = s2  s3 = s3
  Machines = {m1, m2}
  Sites = {s1, s2, s3}
  HostOf <- Hosts
  Pollers = 2
  LastDay = 3
  ActivityCap = 1
  MaxEvents = 2
  KeyPairs = {x1, x2, x3}
  Granted = Granted
  NoKey = NoKey
SYMMETRY Symmetry
CHECK_DEADLOCK FALSE
INVARIANTS
  TypesOK
  StoredTokenLives
  CalmMeansConnected
  LimitHolds
  FullOnlyAfterDip
  GridTrue
  RowOpensServer
PROPERTIES
  LinkWasAsked
  SparesLiveInstall
