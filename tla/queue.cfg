SPECIFICATION Spec
CONSTANTS
  None = None
  p1 = p1  p2 = p2  s1 = s1  s2 = s2  r1 = r1  r2 = r2 
  w1 = w1  w2 = w2  h1 = h1  h2 = h2
  Projects = {p1, p2}
  Servers = {s1, s2}
  Workers = {w1, w2}
  Requests = {h1, h2}
  Runs = {r1, r2}
  ServerOf <- OneServer
  RepoOf <- OneName
  ProviderOf <- OneServer
  FolderOf <- OneName
  DomainOf <- OwnName
  BotProjects = {p2}
  Limit = 2
  QueueCap = 1
  Loads <- FaultsAndCrowd
SYMMETRY Symmetry
CHECK_DEADLOCK FALSE
INVARIANTS
  TypeOK
  ServerLockMutex
  WaitGroupCounts
  EachJobOnce
  NoStuckRow
  BusyMeansOwned
  OneWorkerPerProject
  SettledRowMatchesRun
