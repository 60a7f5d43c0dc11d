SPECIFICATION Spec
CONSTANTS
  None = None
  p1 = p1  p2 = p2  s1 = s1  s2 = s2  r1 = r1  r2 = r2 
  w1 = w1  w2 = w2  h1 = h1  h2 = h2
  Projects = {p1, p2}
  Servers = {s1, s2}
  Workers = {w1, w2}
  Requests = {h1}
  Runs = {r1, r2}
  ServerOf <- OneServer
  RepoOf <- OwnName
  ProviderOf <- OneServer
  FolderOf <- OwnName
  DomainOf <- OwnName
  BotProjects = {}
  Limit = 2
  QueueCap = 2
  Loads <- StopOnly
SYMMETRY Symmetry
CHECK_DEADLOCK FALSE
INVARIANTS
  NoPanic
