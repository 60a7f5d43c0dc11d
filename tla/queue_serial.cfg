SPECIFICATION FairSpec
CONSTANTS
  None = None
  p1 = p1  p2 = p2  s1 = s1  s2 = s2  r1 = r1  r2 = r2 
  w1 = w1  w2 = w2  h1 = h1  h2 = h2
  Projects = {p1, p2}
  Servers = {s1, s2}
  Workers = {w1, w2}
  Requests = {h1}
  Runs = {r1, r2}
  ServerOf <- OneServer
  RepoOf <- OwnName
  ProviderOf <- OneServer
  FolderOf <- OwnName
  DomainOf <- OwnName
  BotProjects = {p2}
  Limit = 2
  QueueCap = 1
  Loads <- OneByOne
\* no symmetry: two of the properties are liveness
CHECK_DEADLOCK FALSE
PROPERTIES
  JobSpec
  RunsFinish
  HandoversReturn
