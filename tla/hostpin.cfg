SPECIFICATION Spec
CONSTANTS
  None = None
  Dialers = {d1, d2}
  Requests = {h1}
  Preference <- TwoTypes
  MaxKeys = 3
  MaxProjects = 1
  MaxForgets = 2
  Faults = {"HostPin", "TrustHostPin", "ForgetHostPin", "HasDeploymentsOn"}
SYMMETRY Symmetry
CHECK_DEADLOCK FALSE
INVARIANTS
  TypeOK
  SessionsAgree
PROPERTIES
  NoFalseAlarm
