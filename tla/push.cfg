SPECIFICATION FairSpec
CONSTANTS
  None = None
  Projects = {1, 2}
  Calls = {k1, k2}
  Provider = "gitlab"
  MaxPushes = 2
  MaxClicks = 1
\* no symmetry: TakenIsDeployed is a liveness property
CHECK_DEADLOCK FALSE
PROPERTIES
  VersionsAdvance
  TakenIsDeployed
