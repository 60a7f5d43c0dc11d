SPECIFICATION Spec
CONSTANTS
  None = None
  Down = Down
  Commits = {c1, c2}
  Prefs = {v1}
  Runs = {r1, r2, r3, r4}
  Handlers = {h1}
  Cap = 2
  Ops = {"redeploy", "rollback", "edit"}
  MaxPushes = 2
  MaxRestarts = 1
SYMMETRY Symmetry
CHECK_DEADLOCK FALSE
INVARIANTS
  TypeOK
  NoRepeats
  OnlyGoodVersions
PROPERTIES
  RollbackLandsOnTarget
