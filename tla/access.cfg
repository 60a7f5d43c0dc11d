SPECIFICATION Spec
CONSTANTS
  None = None
  Projects = {p1, p2}
  Keys = {k1, k2}
  Requests = {h1, h2}
  Loads <- ThreeLoads
SYMMETRY Symmetry
CHECK_DEADLOCK FALSE
INVARIANTS
  TypeOK
  ShownIsKnown
  RevokedIsForgotten
