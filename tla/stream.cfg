SPECIFICATION FairSpec
CONSTANTS
  Viewers = {v1, v2}
  Buffer = 2
  LiveCap = 3
  StoredCap = 2
  MaxLines = 4
\* no symmetry: EndsUnlessDropped is a liveness property
CHECK_DEADLOCK FALSE
INVARIANTS
  TypeOK
  Seamless
PROPERTIES
  FeedSpec
  EndsUnlessDropped
