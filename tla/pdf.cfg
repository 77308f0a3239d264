SPECIFICATION FairSpec
CONSTANTS
  Runs = {r1, r2}
  Workers = {w1, w2}
  Files = {x, y}
  NULL = NULL
INVARIANTS TypeOK ReleasedIsQualified StoredIsQualified
PROPERTIES KeepsArtifactPromise EveryRequestEnds
CHECK_DEADLOCK FALSE
