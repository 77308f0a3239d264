SPECIFICATION Spec
CONSTANTS
  NumRounds = 2
  Workers = {w1, w2}
  Tabs = {}
  Listings = {}
  Sweeps = {}
  Stages = {x}
  MaxCalls = 1
  MaxResumes = 1
  NULL = NULL
SYMMETRY WorkersAlike
INVARIANTS TypeOK RoundLineage ActiveJobIsCurrent OutputIsNewest ActiveJobIsApproved
PROPERTIES StopIsFinal KeepsPromise
CHECK_DEADLOCK FALSE
