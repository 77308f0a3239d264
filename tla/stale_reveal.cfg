SPECIFICATION Spec
CONSTANTS
  NumRounds = 2
  Workers = {w1}
  Tabs = {t1}
  Listings = {}
  Sweeps = {}
  Stages = {x}
  MaxCalls = 1
  MaxResumes = 1
  NULL = NULL
INVARIANTS ActiveJobIsCurrent
CHECK_DEADLOCK FALSE
