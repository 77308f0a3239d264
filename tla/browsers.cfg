SPECIFICATION Spec
CONSTANTS
  NumRounds = 2
  Workers = {w1}
  Tabs = {t1}
  Listings = {l1}
  Sweeps = {}
  Stages = {x}
  MaxCalls = 3
  MaxResumes = 0
  NULL = NULL
INVARIANTS StopIsShown
PROPERTIES KeepsWorkPromise
CHECK_DEADLOCK FALSE
