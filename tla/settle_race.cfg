SPECIFICATION Spec
CONSTANTS
  NumRounds = 2
  Workers = {w1}
  Tabs = {}
  Listings = {l1}
  Sweeps = {}
  Stages = {x}
  MaxCalls = 1
  MaxResumes = 1
  NULL = NULL
INVARIANTS ActiveJobIsApproved
CHECK_DEADLOCK FALSE
