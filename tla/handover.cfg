SPECIFICATION FairSpec
CONSTANTS
  NumRounds = 1
  Workers = {w1, w2}
  Tabs = {t1}
  Listings = {l1}
  Sweeps = {s1}
  Stages = {x, y}
  MaxCalls = 2
  MaxResumes = 1
  NULL = NULL
INVARIANTS OneDispatcher
PROPERTIES CompletedIsImmutable EveryJobSettles
CHECK_DEADLOCK FALSE
