SPECIFICATION Spec
CONSTANTS
  Users = {u1, u2}
  Keys = {k1, k2}
  Requests = {q1, q2}
  Tiers = {"demo", "standard"}
  Limit <- MCLimit
  Window = 2
  KeyLife = 1
  MaxTime = 3
  MaxRuns = 3
  NULL = NULL
SYMMETRY Alike
INVARIANTS TypeOK WithinQuota AnswersAgree NextCapacityIsTrue
CHECK_DEADLOCK FALSE
