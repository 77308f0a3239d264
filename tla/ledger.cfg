SPECIFICATION Spec
CONSTANTS
  Requests = {r1, r2, r3, r4}
  Stages = {s1, syn}
  Synthesis = {syn}
  MaxCalls = 3
  StageLimit = 2
  MaxClaims = 2
  NULL = NULL
SYMMETRY RequestsAlike
INVARIANTS TypeOK AllowanceKept LedgerTellsTruth
PROPERTIES NoBlindReplay SavedStageIsNotRepaid SettledReceiptsStay KeepsSpendingPromise
CHECK_DEADLOCK FALSE
