SPECIFICATION Spec
CONSTANTS
  Records = {r1}
  Writers = {w1, w2}
  Workers = {k1}
  Hazards = {"overlap"}
  PageSize = 2
  MaxHistory = 4
  MaxReindexes = 0
  MaxFailures = 0
INVARIANT
  SyncedIsInSync
CHECK_DEADLOCK FALSE
