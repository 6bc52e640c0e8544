SPECIFICATION FairSpec
CONSTANTS
  Records = {r1, r2}
  Writers = {w1, w2}
  Workers = {k1}
  Hazards = {"patch", "throw", "refuse"}
  PageSize = 1
  MaxHistory = 4
  MaxReindexes = 1
  MaxFailures = 2
INVARIANT
  IndexAgrees
PROPERTIES
  CatchesUp
  ReindexRestores
CHECK_DEADLOCK FALSE
