SPECIFICATION Spec
CONSTANTS
  Replicas = {r1, r2}
  Handlers = {h1, h2}
  Messages = {m1, m2}
  NoMessage = NoMessage
  Prefetch = 2
  Cache = FALSE
  MaxTag = 3
  MaxDrops = 1
  MaxCrashes = 1
  MaxNacks = 1
INVARIANTS AckedIsHandled AckedIsForwarded
CHECK_DEADLOCK FALSE
