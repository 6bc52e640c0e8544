SPECIFICATION FairSpec
CONSTANTS
  Replicas = {r1}
  Handlers = {h1, h2}
  Messages = {m1, m2}
  NoMessage = NoMessage
  Prefetch = 2
  Cache = TRUE
  MaxTag = 3
  MaxDrops = 2
  MaxCrashes = 0
  MaxNacks = 0
PROPERTY EveryMessageIsSettled
CHECK_DEADLOCK FALSE
