SPECIFICATION Spec
CONSTANTS
  Nodes <- ForkNodes
  Joins = {"j"}
  Flows <- ForkFlows
  End = "end"
  Entry = "t"
  Kind <- ForkKind
  Out <- ForkOut
  First <- ForkFirst
  Target <- ForkTarget
  Incoming <- ForkIncoming
  JoinOut <- ForkJoinOut
  Retryable = {}
  Tolerant = {}
  RowIds = {1, 2, 3, 4, 5, 6}
  NoRow = NoRow
  NoNode = NoNode
  Slots = {s1, s2}
  Workers = {w1, w2}
  MaxCrashes = 0
  MaxErrors = 2
  MaxFaults = 2
INVARIANTS
  TypeOK
  TakenOnlyWhenSettled
  NoExtraStart
  StartedOnlyWhenReached
PROPERTIES
  ImplementsTokenFlow
CHECK_DEADLOCK FALSE
