SPECIFICATION FairSpec
CONSTANTS
  Nodes <- FaultNodes
  Joins = {"j"}
  Flows <- FaultFlows
  End = "end"
  Entry = "t"
  Kind <- FaultKind
  Out <- FaultOut
  First <- FaultFirst
  Target <- FaultTarget
  Incoming <- FaultIncoming
  JoinOut <- FaultJoinOut
  Retryable = {"a", "u"}
  Tolerant = {"a"}
  RowIds = {1, 2, 3, 4, 5, 6}
  NoRow = NoRow
  NoNode = NoNode
  Slots = {s1, s2}
  Workers = {w1}
  MaxCrashes = 1
  MaxErrors = 1
  MaxFaults = 1
INVARIANTS
  StartedOnlyWhenReached
  EveryTokenIsFollowed
  DoneJoinContinues
PROPERTIES
  EndsOrReports
CHECK_DEADLOCK FALSE
