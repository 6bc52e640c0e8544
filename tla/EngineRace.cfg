SPECIFICATION Spec
CONSTANTS
  Nodes <- RaceNodes
  Joins = {}
  Flows <- RaceFlows
  End = "end"
  Entry = "t"
  Kind <- RaceKind
  Out <- RaceOut
  First <- RaceFirst
  Target <- RaceTarget
  Incoming <- RaceIncoming
  JoinOut <- RaceJoinOut
  Retryable = {}
  Tolerant = {}
  RowIds = {1, 2, 3, 4}
  NoRow = NoRow
  NoNode = NoNode
  Slots = {s1, s2}
  Workers = {w1, w2}
  MaxCrashes = 0
  MaxErrors = 0
  MaxFaults = 0
INVARIANTS
  FinalHasNothingInProgress
CHECK_DEADLOCK FALSE
