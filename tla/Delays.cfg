SPECIFICATION FairSpec
CONSTANTS
  Daemons = {d1, d2}
  Events = {e1}
  LockIds = {i1, i2, i3, i4}
  NoLock = NoLock
  NoEvent = NoEvent
  Notes = {n1}
  Retries = 1
  MaxCrashes = 1
  MaxErrors = 1
INVARIANTS
  ReportedOnce
  ReportedIsSent
PROPERTIES
  DueIsTakenUp
  PostponedIsSent
CHECK_DEADLOCK FALSE
