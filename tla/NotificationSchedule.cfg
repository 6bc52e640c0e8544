SPECIFICATION Spec
CONSTANTS
  Daemons = {d1}
  Events = {}
  LockIds = {i1, i2, i3, i4}
  NoLock = NoLock
  NoEvent = NoEvent
  Notes = {n1}
  Retries = 2
  MaxCrashes = 0
  MaxErrors = 3
INVARIANTS
  NotificationSchedule
CHECK_DEADLOCK FALSE
