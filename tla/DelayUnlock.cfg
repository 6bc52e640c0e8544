SPECIFICATION Spec
CONSTANTS
  Daemons = {d1, d2}
  Events = {e1, e2}
  LockIds = {i1, i2, i3, i4}
  NoLock = NoLock
  NoEvent = NoEvent
  Notes = {}
  Retries = 1
  MaxCrashes = 0
  MaxErrors = 0
PROPERTIES
  UnlockOnlyOld
CHECK_DEADLOCK FALSE
