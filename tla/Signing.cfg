SPECIFICATION Spec
CONSTANTS
  Requests = {r1, r2, r3}
  u1 = u1
  u2 = u2
  u3 = u3
  Users = {u1, u2, u3}
  Performer = u1
  SignerLists <- AllSign
  MinPercent = 60
  MaxStops = 1
SYMMETRY Symmetry
INVARIANTS CommittedOnce CommittedIsSigned SignedInOrder SignedIsCurrent
CHECK_DEADLOCK FALSE
