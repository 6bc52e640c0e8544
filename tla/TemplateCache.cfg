SPECIFICATION FairSpec
CONSTANTS
  Connections = {c1, c2}
  Channels = 2
  RowChange = 1
  NoClient = NoClient
  MaxBreaks = 2
  Readers = {r1, r2}
  Kinds = {"noticed", "stamped", "timed"}
  Ttl = 1
  None = None
  MaxVersion = 2
INVARIANTS
  NotifiedIsCurrent
  NeverDeaf
PROPERTIES
  StampedIsFresh
  Heals
  ListensAgain
CHECK_DEADLOCK FALSE
