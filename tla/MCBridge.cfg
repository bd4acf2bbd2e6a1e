SPECIFICATION FairSpec
CONSTANTS
  MaxChunks = 2
  MaxFaults = 1
INVARIANTS
  NoSilentTruncation
PROPERTIES
  ImplementsPipes
  BothCloseEndsBridge
CHECK_DEADLOCK FALSE
