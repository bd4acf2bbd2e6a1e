SPECIFICATION PoolFairSpec
CONSTANTS
  Creates = {r1, r2, r3}
  Others = {o1}
  MaxSize = 2
  Workers = 2
INVARIANTS
  FreezeNeedsFullPoolOfCreates
PROPERTIES
  Answered
