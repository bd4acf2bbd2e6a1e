SPECIFICATION FairSpec
CONSTANTS
  r1 = r1
  r2 = r2
  r3 = r3
  Runs = {r1, r2, r3}
  Plans <- MCPlans
  Capacity = 1
  None = None
  MaxItems <- MCItems
  MaxDrops = 1
INVARIANTS
  TypeOK
  EventsMatchRun
  ResourcesAreOwn
PROPERTIES
  CancelEndsRun
CHECK_DEADLOCK FALSE
