SPECIFICATION Spec
CONSTANTS
  Requests = {r1, r2, r3, r4, r5}
  Orgs = {acme, beta}
  NoUser = NoUser
  MaxUserId = 3
  MaxToken = 6
  MaxCrashes = 1
SYMMETRY ClaimSymmetry
CHECK_DEADLOCK FALSE
INVARIANTS
  PendingExcludesUsers
  ClaimAnswerIsOwn
  KeepsAnOwner
  SomebodyCanAdminister
