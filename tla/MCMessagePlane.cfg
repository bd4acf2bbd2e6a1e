SPECIFICATION Spec
CONSTANTS
  Kinds = {event, log}
  Zids = {z1, z2}
  Orgs = {o1, o2}
  MaxDeviceId = 2
  NoDevice = NoDevice
  Cap = 2
  BusSize = 1
  MaxLimit = 1
  Limits = {0}
  Filters = {0, 1}
  MaxMsgs = 3
  MaxReg = 2
SYMMETRY Symmetry
INVARIANTS
  RingHoldsNewest
  StaysInOrg
  PagerReadsAllHistory
  ReplayMissesNothing
CHECK_DEADLOCK FALSE
