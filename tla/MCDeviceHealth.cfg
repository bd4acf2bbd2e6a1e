SPECIFICATION Spec
CONSTANTS
  Zids = {z1, z2}
  Orgs = {o1, o2}
  AgentOrgs = {o1}
  MaxDeviceId = 1
  NoDevice = NoDevice
  None = None
  Polls = {p1, p2}
  Ttl = 0
  ProbeTime = 1
  MaxEntries = 1
  MaxTime = 2
  MaxReg = 2
  MaxSwitches = 2
  MaxFaults = 1
SYMMETRY Symmetry
INVARIANTS
  TypeOK
  StampIsOwn
  RetractedIsOffline
PROPERTIES
  RttIsCurrent
CHECK_DEADLOCK FALSE
