SPECIFICATION Spec
CONSTANTS
  Zids = {z1}
  Orgs = {acme}
  MaxDeviceId = 1
  NoDevice = NoDevice
  CmdIds = {c1, c2}
  MaxPerDevice = 2
  Ttls = {1}
  Results = {done}
  NoCmd = NoCmd
  NoAck = NoAck
  NoOrg = NoOrg
  MaxTime = 0
  MaxReg = 1
  MaxFaults = 1
  MaxDismissed = 0
  MaxAcks = 1
SYMMETRY CmdSymmetry
INVARIANTS
  RedeliveryNeedsFault
  NoLostWakeup
  FirstPutsInOrder
