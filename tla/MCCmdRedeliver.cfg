SPECIFICATION FairSpec
CONSTANTS
  Zids = {z1}
  Orgs = {acme}
  MaxDeviceId = 1
  NoDevice = NoDevice
  CmdIds = {c1}
  MaxPerDevice = 1
  Ttls = {1}
  Results = {done}
  NoCmd = NoCmd
  NoAck = NoAck
  NoOrg = NoOrg
  MaxTime = 0
  MaxReg = 1
  MaxFaults = 0
  MaxDismissed = 0
  MaxAcks = 1
PROPERTIES
  UnackedIsRedelivered
