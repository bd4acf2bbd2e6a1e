SPECIFICATION FairSpec
CONSTANTS
  Zids = {z1, z2}
  Orgs = {acme}
  MaxDeviceId = 1
  NoDevice = NoDevice
  CmdIds = {c1}
  MaxPerDevice = 1
  Ttls = {1}
  Results = {done}
  NoCmd = NoCmd
  NoAck = NoAck
  NoOrg = NoOrg
  MaxTime = 1
  MaxReg = 2
  MaxFaults = 2
  MaxDismissed = 2
  MaxAcks = 1
INVARIANTS
  MisdeliveryOnlyByRace
  StoredRowsAudited
PROPERTIES
  PendingIsPublished
  SettledStaysOffWire
  ImplementsLifecycle
