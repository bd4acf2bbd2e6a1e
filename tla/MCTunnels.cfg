SPECIFICATION Spec
CONSTANTS
  Zids = {z1, z2}
  Orgs = {acme, beta}
  Creates = {r1, r2}
  Conns = {c1}
  Ports = {80, 65616}
  Hosts = {h1}
  MaxDeviceId = 1
  MaxTunnelId = 2
  MaxReg = 3
  MaxFaults = 1
  ChannelSize = 1
  NoDevice = NoDevice
  None = None
CONSTRAINT FewTogether
SYMMETRY TunnelSymmetry
CHECK_DEADLOCK FALSE
INVARIANTS
  TypeOK
  StoredTunnelServed
  ListenerMatchesRow
  ListenersStayInOrg
  SessionRecorded
  SeenDeviceIsOwn
