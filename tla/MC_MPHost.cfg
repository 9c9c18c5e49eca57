SPECIFICATION Spec
CONSTANTS
  Mac = {m1, m2}
  NoMac = NoMac
  MaxClients = 2
  KickMaskBits = 8
  NestedIrq = TRUE
  LookupAids = {2}
  KickAids = {2}
  HostSizes = {1, 2}
  Calls = {"BeaconStart", "AllowNewClients", "GetClients"}
INVARIANTS TableConsistent GrantedAidIsKept
PROPERTIES LeavesHostMode ClosingOpenBeaconKicks
