SPECIFICATION SessionSpec
CONSTANTS
  Mac = {m1, m2}
  NoMac = NoMac
  MaxClients = 1
  KickMaskBits = 8
  NestedIrq = FALSE
  LookupAids = {}
  KickAids = {1}
  HostSizes = {1}
  Calls = {"BeaconStart", "AllowNewClients"}
  WIFI_MAX_ASSOC_RETRY = 1
  MaxQueue = 1
  MaxLost = 1
  MaxPackets = 1
  MaxCalls = 4
INVARIANT Agreement
PROPERTY RightSender
SYMMETRY Consoles
