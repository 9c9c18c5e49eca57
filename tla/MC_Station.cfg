SPECIFICATION Spec
CONSTANTS
  open = open
  mute = mute
  picky = picky
  wep = wep
  full = full
  refuses = refuses
  silent = silent
  NoAp = NoAp
  Ap = {open, mute, picky, wep, full, refuses, silent}
  Kind <- MCKind
  Place = {"lossy", "quiet"}
  InRange <- MCInRange
  Lossy = {"lossy"}
  Deauths = {"left", "other"}
  Wfc = {picky, wep}
  Dhcp = {"quiet"}
  MaxCalls <- MCCalls
  MaxDeauths = 1
  WIFI_MAX_ASSOC_RETRY = 1
INVARIANT AssociatedIsMember
PROPERTIES SearchSucceeds GivesUp
