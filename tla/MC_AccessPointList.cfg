SPECIFICATION Spec
CONSTANTS
  open = open
  wpa = wpa
  host = host
  NoAp = NoAp
  Ap = {open, wpa, host}
  Beacon <- BeaconOf
  MaxAp = 2
  Timeout = 1
  Nesting = {TRUE, FALSE}
  Filters = {{"compatible", "incompatible", "hosts"}, {"hosts"}}
  OtherModes = {"connected"}
INVARIANTS UniqueBssid CopyOfOneAp OnlyWhatWasAsked
PROPERTIES RemovedAfterSilence ClearEnds
