SPECIFICATION Spec
CONSTANTS
  home = home
  cafe = cafe
  Ap <- MCAp
  NoAp = NoAp
  BadKey = BadKey
  Wpa2 <- MCWpa2
  Wfc <- MCWfc
  NumChannels = 2
  Off = TRUE
  MaxInputs = 2
INVARIANTS
  SettledAgrees
PROPERTIES RequestServed CleanAttemptSucceeds EveryChannelScanned
CHECK_DEADLOCK FALSE
