SPECIFICATION Spec
CONSTANTS
  home = home
  cafe = cafe
  Net <- MCNet
  NoAddr = NoAddr
  Manual = Manual
  Silent = {}
  NoDns <- MCCafe
  V6 <- MCCafe
  Wfc <- MCNet
  Static <- MCCafe
  SelectTries = 2
  MaxInputs = 2
  Builds = {"lwip"}
  LocalOnly = {"lwip"}
  NestedIrq = FALSE
  Batch = 1
  MaxStarts = 1
  MaxFrames = 1
PROPERTY FramesHandled
CHECK_DEADLOCK FALSE
