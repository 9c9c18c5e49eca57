SPECIFICATION Spec
CONSTANTS
  home = home
  cafe = cafe
  Net <- MCNet
  NoAddr = NoAddr
  Manual = Manual
  Silent = {}
  NoDns <- MCCafe
  V6 <- MCCafe
  Wfc <- MCNet
  Static <- MCCafe
  SelectTries = 2
  MaxInputs = 3
  Builds = {"lwip", "noip"}
  LocalOnly = {"noip"}
  NestedIrq = FALSE
  Batch = 1
  MaxStarts = 2
  MaxFrames = 2
INVARIANTS SameStruct LeaseOfThisNetwork
PROPERTIES ManualIsKept AddressObtained AcquiringEnds ModeReached WaitsEnd FramesHandled
CHECK_DEADLOCK FALSE
