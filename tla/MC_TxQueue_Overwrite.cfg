SPECIFICATION Spec
CONSTANTS
  Roles = {"host"}
  MaxFrames = 2
  MaxMgmt = 2
  RetryLimit = 1
INVARIANT BufferIntact
CHECK_DEADLOCK FALSE
