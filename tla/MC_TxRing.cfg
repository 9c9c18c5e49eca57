SPECIFICATION Spec
CONSTANTS
  Direction = "tx"
  Size = 12
  Lengths = {4, 5, 9}
  Data <- MarkerLookalikes
  Header <- ZeroHeader
  Burst = 1
  CopyLimit = 8
  MaxPackets = 5
INVARIANT DeliveredInOrder
PROPERTY SentUnlessBlocked
CHECK_DEADLOCK FALSE
