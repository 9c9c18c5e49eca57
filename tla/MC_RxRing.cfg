SPECIFICATION Spec
CONSTANTS
  Direction = "rx"
  Size = 9
  Lengths = {1, 5}
  Data <- MarkerLookalikes
  Header <- MarkerLookalikes
  Burst = 2
  CopyLimit = 8
  MaxPackets = 5
INVARIANTS UnreadIntact EmptyTakesAny
PROPERTY FifoSpec
