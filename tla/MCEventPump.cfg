\* A request, a tunnel that goes down twice, a channel of two events.
CONSTANTS
  Request = {"q1"}
  Tunnel = "tunnel"
  Capacity = 2
  MaxDrops = 2
SPECIFICATION PumpFairSpec
INVARIANTS
  PumpInv
PROPERTIES
  ShownInOrder
  EndShown
CHECK_DEADLOCK FALSE
