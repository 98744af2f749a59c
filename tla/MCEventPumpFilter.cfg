\* The reader of events while the user types a filter.
CONSTANTS
  Request = {"q1"}
  Tunnel = "tunnel"
  Capacity = 2
  MaxDrops = 2
SPECIFICATION PumpSpec
INVARIANT ReaderArmed
CHECK_DEADLOCK FALSE
