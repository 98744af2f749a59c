\* Three requests, two goroutines that toggle, two pauses.
CONSTANTS
  Stream = {"w1", "w2", "w3"}
  Controller = {"k1", "k2"}
  MaxPauses = 2
SPECIFICATION PauseFairSpec
INVARIANTS
  NoStrandedWaiter
  NoDoubleClose
  QueueDepthExact
  HeldUntilResume
  HeldIsAnnounced
PROPERTIES
  ReleasedOnResume
CHECK_DEADLOCK FALSE
