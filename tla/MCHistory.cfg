\* Two tunneled requests, two replays, and a history of three rows.
CONSTANTS
  Tunneled = {"t1", "t2"}
  Replay = {"r1", "r2"}
  Code = {500}
  Any = Any
  MaxRequests = 3
SPECIFICATION HistorySpec
INVARIANTS
  HistoryInv
  WindowShowsCursor
PROPERTIES
  UpdateKeepsCursor
  ReplayReturns
  OldestGoesFirst
