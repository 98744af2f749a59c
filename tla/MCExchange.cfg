\* No body, or one that exceeds a window of four by more than half of it,
\* and the same for answers.
CONSTANTS
  Window = 4
  Bodies = {0, 6}
  Answers = {0, 6}
SPECIFICATION DaemonFairSpec
INVARIANTS
  StallNeedsBoth
  CompleteIsWhole
PROPERTIES
  PoliteCompletes
  RefusalIsTold
  HandlerEnds
  StopsWhenTold
CHECK_DEADLOCK FALSE
