CONSTANTS
  ReplayMaxEvents = 3
  ReplayMaxBytes = 5
  PendingMaxEvents = 2
  PendingMaxBytes = 4
  AdaptiveMaxBytes = 2
  WindowEvents = 5
  WindowSizes = {1, 2, 4}
  PiTimes = {2, 3, 4}
SPECIFICATION MCSpec
INVARIANTS
  TrimIsTheLoops
  RestoredRightly
CHECK_DEADLOCK FALSE
