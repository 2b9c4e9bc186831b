CONSTANTS
  Clients = {1, 2, 3}
  QueueLimit = 3
  ChunkLimit = 2
  PendingLimit = 2
  MaxPauses = 3
  Scenarios <- MCScenarios
  NoClient = 0
SPECIFICATION Spec
CHECK_DEADLOCK FALSE
INVARIANTS OutputTypes AskedOnce NotLost NoGap WritersGoOn
