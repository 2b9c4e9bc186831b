CONSTANTS
  Clients = {1, 2}
  Clipping = {1, 2}
  Requests = {1}
  Grids = {1, 2}
  Scenarios <- MCScenarios
  Kinds = {"agent", "native"}
  Temporary = 3
  MaxWindows = 3
  NoClient = 0
SPECIFICATION Spec
CHECK_DEADLOCK FALSE
INVARIANTS MuxTypes PrimaryIsLatest GridsAgree PtyFits NothingOutlivesClose RemovedOnce NothingSticks
PROPERTIES ResizeWaits IdentityKept
