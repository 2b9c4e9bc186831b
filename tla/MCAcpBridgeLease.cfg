\* Two clients compete for the writer lease, one request each way.
CONSTANTS
  c1 = c1
  c2 = c2
  r1 = r1
  p1 = p1
  p2 = p2
  NoClient = NoClient
  Note = Note
  Conns = {c1, c2}
  ClientRequests = {r1}
  Initializes = {}
  SessionSetups = {r1}
  ProviderRequests = {p1}
  EventSizes = {1}
  OutputKinds = {"request", "result", "failure"}
  InputKinds = {"request", "reply"}
  Commands = {}
  Modes = {"plain"}
  LastAcks = {0}
  Faults = {"disconnect"}
  LiveCapacity = 2
  QueueMargin = 1
  MaxSequence = 2
  ReplayMaxEvents = 2
  ReplayMaxBytes = 5
  PendingMaxEvents = 4
  PendingMaxBytes = 9
  AdaptiveMaxBytes = 2
SPECIFICATION Spec
SYMMETRY Symmetric
INVARIANTS LeaseSound AskedStaysPending OwedIsInFlight PendingIsPinned
\* The daemon stops for good, and the bounds end every behaviour.
CHECK_DEADLOCK FALSE
