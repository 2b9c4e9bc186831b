\* One client that comes and goes, resuming from every sequence number,
\* against a window of three events and three bytes.
CONSTANTS
  c1 = c1
  c2 = c2
  r1 = r1
  p1 = p1
  p2 = p2
  NoClient = NoClient
  Note = Note
  Conns = {c1}
  ClientRequests = {}
  Initializes = {}
  SessionSetups = {}
  ProviderRequests = {p1, p2}
  EventSizes = {1, 2}
  OutputKinds = {"request", "note"}
  InputKinds = {"reply"}
  Commands = {}
  Modes = {"plain", "pending", "adaptive"}
  LastAcks = {0, 1, 2, 3, 4, 5}
  Faults = {"disconnect"}
  LiveCapacity = 3
  QueueMargin = 1
  MaxSequence = 4
  ReplayMaxEvents = 3
  ReplayMaxBytes = 3
  PendingMaxEvents = 4
  PendingMaxBytes = 4
  AdaptiveMaxBytes = 2
SPECIFICATION Spec
INVARIANTS WindowBounded NoSilentGap QueueFits
PROPERTIES FreshAttachSeesPending
\* The daemon stops for good, and the bounds end every behaviour.
CHECK_DEADLOCK FALSE
