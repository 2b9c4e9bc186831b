\* A gc command against a client that attaches.
CONSTANTS
  c1 = c1
  c2 = c2
  r1 = r1
  p1 = p1
  p2 = p2
  NoClient = NoClient
  Note = Note
  Conns = {c1, c2}
  ClientRequests = {}
  Initializes = {}
  SessionSetups = {}
  ProviderRequests = {p1}
  EventSizes = {1}
  OutputKinds = {}
  InputKinds = {}
  Commands = {"gc"}
  Modes = {"plain"}
  LastAcks = {0}
  Faults = {"disconnect"}
  LiveCapacity = 3
  QueueMargin = 1
  MaxSequence = 1
  ReplayMaxEvents = 2
  ReplayMaxBytes = 5
  PendingMaxEvents = 4
  PendingMaxBytes = 9
  AdaptiveMaxBytes = 2
SPECIFICATION Spec
PROPERTIES GcStopsOnlyIdle
\* The daemon stops for good, and the bounds end every behaviour.
CHECK_DEADLOCK FALSE
