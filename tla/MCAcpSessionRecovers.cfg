\* A channel loss, a provider exit and a stop, under fairness.
CONSTANTS
  c1 = c1
  c2 = c2
  p1 = p1
  NoClient = NoClient
  Note = Note
  Conns = {c1, c2}
  ClientRequests = {}
  Initializes = {}
  SessionSetups = {}
  ProviderRequests = {p1}
  EventSizes = {1}
  OutputKinds = {"note"}
  InputKinds = {}
  Commands = {"stop"}
  Modes = {}
  LastAcks = {}
  Faults = {"disconnect", "exit", "held"}
  LiveCapacity = 3
  QueueMargin = 1
  MaxSequence = 1
  ReplayMaxEvents = 2
  ReplayMaxBytes = 9
  PendingMaxEvents = 4
  PendingMaxBytes = 9
  AdaptiveMaxBytes = 2
  MaxAttempts = 2
  MaxLosses = 1
  MaxRestarts = 0
SPECIFICATION FairSession
PROPERTIES CatchesUp ExitAnnounced
\* The daemon stops for good, and the bounds end every behaviour.
CHECK_DEADLOCK FALSE
