\* An app that loses a channel and is restarted once each, two connections.
CONSTANTS
  c1 = c1
  c2 = c2
  p1 = p1
  NoClient = NoClient
  Note = Note
  Conns = {c1, c2}
  ClientRequests = {}
  Initializes = {}
  SessionSetups = {}
  ProviderRequests = {p1}
  EventSizes = {1}
  OutputKinds = {"request", "note", "bare", "garbled"}
  InputKinds = {"reply"}
  Commands = {"other"}
  Modes = {}
  LastAcks = {}
  Faults = {"disconnect"}
  LiveCapacity = 3
  QueueMargin = 1
  MaxSequence = 3
  ReplayMaxEvents = 2
  ReplayMaxBytes = 9
  PendingMaxEvents = 4
  PendingMaxBytes = 9
  AdaptiveMaxBytes = 2
  MaxAttempts = 2
  MaxLosses = 1
  MaxRestarts = 1
SPECIFICATION SessionSpec
INVARIANTS SessionTypeOK NeverRejectsTheBridge PendingIsShown
PROPERTIES ImplementsStream
\* The daemon stops for good, and the bounds end every behaviour.
CHECK_DEADLOCK FALSE
