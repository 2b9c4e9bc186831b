\* One client, every fault and a stop: the ways a bridge ends.
CONSTANTS
  c1 = c1
  c2 = c2
  r1 = r1
  p1 = p1
  p2 = p2
  NoClient = NoClient
  Note = Note
  Conns = {c1}
  ClientRequests = {r1}
  Initializes = {r1}
  SessionSetups = {}
  ProviderRequests = {p1}
  EventSizes = {1}
  OutputKinds = {"request", "result"}
  InputKinds = {"request", "reply"}
  Commands = {"stop", "gc", "other"}
  Modes = {"plain"}
  LastAcks = {0}
  Faults = {"disconnect", "garbage", "exit", "held"}
  LiveCapacity = 2
  QueueMargin = 1
  MaxSequence = 1
  ReplayMaxEvents = 2
  ReplayMaxBytes = 5
  PendingMaxEvents = 1
  PendingMaxBytes = 9
  AdaptiveMaxBytes = 2
SPECIFICATION Spec
INVARIANTS TypeOK CountersExact ExitedIsCollectable StoppedHasNoClients
PROPERTIES StateOnlyAdvances
\* The daemon stops for good, and the bounds end every behaviour.
CHECK_DEADLOCK FALSE
