SPECIFICATION Spec
CONSTANTS
  a = a
  b = b
  c = c
  d = d
  Nodes = {a, b, c}
  Links <- Chain
  Flows <- ToEnd
  None = None
  Broadcast = Broadcast
  TtlStart = 2
  TtlIncrement = 1
  TtlThreshold = 1
  NetDiameter = 2
  RreqRetries = 1
  RreqRateLimit = 1
  MaxQueueLen = 1
  GratuitousReply = TRUE
  DestinationOnly = FALSE
  DataTtl = 3
  Timely = FALSE
  MaxPackets = 2
  MaxRequests = 2
  MaxFaults = 1
INVARIANTS TypeOK QueuedIsSought KnownSeqNos RoutesLead OnePlace
CHECK_DEADLOCK FALSE
