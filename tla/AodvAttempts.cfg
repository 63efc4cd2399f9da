SPECIFICATION Spec
CONSTANTS
  a = a
  b = b
  c = c
  d = d
  Nodes = {a, b}
  Links <- Pair
  Flows <- ToDeaf
  None = None
  Broadcast = Broadcast
  TtlStart = 2
  TtlIncrement = 1
  TtlThreshold = 1
  NetDiameter = 2
  RreqRetries = 1
  RreqRateLimit = 1
  MaxQueueLen = 2
  GratuitousReply = TRUE
  DestinationOnly = FALSE
  DataTtl = 3
  Timely = FALSE
  MaxPackets = 3
  MaxRequests = 4
  MaxFaults = 0
INVARIANT AttemptsBounded
CHECK_DEADLOCK FALSE
