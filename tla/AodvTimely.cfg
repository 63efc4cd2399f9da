SPECIFICATION FairSpec
CONSTANTS
  a = a
  b = b
  c = c
  d = d
  Nodes = {a, b, c, d}
  Links <- Chain4
  Flows <- Crossing
  None = None
  Broadcast = Broadcast
  TtlStart = 1
  TtlIncrement = 1
  TtlThreshold = 1
  NetDiameter = 3
  RreqRetries = 2
  RreqRateLimit = 1
  MaxQueueLen = 2
  GratuitousReply = TRUE
  DestinationOnly = FALSE
  DataTtl = 3
  Timely = TRUE
  MaxPackets = 2
  MaxRequests = 7
  MaxFaults = 0
CHECK_DEADLOCK FALSE
INVARIANT SearchHasTimer
PROPERTY Delivered
