SPECIFICATION Spec
CONSTANTS
  a = a
  b = b
  c = c
  d = d
  Nodes = {a, b, c}
  Links <- Triangle
  Flows <- BackAndForth
  None = None
  Broadcast = Broadcast
  TtlStart = 2
  TtlIncrement = 1
  TtlThreshold = 1
  NetDiameter = 2
  RreqRetries = 1
  RreqRateLimit = 1
  MaxQueueLen = 2
  GratuitousReply = TRUE
  DestinationOnly = FALSE
  DataTtl = 3
  Timely = FALSE
  MaxPackets = 2
  MaxRequests = 1
  MaxFaults = 0
INVARIANT LoopFree
CHECK_DEADLOCK FALSE
