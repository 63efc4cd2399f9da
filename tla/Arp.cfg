SPECIFICATION FairSpec
CONSTANTS
    Addr = {a, b}
    Answering = {a}
    AliveTimeout = 3
    DeadTimeout = 2
    WaitReplyTimeout = 2
    MaxRetries = 1
    PendingQueueSize = 2
    MaxJitter = 1
    MaxPackets = 3
INVARIANTS TypeOK WaitingHasTimer PendingOnlyWaiting OnePlace OrderKept
PROPERTIES LeavesWithTrace Decided
