SPECIFICATION FairSpec
CONSTANTS
  Threads = {t1, t2}
  NoThread = NoThread
  Delays = {0, 3}
  Slack = 1
  IdleWait = 2
  Epoch = 100
  MaxEvents = 3
  MaxTime = 4
INVARIANTS IInv NoLostWakeup NeverEarly
PROPERTIES ImplementsLoop Served
CHECK_DEADLOCK FALSE
