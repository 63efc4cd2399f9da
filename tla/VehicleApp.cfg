SPECIFICATION Spec
CONSTANTS
  Nodes = {n1, n2, n3}
  Sanbao = {n1, n2}
  ShouldSend = {n1, n2}
  Second = 4
  SimTime = 6
  MaxDelay = 0
INVARIANTS TypeOK SendLoopAlive RedHasTimer
PROPERTIES SendsThroughOpenSocket RedTurnsBlue
CHECK_DEADLOCK FALSE
