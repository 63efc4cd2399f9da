SPECIFICATION Spec
CONSTANTS
  Delays = {0, 1}
  MaxEvents = 4
  MaxPosts = 2
  UidLimit = 16
INVARIANTS IInv ExpiredExact UnscheduledCounts
PROPERTIES ExpiredIsFinal ImplementsLoop
CHECK_DEADLOCK FALSE
