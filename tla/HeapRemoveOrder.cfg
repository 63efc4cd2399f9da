SPECIFICATION Spec
CONSTANTS
  Stamps = {0, 1}
  MaxInserts = 7
  MaxRemoves = 1
PROPERTY EarliestRemoved
CHECK_DEADLOCK FALSE
