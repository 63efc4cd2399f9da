SPECIFICATION Spec
CONSTANTS
  Stamps = {0, 1, 2}
  MaxInserts = 6
  MaxRemoves = 2
INVARIANT HeapInv
PROPERTY ImplementsList
CHECK_DEADLOCK FALSE
