SPECIFICATION Spec
CONSTANTS
  NULL = NULL
  Lists = {a, b}
  Tags <- ThreeTypes
  SizeOf <- Sizes
  Slots = {1, 2}
SYMMETRY ListSymmetry
INVARIANTS IInv CountsExact NoDangling NoLeak
PROPERTIES ImplementsTagLists LoopsAdvance
CHECK_DEADLOCK FALSE
