SPECIFICATION Spec
CONSTANTS
  Lengths = {0, 1, 7, 14, 15, 16, 17, 255, 256, 257, 270, 271, 272}
  Nuls = {0, 1, 4, 15}
INVARIANTS FitsUpTo15 ReadsWhatWasWritten
CHECK_DEADLOCK FALSE
