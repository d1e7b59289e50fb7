SPECIFICATION LateSpec
CONSTANTS
  NbPages = 4
  Delta = 2
  TvcRange = 256
  MaxAccesses = 258
  FreeFrom = 253
INVARIANT
  ResidentAreRecent
CHECK_DEADLOCK FALSE
