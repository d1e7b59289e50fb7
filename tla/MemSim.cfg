SPECIFICATION Spec
CONSTANTS
  PageNum = 4
  PageSize = 8
  ReadOnlyPages = {2, 3}
  InvalidPages = {1, 2}
  MaxByte = 1
  MaxStores = 2
INVARIANTS
  TypeOK
  FramesPermuted
PROPERTY
  IsAMemory
CHECK_DEADLOCK FALSE
