SPECIFICATION Spec
CONSTANTS
  NbFrames = 10
  PageSize = 2
  StackPages = 1
  HeapPages = 1
  ImagePages = {1, 2}
  ArgsPage = 8
  MaxPid = 3
INVARIANTS
  TypeOK
  FramesAccounted
  FramesPrivate
  HeapMapped
  PagesCounted
CHECK_DEADLOCK FALSE
