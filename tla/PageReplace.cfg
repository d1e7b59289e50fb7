SPECIFICATION Spec
CONSTANTS
  NbPages = 5
  Delta = 2
  TvcRange = 5
  MaxAccesses = 8
INVARIANTS
  TypeOK
  FramesConserved
  NoPageLost
  RecentUntilWrap
PROPERTY
  SecondChance
CHECK_DEADLOCK FALSE
