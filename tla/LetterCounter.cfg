SPECIFICATION FairSpec
CONSTANTS
  LettersNb = 2
  MaxText = 3
  MaxThreads = 3
INVARIANTS
  TypeOK
  CountsExact
  FaultsExplained
PROPERTY
  Terminates
CHECK_DEADLOCK FALSE
