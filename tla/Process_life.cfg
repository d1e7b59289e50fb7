SPECIFICATION FairSpec
CONSTANTS
  MaxPid = 3
  MaxExecs = 2
INVARIANTS
  TypeOK
  ParentsListed
  WaitersQueued
  FaultsExplained
  SomeoneRuns
PROPERTIES
  OnlyDeadReaped
  ExitWakesWaiters
CHECK_DEADLOCK FALSE
