SPECIFICATION FairSpec
CONSTANTS
  PipeSize = 2
  FdMax = 6
  MaxOutput = 3
  MaxPid = 5
INVARIANTS
  TypeOK
  
  ForegroundReaped
  PipelineDelivers
  NoCommandHangs
PROPERTY
  CommandEnds
CHECK_DEADLOCK FALSE
