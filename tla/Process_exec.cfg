SPECIFICATION Spec
CONSTANTS
  MaxPid = 3
  MaxExecs = 1
INVARIANT
  ExecAssertions
CHECK_DEADLOCK FALSE
