SPECIFICATION Spec
CONSTANTS
  GridSize = 3
  BoatNum = 1
  SendRetryLimit = 3
  MaxSendFailures = 4
INVARIANT
  ResultIsGridState
CHECK_DEADLOCK FALSE
