SPECIFICATION Spec
CONSTANTS
  GridSize = 3
  BoatNum = 1
  SendRetryLimit = 3
  MaxSendFailures = 3
INVARIANT
  QuitIsAnnounced
CHECK_DEADLOCK FALSE
