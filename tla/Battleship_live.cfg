SPECIFICATION FairSpec
CONSTANTS
  GridSize = 3
  BoatNum = 1
  SendRetryLimit = 1
  MaxSendFailures = 1
CONSTRAINT
  ServerBoatInCorner
PROPERTY
  GameEnds
CHECK_DEADLOCK FALSE
