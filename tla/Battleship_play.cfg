SPECIFICATION Spec
CONSTANTS
  GridSize = 3
  BoatNum = 2
  SendRetryLimit = 1
  MaxSendFailures = 1
INVARIANTS
  TypeOK
  BoatsCounted
  BoardsAgree
  TurnsAlternate
  NobodyWaitsInVain
  VictoryDeserved
  ResultIsGridState
  LockInv
PROPERTIES
  PlaysTheGame
CHECK_DEADLOCK FALSE
