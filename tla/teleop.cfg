CONSTANTS
  XSensitivity = 100
  ZSensitivity = 10
  maximum_speed = 1
  distBetweenWheels = 2
  Positions <- FewPositions
  EventBuffer = 2
  CmdQueue = 2
  MaxReports = 3
  MaxHome = 2
SPECIFICATION FairSpec
INVARIANTS  NoOldMixture
 
CHECK_DEADLOCK FALSE
