CONSTANTS
  LidarTwists <- ZeroOrLeft
  VisionTwists <- ZeroOrRight
  GpsTwists <- ForwardOrZero
  QueueSize = 2
  CmdQueueSize = 3
  Coordinates <- FewCoordinates
  Headings <- ManyHeadings
  Sweeps <- BothWays
  ScanLength = 5
  Ranges <- FewRanges
  RangeMin = 10
  RangeMax = 2000
  max_obstacle_angle_diff = 30
  GarbageDiffs <- FewDiffs
  max_obstacle_danger_distance = 1000
  obstacle_danger_angle = 45
SPECIFICATION DecisionSpec
INVARIANTS Settled ShortestTurn TowardUnlessWest MergesExactly NearestOrStraighter
PROPERTY HighestTurnWins
CHECK_DEADLOCK FALSE
