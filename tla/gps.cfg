CONSTANTS
  RawLists <- Routes
  Scale = 2
  Tolerance = 2
  QueueSize = 1
  Grid <- SmallGrid
SPECIFICATION FairSpec
INVARIANTS InOrder TickedOnlyIfTouched NeverAhead
PROPERTY MissionEnds
