CONSTANTS
  Desired <- OneTwist
  minimum_green_recognised_count = 2
  obstacle_ticks_threshold = 2
  QueueSize = 2
SPECIFICATION FairSpec
INVARIANTS NoFalseAlarm EndIsStop
PROPERTY StartsAndStops
