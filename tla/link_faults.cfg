CONSTANTS
  MaxLinear = 127
  MaxAngular = 90
  SAFETY_TIMEOUT = 2
  ClockSize = 5
  BytesPerTick = 1
  Twists <- OneTwist
  LineCap = 14
  MaxFaults = 2
SPECIFICATION FairSpec
INVARIANTS WatchdogStops RxBounded
PROPERTIES SilentHostStops EventuallyInSync
