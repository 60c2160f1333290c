CONSTANTS
  MaxLinear = 127
  MaxAngular = 90
  SAFETY_TIMEOUT = 8
  ClockSize = 11
  BytesPerTick = 1
  Twists <- HeadTwists
  LineCap = 14
  MaxFaults = 0
SPECIFICATION Spec
INVARIANTS TypeOK FaultFreeSync
PROPERTIES ImplementsPipe WatchdogPatient
