CONSTANTS
  Positions <- Track
  Tolerance = 2
  MaxPoints = 5
  Radius = 1
  MinNeighbours = {2, 3}
SPECIFICATION CloudsSpec
INVARIANTS ConnectedPartition NoPairAlone
PROPERTIES Terminates ImplementsDensity
CHECK_DEADLOCK FALSE
