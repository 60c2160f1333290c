CONSTANTS
  Maps <- OneMap
  Points <- OnOne
  Resolution = 2
SPECIFICATION FairSpec
PROPERTY Ends
CHECK_DEADLOCK FALSE
