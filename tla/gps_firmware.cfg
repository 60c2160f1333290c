CONSTANTS
  Sentences = 4
  MaxDamage = 2
  MaxCommands = 1
  MAXLINELENGTH = 11
SPECIFICATION FirmwareFairSpec
INVARIANTS WholePosition FixHasPosition
PROPERTIES NeverBack EndsUpToDate
