CONSTANTS
  None = None
  Reversed <- RightReversed
  QueueSize = 2
  Layouts <- AnyLayout
  MaxMoves = 2
  MaxResets = 2
  MaxIncomplete = 1
SPECIFICATION FairSpec
INVARIANTS NoTickLost IntervalKnown
PROPERTY CatchesUp
