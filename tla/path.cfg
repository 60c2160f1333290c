CONSTANTS
  Maps <- AllMaps
  Points <- Around
  Resolution = 2
  Grids <- OneStrip
  Goals <- TwoGoals
  Places <- TwoPlaces
  Headings <- TwoHeadings
  QueueSize = 1
  num_poses = 3
SPECIFICATION CallsSpec
INVARIANTS WalledIn PathLeads SteersAlongPath
PROPERTIES EndsUnlessThere FollowsNewest
CHECK_DEADLOCK FALSE
