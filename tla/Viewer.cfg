SPECIFICATION FairSpec
CONSTANTS
  MaxFiles = 12
  MaxIndex = 21
  Starts <- MCStarts
INVARIANTS
  IndexNearImage
  SliderFollowsImage
PROPERTIES
  TickShowsNextImage
  PlayEnds
