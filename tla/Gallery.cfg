\* Three requests, the third a repetition of the second, on two workers across
\* a midnight, while listings are made.
SPECIFICATION GallerySpec
CONSTANTS
  N = 3
  PictureOf <- MCPictureOf
  HoursADay = 2
  MaxClock = 3
  Workers = 2
  Faults = {1}
INVARIANTS
  OkMeansStored
  RefusedOnlyByRace
  SettledGalleryIsWhole
  ChronologicalUnlessMisfiled
PROPERTIES
  ListingIsCurrent
