SPECIFICATION Spec
CONSTANTS
  MCSizes <- MCSizesAll
  MCCrops <- MCCropsAll
  Sources <- MCSources
  Options <- MCOptions
INVARIANTS
  EverySampleInPlace
  NoStripIsLeft
  CropShowsRegion
  MarkersAreCoherent
CHECK_DEADLOCK FALSE
