CONSTANTS
  Scales   <- MCScales
  Factors  = {1, 2, 3, 4}
  Widths   = {1, 8, 21}
  Pictures <- MCPictures
  Quantval = 16
SPECIFICATION Spec
CHECK_DEADLOCK FALSE
INVARIANT EveryGenerationAgrees
