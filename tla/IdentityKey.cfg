SPECIFICATION KeySpec
CONSTANTS
  Keys = {k1, k2, k3}
  Short = short
  NoFile = noFile
  NoKey = noKey
INVARIANTS
  OneKeyForLife
PROPERTIES
  IntactKeyIsKept
