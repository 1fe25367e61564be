\* The memory manager with one object or array of rows and two virtual arrays per life.
SPECIFICATION MemorySpec
CONSTANTS
  Rows = 3
  MaxAccess = 2
  Values = {0, 1}
  Zero = 0
  Align = 2
  Header = 4
  Control = 4
  ArrayControl = 2
  Pointer = 2
  MAX_ALLOC_CHUNK = 16
  MIN_SLOP = 2
  FirstSlop <- MCFirstSlop
  ExtraSlop <- MCExtraSlop
  Heaps = {30, 90}
  Limits = {0, 40}
  Sizes = {3, 13}
  Strips <- MCStrips
  Shapes <- MCShapes
  MaxObjects = 1
  MaxArrays = 2
CONSTRAINT Followed
INVARIANTS BooksAreTrue ObjectsApart WindowsAreWhole
PROPERTIES PlainArraySpec BuffersFitMemory
CHECK_DEADLOCK FALSE
