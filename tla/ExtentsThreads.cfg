\* A thread stops for good when no chunk is left (mmap fails and the code exits)
\* or when an assert fires.
SPECIFICATION Spec
CONSTANTS
  Threads = {t1, t2}
  NPages = 6
  ChunkPages = 3
  ChunkBases <- ThreePageChunks
  PClasses = {1, 3, 6, 16}
  Requests = {1}
  SlabPages = 3
  FitFactor = 3
  MuzzyFloor = 100
  DecayLimits = {}
  SizeMod = 64
INVARIANTS TypeOK LeafAgrees
PROPERTIES ClientUndisturbed OnlyOddRestsLost
CHECK_DEADLOCK FALSE
