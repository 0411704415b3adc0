\* A thread stops for good when no chunk is left (mmap fails and the code exits)
\* or when an assert fires.
SPECIFICATION Spec
CONSTANTS
  Threads = {t1}
  NPages = 8
  ChunkPages = 2
  ChunkBases <- TwoPageChunks
  PClasses = {1, 2, 3, 16}
  Requests = {1, 3}
  SlabPages = 2
  FitFactor = 2
  MuzzyFloor = 100
  DecayLimits = {}
  SizeMod = 64
INVARIANTS NewRegionInChunk
CHECK_DEADLOCK FALSE
