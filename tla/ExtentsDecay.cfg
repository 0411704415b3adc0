\* A thread stops for good when no chunk is left (mmap fails and the code exits)
\* or when an assert fires.
SPECIFICATION FairSpec
CONSTANTS
  Threads = {t1, t2}
  NPages = 4
  ChunkPages = 2
  ChunkBases <- TwoPageChunks
  PClasses = {1, 2, 4, 16}
  Requests = {2}
  SlabPages = 1
  FitFactor = 2
  MuzzyFloor = 0
  DecayLimits = {1}
  SizeMod = 64
INVARIANTS NeverUnmaps NoOverlap HeldAlone PoolsConsistent
PROPERTIES HeapSpec DecayEnds
CHECK_DEADLOCK FALSE
