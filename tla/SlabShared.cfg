\* A call may have to wait for a slab to be freed, and an assert may stop the
\* program.
SPECIFICATION FairSpec
CONSTANTS
  owner = owner
  owner2 = owner2
  near = near
  far = far
  Threads = {owner, far}
  InitHome <- HomeOf
  Classes = {0}
  Size <- OneSize
  NSlabs = 2
  SlabSize = 3
  Header = 1
  MixHeader = 1
  TableLine = 1
  LowPercent = 50
  SearchPercent = 10
  NBanks = 1
  Cap = 2
  OverBank = 0
  LogMax = 2
  MaxMoves = 0
  MaxDrift = 1
INVARIANTS TypeOK Accounted 
PROPERTIES FlushDrains
CHECK_DEADLOCK FALSE
