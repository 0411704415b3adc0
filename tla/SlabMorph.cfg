\* An assert, or two threads that wait for one another, may stop the
\* program.
SPECIFICATION Spec
CONSTANTS
  owner = owner
  owner2 = owner2
  near = near
  far = far
  Threads = {owner, owner2}
  InitHome <- HomeOf
  Classes = {0, 1}
  Size <- TwoSizes
  NSlabs = 1
  SlabSize = 5
  Header = 1
  MixHeader = 1
  TableLine = 2
  LowPercent = 50
  SearchPercent = 10
  NBanks = 1
  Cap = 2
  OverBank = 0
  LogMax = 1
  MaxMoves = 1
  MaxDrift = 1
INVARIANTS BlocksApart BlocksRecorded OldCounted NeverMarks BitmapsSound OnlyMorphDeadlocks
PROPERTIES BlockSpec
CHECK_DEADLOCK FALSE
