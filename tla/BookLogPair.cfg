\* Behaviours end at the bounds, and where a full log file or an assert stops the
\* program.
SPECIFICATION Spec
CONSTANTS
  Threads = {t1, t2}
  Addrs = {f1, a1}
  Files = {f1}
  FileChunks = 15
  NItems = 2
  Banks = 2
  PerLine = 2
  GCPeriod = 1
  FastRatio = 2
  SlowRatio = 4
  VersionMod = 64
  SizeMod = 64
  MaxTaken = 12
  MaxTombs = 1
  MaxSlow = 1
  MaxFast = 2
INVARIANTS TypeOK TombsHarmless HeldRecorded ChunksAccounted StrayFirst
CHECK_DEADLOCK FALSE
SYMMETRY Interchangeable
