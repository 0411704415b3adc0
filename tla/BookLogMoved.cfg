\* Behaviours end at the bounds, and where a full log file or an assert stops the
\* program.
SPECIFICATION Spec
CONSTANTS
  Threads = {t1}
  Addrs = {f1, a1, a2}
  Files = {f1}
  FileChunks = 12
  NItems = 2
  Banks = 1
  PerLine = 2
  GCPeriod = 1
  FastRatio = 2
  SlowRatio = 2
  VersionMod = 64
  SizeMod = 64
  MaxTaken = 9
  MaxTombs = 0
  MaxSlow = 1
  MaxFast = 1
INVARIANTS ChunkFound
CHECK_DEADLOCK FALSE
SYMMETRY Interchangeable
