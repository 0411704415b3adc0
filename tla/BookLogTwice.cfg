\* Behaviours end at the bounds, and where a full log file or an assert stops the
\* program.
SPECIFICATION Spec
CONSTANTS
  Threads = {t1}
  Addrs = {f1, a1, a2, a3}
  Files = {f1}
  FileChunks = 15
  NItems = 1
  Banks = 1
  PerLine = 2
  GCPeriod = 1
  FastRatio = 1
  SlowRatio = 2
  VersionMod = 64
  SizeMod = 64
  MaxTaken = 12
  MaxTombs = 0
  MaxSlow = 1
  MaxFast = 2
INVARIANTS ChainFound
CHECK_DEADLOCK FALSE
SYMMETRY Interchangeable
