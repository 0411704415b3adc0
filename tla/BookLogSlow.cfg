\* Behaviours end at the bounds, and where a full log file or an assert stops the
\* program.
SPECIFICATION Spec
CONSTANTS
  Threads = {t1}
  Addrs = {f1, a1, a2}
  Files = {f1}
  FileChunks = 9
  NItems = 3
  Banks = 3
  PerLine = 2
  GCPeriod = 1
  FastRatio = 2
  SlowRatio = 4
  VersionMod = 64
  SizeMod = 64
  MaxTaken = 6
  MaxTombs = 1
  MaxSlow = 1
  MaxFast = 1
INVARIANTS ChainIsTree HeldRecorded
PROPERTIES DurableSpec AppendOnly
CHECK_DEADLOCK FALSE
SYMMETRY Interchangeable
