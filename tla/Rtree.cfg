SPECIFICATION FairSpec
CONSTANTS
  worker = worker
  helper = helper
  Threads = {worker, helper}
  Keys = {0, 1, 2, 3, 4}
  LeafKeys = {1, 2, 3, 4}
  Leafkey <- TwoInLeafOne
  Slots = {0}
  Slot <- OneSlot
  NL2 = 2
  Exts = {e}
  Uses <- Callers
INVARIANTS TypeOK AssertsHold CachesAgree CachedOnce LeavesKept
PROPERTIES OnlyLastEvicted MapSpec CallsReturn
