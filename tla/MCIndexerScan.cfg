\* Two clones, a short backfill and a chunk for every scan.
SPECIFICATION FairSpec
CONSTANTS
  hub = hub
  v1 = v1
  v2 = v2
  factory = factory
  Canonical = hub
  Clones = {v1, v2}
  Factory = factory
  MaxHead = 4
  Window = 2
  Budget = 4
  Backfill = 2
  MaxFails = 1
INVARIANTS
  NoGapBehindCursor
PROPERTIES
  EveryBlockScanned
CHECK_DEADLOCK FALSE
