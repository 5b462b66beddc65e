\* Overlapping ticks that do not fail.
SPECIFICATION Spec
CONSTANTS
  c1 = c1
  t1 = t1
  t2 = t2
  Cards = {c1}
  Pools = {2}
  Ticks = {t1, t2}
  MaxLog = 3
  Window = 2
  MaxFails = 0
INVARIANTS
  OverlapIdempotent
CHECK_DEADLOCK FALSE
