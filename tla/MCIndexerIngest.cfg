\* Overlapping ticks that keep coming, one of which may fail.
SPECIFICATION FairSpec
CONSTANTS
  c1 = c1
  t1 = t1
  t2 = t2
  Cards = {c1}
  Pools = {3}
  Ticks = {t1, t2}
  MaxLog = 4
  Window = 2
  MaxFails = 1
INVARIANTS
  TypeOK
  NeverUnderstates
  CursorNeverSkips
  RowsExact
PROPERTIES
  EveryEventInserted
CHECK_DEADLOCK FALSE
