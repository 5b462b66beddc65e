\* A crash between the event record and the snapshot.
SPECIFICATION Spec
CONSTANTS
  c1 = c1
  c2 = c2
  Cards = {c1, c2}
  Streams = {c1}
  Pools = {2}
  MaxLog = 3
  Stores = {TRUE}
  Backfill = TRUE
  InOrder = TRUE
  MaxCrashes = 1
INVARIANTS
  RestartRebuilds
CHECK_DEADLOCK FALSE
