\* Either store, a crash, and a backfill at every start.
SPECIFICATION FairSpec
CONSTANTS
  c1 = c1
  c2 = c2
  Cards = {c1, c2}
  Streams = {c1}
  Pools = {2}
  MaxLog = 3
  Stores = {TRUE, FALSE}
  Backfill = TRUE
  InOrder = FALSE
  MaxCrashes = 1
INVARIANTS
  NeverUnderstates
  NeverFalselyTerminated
  ExactUnlessOvertaken
PROPERTIES
  LapsedFlagged
  EveryEventTakenIn
CHECK_DEADLOCK FALSE
