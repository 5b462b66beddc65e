\* Two passes of either settler; every card fits the batch and stays in the window.
SPECIFICATION FairSpec
CONSTANTS
  c1 = c1
  c2 = c2
  bad = bad
  p1 = p1
  p2 = p2
  BatchLimit = 2
  MaxFails = 1
  RailsCards = {c1, c2}
  Faulty = {}
  OneTime = {c2}
  RailsPasses = {p1, p2}
  Window = 1
  Dust = 2
  MaxBlock = 2
  MaxOwed = 3
  PlayCards = {c1, c2, bad}
  Plays = {1, 2, 3, 4}
  CardOf <- FourPlays
  Invalid = {bad}
  PlayPasses = {p1, p2}
  MaxAttempts = 1
INVARIANTS
  SettledMeansDripped
PROPERTIES
  DuePaid
  ResolvedOnce
  PendingTakenUp
CHECK_DEADLOCK FALSE
