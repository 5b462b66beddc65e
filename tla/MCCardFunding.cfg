\* A holder and the relay claim two cards, permits expire, waits time out, the payer pays.
SPECIFICATION FairFundingSpec
CONSTANTS
  k1 = k1
  k2 = k2
  Cards = {k1, k2}
  Holders = {ann}
  Amount <- MCAmount
  Request = 2
  MaxPaid = 1
  Funds = 4
  Timeouts = TRUE
  NoCard = NoCard
INVARIANTS
  StaleMeansClaimed
PROPERTIES
  HonouredClaimed
CHECK_DEADLOCK FALSE
