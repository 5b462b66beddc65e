\* Two outstanding cards and nothing else: the permits they carry share a nonce.
SPECIFICATION FundingSpec
CONSTANTS
  k1 = k1
  k2 = k2
  Cards = {k1, k2}
  Holders = {ann, ben}
  Amount <- MCAmount
  Request = 2
  MaxPaid = 0
  Funds = 4
  Timeouts = FALSE
  NoCard = NoCard
INVARIANTS
  CardsIndependent
CHECK_DEADLOCK FALSE
