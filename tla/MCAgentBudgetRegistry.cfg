\* Budgets used up by two paycards, or by one, or by an overflow.
SPECIFICATION Spec
CONSTANTS
  ann = ann
  bot = bot
  b1 = b1
  b2 = b2
  p1 = p1
  p2 = p2
  p3 = p3
  Accounts = {ann, bot}
  Budgets = {b1, b2}
  Paycards = {p1, p2, p3}
  OwnerOf <- MCOwnerOf
  AgentOf <- MCAgentOf
  Amounts = {0, 1, 3}
  MaxUint = 3
  MaxTime = 2
INVARIANTS
  TypeOK
  CommittedBacked
  ListedOnce
PROPERTIES
  InactiveForGood
