\* A lifecycle with competing proposals, over two periods of each limit.
SPECIFICATION Spec
CONSTANTS
  ws = ws
  owner = owner
  agent = agent
  wo = wo
  wd = wd
  p1 = p1
  p2 = p2
  i1 = i1
  i2 = i2
  i3 = i3
  a = a
  b = b
  c = c
  k1 = k1
  k2 = k2
  q1 = q1
  Wallets = {wo, wd}
  NoWallet = NoWallet
  Workspaces = {ws}
  Actors = {owner, agent}
  Paths = {p1, p2}
  Intents = {i1, i2, i3}
  ProposalIds = {a, b, c}
  Pacts = {k1, k2}
  Proofs = {q1}
  OwnerOf <- MCOwnerOf
  WalletOf <- MCWalletOf
  PathDoc <- MCPathDoc
  IntentDoc <- MCIntentDoc
  PactDoc <- MCPactDoc
  ProofDoc <- MCProofDoc
  NoPact = NoPact
  Requests <- MCRequests
  Legacy = {p2}
  Attestable <- MCAttestable
  MaxTime = 4
INVARIANTS
  TypeOK
  UsageExact
  PactBacked
PROPERTIES
  RevokedForGood
  DecisionFinal
CHECK_DEADLOCK FALSE
