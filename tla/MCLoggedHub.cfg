\* Every administrative action, a keeper that pays every stream out, and the log.
SPECIFICATION LoggedSpec
CONSTANTS
  alice = alice
  bob = bob
  c1 = c1
  c2 = c2
  c3 = c3
  terms_hash = terms_hash
  Accounts = {alice, bob}
  ZeroAddress = ZeroAddress
  Hub = Hub
  Cards = {c1, c2, c3}
  Channels = {0, 1}
  ZeroHash = ZeroHash
  Hashes = {ZeroHash, terms_hash}
  Envelopes <- MCEnvelopes
  NoIntent = NoIntent
  Deployer = alice
  Funds <- MCFunds
  MaxUint = 10
  MaxTime = 5
INVARIANTS
  TypeOK
  PoolConserved
  StreamsOnSchedule
  EscrowSolvent
  NonceFundsOneCard
  SettlementCannotRevert
PROPERTIES
  TerminatedForever
  KeepsPromise
  EmitsReplayableLog
  StreamsPaidOut
CHECK_DEADLOCK FALSE
