\* Both stores under failing awaits, duplicated and retried requests.
SPECIFICATION FairStoreSpec
CONSTANTS
  first = first
  again = again
  ingest = ingest
  other = other
  n1 = n1
  n2 = n2
  refused = refused
  Attempts <- MCAttempts
  Nonce <- MCNonce
  NoNonce = NoNonce
  States <- MCStates
  EmptyState = {}
  Transition <- MCTransition
  Refused = refused
  Backends = {"postgres", "memory"}
  Nobody = Nobody
INVARIANTS
  NoncesMatchEffects
PROPERTIES
  IsAtomicStore
  EveryAttemptAnswered
CHECK_DEADLOCK FALSE
