---------------------------- MODULE MCOpenRailsHub ----------------------------
(***************************************************************************)
(* Two accounts that are payer and recipient of each other, three paycard  *)
(* ids and seven signed envelopes that compete for ids, nonces and funds.  *)
(***************************************************************************)
EXTENDS OpenRailsHub

CONSTANTS alice, bob, c1, c2, c3, terms_hash

Envelope(signer, id, to, pool, velocity, genesis, lifespan, rest, ch, n) ==
  [ signer |-> signer, paycardId |-> id, metadataHash |-> terms_hash,
    recipient |-> to, totalAllocationPool |-> pool,
    flowVelocityPerSecond |-> velocity, genesisTimestamp |-> genesis,
    lifespanSeconds |-> lifespan, residualDeltaRecipient |-> rest,
    nonceChannel |-> ch, nonceValue |-> n ]

MCEnvelopes ==
  { \* a stream that starts later and is exhausted by a partial last second
    Envelope(alice, c1, bob, 5, 2, 1, 3, alice, 0, 0),
    \* a wildcard stream with a buffer the lifespan cannot use up, whose
    \* residual goes to the Vault's own address
    Envelope(alice, c2, ZeroAddress, 3, 1, 0, 2, Hub, 0, 1),
    \* a one-time payment on the same id, from the other payer
    Envelope(bob, c2, alice, 2, 0, 3, 0, bob, 0, 0),
    \* a velocity whose product with two seconds exceeds MaxUint
    Envelope(alice, c3, bob, 4, 6, 2, 2, alice, 1, 0),
    \* a one-time payment on the nonce of the first envelope
    Envelope(alice, c3, bob, 1, 0, 0, 0, alice, 0, 0),
    \* malformed: a stream with no velocity; no recovery address
    Envelope(alice, c3, bob, 1, 0, 0, 2, alice, 1, 0),
    Envelope(bob, c1, alice, 1, 0, 0, 0, ZeroAddress, 0, 0) }

MCFunds == [a \in Accounts |-> IF a = alice THEN 9 ELSE 2]
===============================================================================
