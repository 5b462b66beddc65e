------------------------------- MODULE MCRuntime ------------------------------
(* One workspace, its owner and one delegate; a path to activate and one   *)
(* from an older row; two intents that name the same pact and one of the   *)
(* other path; a proposal id that is signed with two contents.             *)
EXTENDS Runtime, TLC

CONSTANTS ws, owner, agent, wo, wd, p1, p2, i1, i2, i3, a, b, c, k1, k2, q1

MCOwnerOf  == ws :> owner
MCWalletOf == owner :> wo @@ agent :> wd

Limit(asset, max, each, count, period) ==
  [ asset |-> asset, maxAmount |-> max, maxAmountPerTransaction |-> each,
    maxTransactionsPerPeriod |-> count, periodSeconds |-> period ]

Doc(from, until, limits) ==
  [ workspace |-> ws, issuer |-> owner, delegate |-> agent, from |-> from,
    until |-> until, limits |-> limits ]

MCPathDoc ==
     p1 :> Doc(0, 4, <<Limit("USDC", 3, 2, 1, 2), Limit("USDC", 3, 3, 2, 3)>>)
  @@ p2 :> Doc(1, 4, <<Limit("EURC", 1, 1, 1, 1), Limit("USDC", 1, 1, 2, 3)>>)

Payment(path, amount, expires, pact) ==
  [ path |-> path, asset |-> "USDC", amount |-> amount, expires |-> expires,
    pact |-> pact ]

MCIntentDoc == i1 :> Payment(p1, 1, 5, k1) @@ i2 :> Payment(p1, 2, 4, k1)
                 @@ i3 :> Payment(p2, 1, 5, k2)

MCPactDoc  == k1 :> {owner, agent} @@ k2 :> {owner, agent}
MCProofDoc == q1 :> [pact |-> k1, proposal |-> a]

Signed(op, object, signer, nonce) ==
  [op |-> op, object |-> object, signer |-> signer, nonce |-> nonce]

Content(id, i) == [id |-> id, intent |-> i]

MCAttestable == {<<p1, "PREPARED">>, <<p1, "REVOKED">>, <<p2, "ACTIVE">>}

(* The owner signs one revocation with the nonce of an intent.             *)
MCRequests ==
  { Signed("workspace.register", ws, wo, 0),
    Signed("actor.register", <<ws, owner>>, wo, 1),
    Signed("actor.register", <<ws, agent>>, wo, 2),
    Signed("path.activate", p1, wo, 3), Signed("path.revoke", p1, wo, 4),
    Signed("path.revoke", p2, wo, 5),
    Signed("intent.prepare", i1, wo, 6), Signed("intent.prepare", i2, wo, 7),
    Signed("intent.prepare", i3, wo, 5),
    Signed("proposal.submit", Content(a, i1), wd, 0),
    Signed("proposal.submit", Content(b, i2), wd, 10),
    Signed("proposal.evaluate", Content(a, i1), wd, 1),
    Signed("proposal.evaluate", Content(a, i2), wd, 2),
    Signed("proposal.evaluate", Content(b, i2), wd, 3),
    Signed("proposal.submit", Content(c, i3), wd, 4),
    Signed("proposal.evaluate", Content(c, i3), wd, 5),
    Signed("pact.sign", <<k1, a>>, wd, 6), Signed("pact.sign", <<k1, b>>, wo, 8),
    Signed("pact.sign", <<k2, a>>, wd, 7), Signed("pact.sign", <<k2, c>>, wd, 8),
    Signed("proof.submit", q1, wd, 9), Signed("proof.verify", q1, wo, 9) }
===============================================================================
