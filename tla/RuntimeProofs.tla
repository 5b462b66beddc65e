---------------------------- MODULE RuntimeProofs -----------------------------
(***************************************************************************)
(* Theorems about the Runtime for every set of documents, signed requests, *)
(* limits and periods, and about its stores.                               *)
(***************************************************************************)
EXTENDS Runtime, RuntimeStore, FiniteSums, FiniteSetTheorems, TLAPS

Statuses == {"None", "PREPARED", "ACTIVE", "REVOKED"}

ProposalType ==
  {NoProposal} \cup [status : {"EVALUATING", "ALLOWED", "BLOCKED"}, intent : Intents]

(* The functions that TypeOK describes pointwise are functions.            *)
Shapes ==
  /\ proposals \in [ProposalIds -> ProposalType]
  /\ usage = [p \in Paths |-> usage[p]]

(* A revocation is attested, so that no ingestion can replace it.          *)
RevokedAttested == \A p \in Paths : paths[p] = "REVOKED" => p \in attested

(* What was decided is stored with its decision.                           *)
DecidedStored ==
  \A id \in ProposalIds :
    /\ decisions[id] # "None" => proposals[id] # NoProposal
    /\ proposals[id] # NoProposal =>
         (proposals[id].status = "EVALUATING" <=> decisions[id] = "None")

(* A proposal that may still be signed for has its usage reserved.         *)
OpenReserved ==
  \A id \in ProposalIds :
    proposals[id] # NoProposal /\ proposals[id].status \in {"EVALUATING", "ALLOWED"} =>
      reservedAt[id] >= 0

(* A pact stands on the allowed proposal of an intent that names it.       *)
PactAllowed ==
  \A k \in Pacts : pacts[k] # "None" =>
    /\ proposals[pacts[k]] # NoProposal /\ proposals[pacts[k]].status = "ALLOWED"
    /\ decisions[pacts[k]] = "ALLOW"
    /\ IntentDoc[proposals[pacts[k]].intent].pact = k

(* No bucket of any limit ever exceeds the limit (assertPathAuthority).    *)
WithinLimits ==
  \A p \in Paths : \A l \in Limits(p) : \A b \in 0 .. MaxTime :
    /\ usage[p][l][b].count <= PathDoc[p].limits[l].maxTransactionsPerPeriod
    /\ usage[p][l][b].amount <= PathDoc[p].limits[l].maxAmount

IInv ==
  /\ TypeOK /\ Shapes /\ RevokedAttested /\ DecidedStored
  /\ OpenReserved /\ PactAllowed /\ WithinLimits

-------------------------------------------------------------------------------
(* A step names the documents it is about.                                 *)

Requested ==
  \/ \E w \in Workspaces, s \in Wallets : RegisterWorkspace(w, s)
  \/ \E w \in Workspaces, a \in Actors, s \in Wallets : RegisterActor(w, a, s)
  \/ \E p \in Paths, s \in Wallets : ActivatePath(p, s)
  \/ \E p \in Paths, s \in Wallets : RevokePath(p, s)
  \/ \E i \in Intents, s \in Wallets : PrepareIntent(i, s)
  \/ \E x \in Proposals, s \in Wallets : SubmitProposal(x, s)
  \/ \E x \in Proposals, s \in Wallets : EvaluateProposal(x, s)
  \/ \E k \in Pacts, id \in ProposalIds, s \in Wallets : SignPact(k, id, s)
  \/ \E q \in Proofs, s \in Wallets : SubmitProof(q, s)
  \/ \E q \in Proofs, s \in Wallets : VerifyProof(q, s)

(* A signed request is of one of the ten operations, on its own object.    *)
LEMMA RequestCases ==
  ASSUME NEW r \in Requests, Execute(r)
  PROVE  Requested /\ now' = now /\ nonces' = nonces \cup {<<r.signer, r.nonce>>}
           /\ r.signer \in Wallets /\ r.nonce \in Nat
<1>. USE RuntimeAssumption
<1>1. r \in RequestType
  OBVIOUS
<1>2. r.signer \in Wallets /\ r.nonce \in Nat
  BY <1>1 DEF RequestType
<1>3. PrepareTransition(r) /\ now' = now /\ nonces' = nonces \cup {<<r.signer, r.nonce>>}
  BY DEF Execute
<1>4. CASE r.op = "workspace.register" /\ RegisterWorkspace(r.object, r.signer)
  <2>1. r.object \in Workspaces
    BY <1>1, <1>4 DEF RequestType
  <2>. QED  BY <2>1, <1>2, <1>3, <1>4 DEF Requested
<1>5. CASE r.op = "actor.register" /\ RegisterActor(r.object[1], r.object[2], r.signer)
  <2>1. r.object \in Workspaces \X Actors
    BY <1>1, <1>5 DEF RequestType
  <2>2. r.object[1] \in Workspaces /\ r.object[2] \in Actors
    BY <2>1
  <2>. QED  BY <2>2, <1>2, <1>3, <1>5 DEF Requested
<1>6. CASE r.op = "path.activate" /\ ActivatePath(r.object, r.signer)
  <2>1. r.object \in Paths
    BY <1>1, <1>6 DEF RequestType
  <2>. QED  BY <2>1, <1>2, <1>3, <1>6 DEF Requested
<1>7. CASE r.op = "path.revoke" /\ RevokePath(r.object, r.signer)
  <2>1. r.object \in Paths
    BY <1>1, <1>7 DEF RequestType
  <2>. QED  BY <2>1, <1>2, <1>3, <1>7 DEF Requested
<1>8. CASE r.op = "intent.prepare" /\ PrepareIntent(r.object, r.signer)
  <2>1. r.object \in Intents
    BY <1>1, <1>8 DEF RequestType
  <2>. QED  BY <2>1, <1>2, <1>3, <1>8 DEF Requested
<1>9. CASE r.op = "proposal.submit" /\ SubmitProposal(r.object, r.signer)
  <2>1. r.object \in Proposals
    BY <1>1, <1>9 DEF RequestType
  <2>. QED  BY <2>1, <1>2, <1>3, <1>9 DEF Requested
<1>10. CASE r.op = "proposal.evaluate" /\ EvaluateProposal(r.object, r.signer)
  <2>1. r.object \in Proposals
    BY <1>1, <1>10 DEF RequestType
  <2>. QED  BY <2>1, <1>2, <1>3, <1>10 DEF Requested
<1>11. CASE r.op = "pact.sign" /\ SignPact(r.object[1], r.object[2], r.signer)
  <2>1. r.object \in Pacts \X ProposalIds
    BY <1>1, <1>11 DEF RequestType
  <2>2. r.object[1] \in Pacts /\ r.object[2] \in ProposalIds
    BY <2>1
  <2>. QED  BY <2>2, <1>2, <1>3, <1>11 DEF Requested
<1>12. CASE r.op = "proof.submit" /\ SubmitProof(r.object, r.signer)
  <2>1. r.object \in Proofs
    BY <1>1, <1>12 DEF RequestType
  <2>. QED  BY <2>1, <1>2, <1>3, <1>12 DEF Requested
<1>13. CASE r.op = "proof.verify" /\ VerifyProof(r.object, r.signer)
  <2>1. r.object \in Proofs
    BY <1>1, <1>13 DEF RequestType
  <2>. QED  BY <2>1, <1>2, <1>3, <1>13 DEF Requested
<1>. QED
  BY <1>3, <1>4, <1>5, <1>6, <1>7, <1>8, <1>9, <1>10, <1>11, <1>12, <1>13
  DEF PrepareTransition

-------------------------------------------------------------------------------
(* Reservations.                                                           *)

UsageType ==
  \A p \in Paths : usage[p] \in
    [Limits(p) -> [0 .. MaxTime -> [count : Nat, amount : Nat]]]

(* A reservation that UsageFits let through adds to the current bucket of  *)
(* the applicable limits only, and keeps each within its limit.            *)
LEMMA ReserveFits ==
  ASSUME IInv, NEW i \in Intents, NEW id \in ProposalIds,
         UsageFits(i), Reserve(i, id)
  PROVE  /\ UsageType' /\ WithinLimits'
         /\ usage' = [p \in Paths |-> usage'[p]]
         /\ reservedAt' = [reservedAt EXCEPT ![id] = now]
         /\ reservedAt' \in [ProposalIds -> -1 .. MaxTime]
         /\ \A p \in Paths : p # IntentDoc[i].path => usage'[p] = usage[p]
<1>. DEFINE q == IntentDoc[i].path
            before(l, b) == usage[q][l][b]
            more(l, b) == [count |-> before(l, b).count + 1,
                           amount |-> before(l, b).amount + IntentDoc[i].amount]
            bucket(l) == Bucket(q, l, now)
            reserved(l) == IF l \notin Applicable(i) THEN usage[q][l]
                           ELSE [usage[q][l] EXCEPT ![bucket(l)] = more(l, bucket(l))]
            now2 == [l \in Limits(q) |-> reserved(l)]
<1>1. q \in Paths /\ IntentDoc[i].amount \in Nat
  BY RuntimeAssumption
<1>2. usage = [p \in Paths |-> usage[p]] /\ UsageType
  BY DEF IInv, Shapes, TypeOK, UsageType
<1>3. usage' = [usage EXCEPT ![q] = now2]
  BY DEF Reserve
<1>4. usage'[q] = now2 /\ \A p \in Paths : p # q => usage'[p] = usage[p]
  BY <1>1, <1>2, <1>3
<1>5. usage' = [p \in Paths |-> usage'[p]]
  BY <1>1, <1>2, <1>3
<1>6. \A l \in Limits(q) : \A b \in 0 .. MaxTime :
        before(l, b).count \in Nat /\ before(l, b).amount \in Nat
  BY <1>1, <1>2 DEF UsageType
<1>7. ASSUME NEW l \in Limits(q)
      PROVE  /\ reserved(l) \in [0 .. MaxTime -> [count : Nat, amount : Nat]]
             /\ \A b \in 0 .. MaxTime :
                  \/ reserved(l)[b] = before(l, b)
                  \/ /\ l \in Applicable(i) /\ b = bucket(l)
                     /\ reserved(l)[b] = more(l, b)
  <2>1. usage[q][l] \in [0 .. MaxTime -> [count : Nat, amount : Nat]]
    BY <1>1, <1>2, <1>7 DEF UsageType
  <2>2. CASE l \notin Applicable(i)
    BY <2>1, <2>2
  <2>3. CASE l \in Applicable(i)
    <3>1. reserved(l) = [usage[q][l] EXCEPT ![bucket(l)] = more(l, bucket(l))]
      BY <2>3
    <3>2. ASSUME NEW b \in 0 .. MaxTime
          PROVE  reserved(l)[b] = IF b = bucket(l) THEN more(l, b) ELSE before(l, b)
      BY <2>1, <3>1, <3>2
    <3>3. \A b \in 0 .. MaxTime : more(l, b) \in [count : Nat, amount : Nat]
      BY <1>1, <1>6, <1>7
    <3>. HIDE DEF more, before, bucket
    <3>4. reserved(l) \in [0 .. MaxTime -> [count : Nat, amount : Nat]]
      BY <2>1, <3>1, <3>3
    <3>. QED  BY <2>3, <3>2, <3>4
  <2>. QED  BY <2>2, <2>3
<1>8. UsageType'
  <2>. SUFFICES ASSUME NEW p \in Paths
                PROVE  usage'[p] \in
                         [Limits(p) -> [0 .. MaxTime -> [count : Nat, amount : Nat]]]
    BY DEF UsageType
  <2>1. CASE p = q
    <3>. HIDE DEF reserved
    <3>. QED  BY <1>4, <1>7, <2>1
  <2>2. CASE p # q
    BY <1>2, <1>4, <2>2 DEF UsageType
  <2>. QED  BY <2>1, <2>2
<1>9. WithinLimits'
  <2>. SUFFICES ASSUME NEW p \in Paths, NEW l \in Limits(p), NEW b \in 0 .. MaxTime
                PROVE  /\ usage'[p][l][b].count
                            <= PathDoc[p].limits[l].maxTransactionsPerPeriod
                       /\ usage'[p][l][b].amount <= PathDoc[p].limits[l].maxAmount
    BY DEF WithinLimits
  <2>1. /\ usage[p][l][b].count <= PathDoc[p].limits[l].maxTransactionsPerPeriod
        /\ usage[p][l][b].amount <= PathDoc[p].limits[l].maxAmount
    BY DEF IInv, WithinLimits
  <2>2. CASE p # q
    BY <1>4, <2>1, <2>2
  <2>3. CASE p = q
    <3>1. usage'[p][l] = reserved(l)
      BY <1>4, <2>3
    <3>2. CASE reserved(l)[b] = before(l, b)
      BY <2>1, <2>3, <3>1, <3>2
    <3>3. CASE l \in Applicable(i) /\ b = bucket(l) /\ reserved(l)[b] = more(l, b)
      <4>1. /\ before(l, b).count + 1 <= PathDoc[q].limits[l].maxTransactionsPerPeriod
            /\ before(l, b).amount + IntentDoc[i].amount <= PathDoc[q].limits[l].maxAmount
        BY <3>3 DEF UsageFits
      <4>2. /\ more(l, b).count = before(l, b).count + 1
            /\ more(l, b).amount = before(l, b).amount + IntentDoc[i].amount
        OBVIOUS
      <4>3. usage'[p][l][b] = more(l, b) /\ PathDoc[p] = PathDoc[q]
        BY <2>3, <3>1, <3>3
      <4>. HIDE DEF more, before
      <4>. QED  BY <4>1, <4>2, <4>3
    <3>. QED  BY <1>7, <2>3, <3>2, <3>3
  <2>. QED  BY <2>2, <2>3
<1>10. reservedAt' \in [ProposalIds -> -1 .. MaxTime]
  <2>1. reservedAt \in [ProposalIds -> -1 .. MaxTime] /\ now \in 0 .. MaxTime
    BY DEF IInv, TypeOK
  <2>2. now \in -1 .. MaxTime
    BY <2>1, RuntimeAssumption
  <2>. QED  BY <2>1, <2>2 DEF Reserve
<1>. QED
  BY <1>4, <1>5, <1>8, <1>9, <1>10 DEF Reserve

-------------------------------------------------------------------------------
(* The invariant is inductive.  Every action leaves usage, proposals,      *)
(* decisions and reservations alone but a submission and an evaluation.    *)

LEMMA Initially == Init => IInv
<1>. SUFFICES ASSUME Init PROVE IInv
  OBVIOUS
<1>. USE RuntimeAssumption
<1>1. UsageType
  BY DEF Init, UsageType, Unused
<1>2. now \in 0 .. MaxTime /\ authority \in [Workspaces -> Wallets \cup {NoWallet}]
  BY DEF Init
<1>3. paths \in [Paths -> Statuses] /\ attested \subseteq {p \in Paths : paths[p] # "None"}
  BY DEF Init, Statuses
<1>4. \A id \in ProposalIds : proposals[id] = NoProposal
  BY DEF Init
<1>5. /\ decisions \in [ProposalIds -> {"None", "ALLOW", "BLOCK"}]
      /\ pacts \in [Pacts -> ProposalIds \cup {"None"}]
      /\ proofs \in [Proofs -> {"None", "SUBMITTED", "VERIFIED"}]
      /\ reservedAt \in [ProposalIds -> -1 .. MaxTime]
  BY DEF Init
<1>6. TypeOK
  BY <1>1, <1>2, <1>3, <1>4, <1>5 DEF TypeOK, UsageType, Init, Statuses
<1>7. Shapes
  BY DEF Init, Shapes, ProposalType
<1>8. RevokedAttested /\ DecidedStored /\ OpenReserved /\ PactAllowed
  BY <1>4 DEF Init, RevokedAttested, DecidedStored, OpenReserved, PactAllowed
<1>9. WithinLimits
  <2>. SUFFICES ASSUME NEW p \in Paths, NEW l \in Limits(p), NEW b \in 0 .. MaxTime
                PROVE  /\ usage[p][l][b].count
                            <= PathDoc[p].limits[l].maxTransactionsPerPeriod
                       /\ usage[p][l][b].amount <= PathDoc[p].limits[l].maxAmount
    BY DEF WithinLimits
  <2>1. usage[p][l][b] = Unused
    BY DEF Init
  <2>2. PathDoc[p].limits \in Seq(LimitType)
    OBVIOUS
  <2>3. PathDoc[p].limits[l] \in LimitType
    BY <2>2 DEF Limits
  <2>. QED  BY <2>1, <2>3 DEF Unused, LimitType
<1>. QED  BY <1>6, <1>7, <1>8, <1>9 DEF IInv

(* What every action but a submission and an evaluation leaves alone.      *)
Books == <<proposals, decisions, usage, reservedAt>>

(* The parts of the invariant that speak of the books alone.               *)
LEMMA BooksKept ==
  ASSUME IInv, UNCHANGED Books, intents \subseteq intents'
  PROVE  /\ Shapes' /\ DecidedStored' /\ OpenReserved' /\ WithinLimits'
         /\ UsageType' /\ reservedAt' \in [ProposalIds -> -1 .. MaxTime]
         /\ decisions' \in [ProposalIds -> {"None", "ALLOW", "BLOCK"}]
         /\ \A id \in ProposalIds :
              \/ proposals'[id] = NoProposal
              \/ /\ proposals'[id].status \in {"EVALUATING", "ALLOWED", "BLOCKED"}
                 /\ proposals'[id].intent \in intents'
<1>1. Shapes' /\ DecidedStored' /\ OpenReserved' /\ WithinLimits'
  BY DEF IInv, Books, Shapes, DecidedStored, OpenReserved, WithinLimits
<1>2. UsageType'
  BY DEF IInv, TypeOK, UsageType, Books
<1>. QED  BY <1>1, <1>2 DEF IInv, TypeOK, Books

LEMMA NoncesTyped ==
  ASSUME IInv, NEW r \in Requests, Execute(r)
  PROVE  nonces' \subseteq Wallets \X Nat
<1>1. nonces \subseteq Wallets \X Nat
  BY DEF IInv, TypeOK
<1>. QED  BY <1>1, RequestCases

(* A step that leaves paths and pacts alone as well.                       *)
LEMMA PactsKept ==
  ASSUME IInv, UNCHANGED Books, UNCHANGED pacts
  PROVE  PactAllowed'
BY DEF IInv, Books, PactAllowed

LEMMA IngestKeeps ==
  ASSUME IInv, NEW p \in Paths, NEW status \in {"PREPARED", "ACTIVE", "REVOKED"},
         IngestPath(p, status)
  PROVE  IInv'
<1>1. UNCHANGED Books /\ UNCHANGED intents /\ UNCHANGED pacts
  BY DEF IngestPath, Books
<1>2. PactAllowed'
  BY <1>1, PactsKept
<1>3. paths' \in [Paths -> Statuses] /\ attested' \subseteq {x \in Paths : paths'[x] # "None"}
  BY DEF IngestPath, IInv, TypeOK, Statuses
<1>4. RevokedAttested'
  BY DEF IngestPath, IInv, TypeOK, RevokedAttested
<1>5. TypeOK'
  BY <1>1, <1>3, BooksKept DEF IngestPath, IInv, TypeOK, UsageType, Statuses
<1>. QED  BY <1>1, <1>2, <1>4, <1>5, BooksKept DEF IInv

LEMMA RegisterWorkspaceKeeps ==
  ASSUME IInv, NEW w \in Workspaces, NEW s \in Wallets, RegisterWorkspace(w, s),
         now' = now, nonces' \subseteq Wallets \X Nat
  PROVE  IInv'
<1>1. UNCHANGED Books /\ UNCHANGED intents /\ UNCHANGED <<pacts, paths, attested>>
  BY DEF RegisterWorkspace, Books
<1>2. TypeOK'
  BY <1>1, BooksKept DEF RegisterWorkspace, IInv, TypeOK, UsageType
<1>3. RevokedAttested'
  BY <1>1 DEF IInv, RevokedAttested
<1>. QED  BY <1>1, <1>2, <1>3, BooksKept, PactsKept DEF IInv

LEMMA RegisterActorKeeps ==
  ASSUME IInv, NEW w \in Workspaces, NEW a \in Actors, NEW s \in Wallets,
         RegisterActor(w, a, s), now' = now, nonces' \subseteq Wallets \X Nat
  PROVE  IInv'
<1>1. UNCHANGED Books /\ UNCHANGED intents /\ UNCHANGED <<pacts, paths, attested>>
  BY DEF RegisterActor, Books
<1>2. TypeOK'
  BY <1>1, BooksKept DEF RegisterActor, IInv, TypeOK, UsageType
<1>3. RevokedAttested'
  BY <1>1 DEF IInv, RevokedAttested
<1>. QED  BY <1>1, <1>2, <1>3, BooksKept, PactsKept DEF IInv

LEMMA ActivateKeeps ==
  ASSUME IInv, NEW p \in Paths, NEW s \in Wallets, ActivatePath(p, s),
         now' = now, nonces' \subseteq Wallets \X Nat
  PROVE  IInv'
<1>1. UNCHANGED Books /\ UNCHANGED intents /\ UNCHANGED pacts
  BY DEF ActivatePath, Books
<1>2. paths' \in [Paths -> Statuses] /\ attested' \subseteq {x \in Paths : paths'[x] # "None"}
  BY DEF ActivatePath, IInv, TypeOK, Statuses
<1>3. TypeOK'
  BY <1>1, <1>2, BooksKept DEF ActivatePath, IInv, TypeOK, UsageType, Statuses
<1>4. RevokedAttested'
  BY DEF ActivatePath, IInv, TypeOK, RevokedAttested
<1>. QED  BY <1>1, <1>3, <1>4, BooksKept, PactsKept DEF IInv

LEMMA RevokeKeeps ==
  ASSUME IInv, NEW p \in Paths, NEW s \in Wallets, RevokePath(p, s),
         now' = now, nonces' \subseteq Wallets \X Nat
  PROVE  IInv'
<1>1. UNCHANGED Books /\ UNCHANGED intents /\ UNCHANGED pacts
  BY DEF RevokePath, Books
<1>2. paths' \in [Paths -> Statuses] /\ attested' \subseteq {x \in Paths : paths'[x] # "None"}
  BY DEF RevokePath, UsablePath, IInv, TypeOK, Statuses
<1>3. TypeOK'
  BY <1>1, <1>2, BooksKept DEF RevokePath, IInv, TypeOK, UsageType, Statuses
<1>4. RevokedAttested'
  BY DEF RevokePath, UsablePath, IInv, TypeOK, RevokedAttested
<1>. QED  BY <1>1, <1>3, <1>4, BooksKept, PactsKept DEF IInv

LEMMA PrepareKeeps ==
  ASSUME IInv, NEW i \in Intents, NEW s \in Wallets, PrepareIntent(i, s),
         now' = now, nonces' \subseteq Wallets \X Nat
  PROVE  IInv'
<1>1. UNCHANGED Books /\ intents \subseteq intents' /\ UNCHANGED <<pacts, paths, attested>>
  BY DEF PrepareIntent, Books
<1>2. intents' \subseteq Intents
  BY DEF PrepareIntent, IInv, TypeOK
<1>3. TypeOK'
  BY <1>1, <1>2, BooksKept DEF PrepareIntent, IInv, TypeOK, UsageType
<1>4. RevokedAttested'
  BY <1>1 DEF IInv, RevokedAttested
<1>. QED  BY <1>1, <1>3, <1>4, BooksKept, PactsKept DEF IInv

LEMMA SubmitKeeps ==
  ASSUME IInv, NEW x \in Proposals, NEW s \in Wallets, SubmitProposal(x, s),
         now' = now, nonces' \subseteq Wallets \X Nat
  PROVE  IInv'
<1>. DEFINE stored == [status |-> "EVALUATING", intent |-> x.intent]
<1>1. x.intent \in Intents /\ x.id \in ProposalIds
  BY DEF Proposals
<1>2. /\ UsageFits(x.intent) /\ Reserve(x.intent, x.id)
      /\ x.intent \in intents /\ NotStored(x)
      /\ proposals' = [proposals EXCEPT ![x.id] = stored]
      /\ UNCHANGED <<authority, actors, paths, attested, intents, decisions, pacts, proofs>>
  BY DEF SubmitProposal, Chain, UsableIntent
<1>3. /\ UsageType' /\ WithinLimits' /\ usage' = [p \in Paths |-> usage'[p]]
      /\ reservedAt' = [reservedAt EXCEPT ![x.id] = now]
      /\ reservedAt' \in [ProposalIds -> -1 .. MaxTime]
  BY <1>1, <1>2, ReserveFits
<1>4. proposals' \in [ProposalIds -> ProposalType]
  BY <1>1, <1>2 DEF IInv, Shapes, ProposalType
<1>5. \A id \in ProposalIds :
        proposals'[id] = IF id = x.id THEN stored ELSE proposals[id]
  BY <1>1, <1>2 DEF IInv, Shapes
<1>6. decisions[x.id] = "None" /\ \A k \in Pacts : pacts[k] # "None" => pacts[k] # x.id
  BY <1>1, <1>2 DEF IInv, DecidedStored, PactAllowed, NotStored
<1>7. stored # NoProposal
  BY DEF NoProposal
<1>8. TypeOK'
  <2>1. \A id \in ProposalIds :
          \/ proposals'[id] = NoProposal
          \/ /\ proposals'[id].status \in {"EVALUATING", "ALLOWED", "BLOCKED"}
             /\ proposals'[id].intent \in intents'
    BY <1>2, <1>5 DEF IInv, TypeOK
  <2>. QED  BY <1>2, <1>3, <2>1 DEF IInv, TypeOK, UsageType
<1>9. RevokedAttested'
  BY <1>2 DEF IInv, RevokedAttested
<1>10. DecidedStored'
  BY <1>2, <1>5, <1>6, <1>7 DEF IInv, DecidedStored
<1>11. OpenReserved'
  BY <1>1, <1>3, <1>5 DEF IInv, TypeOK, OpenReserved
<1>12. PactAllowed'
  BY <1>2, <1>5, <1>6 DEF IInv, TypeOK, PactAllowed
<1>. QED
  BY <1>3, <1>4, <1>8, <1>9, <1>10, <1>11, <1>12 DEF IInv, Shapes

(* What an evaluation does to the books: the proposal gets its decision,   *)
(* and an allowed one has its usage reserved, now or by its submission.    *)
LEMMA EvaluateBooks ==
  ASSUME IInv, NEW x \in Proposals, NEW s \in Wallets, EvaluateProposal(x, s)
  PROVE  /\ x.intent \in Intents /\ x.id \in ProposalIds /\ x.intent \in intents
         /\ decisions[x.id] = "None"
         /\ UNCHANGED <<authority, actors, paths, attested, intents, pacts, proofs>>
         /\ UsageType' /\ WithinLimits' /\ usage' = [p \in Paths |-> usage'[p]]
         /\ reservedAt' \in [ProposalIds -> -1 .. MaxTime]
         /\ \A id \in ProposalIds : id # x.id => reservedAt'[id] = reservedAt[id]
         /\ \A p \in Paths : p # IntentDoc[x.intent].path => usage'[p] = usage[p]
         /\ \E d \in {"ALLOW", "BLOCK"} :
              Decide(x, d) /\ (d = "ALLOW" => reservedAt'[x.id] >= 0)
<1>1. x.intent \in Intents /\ x.id \in ProposalIds
  BY DEF Proposals
<1>2. /\ x.intent \in intents /\ decisions[x.id] = "None" /\ Evaluable(x)
      /\ UNCHANGED <<authority, actors, paths, attested, intents, pacts, proofs>>
      /\ Allow(x) \/ Block(x)
  BY DEF EvaluateProposal, Chain, UsableIntent
<1>3. ASSUME UNCHANGED <<usage, reservedAt>>
      PROVE  /\ UsageType' /\ WithinLimits' /\ usage' = [p \in Paths |-> usage'[p]]
             /\ reservedAt' \in [ProposalIds -> -1 .. MaxTime]
  BY <1>3 DEF IInv, TypeOK, Shapes, UsageType, WithinLimits
<1>4. CASE Block(x)
  BY <1>1, <1>2, <1>3, <1>4 DEF Block
<1>5. CASE Allow(x) /\ NotStored(x)
  <2>1. UsageFits(x.intent) /\ Reserve(x.intent, x.id) /\ Decide(x, "ALLOW")
    BY <1>5 DEF Allow
  <2>2. /\ UsageType' /\ WithinLimits' /\ usage' = [p \in Paths |-> usage'[p]]
        /\ reservedAt' = [reservedAt EXCEPT ![x.id] = now]
        /\ reservedAt' \in [ProposalIds -> -1 .. MaxTime]
        /\ \A p \in Paths : p # IntentDoc[x.intent].path => usage'[p] = usage[p]
    BY <1>1, <2>1, ReserveFits
  <2>3. /\ reservedAt'[x.id] >= 0
        /\ \A id \in ProposalIds : id # x.id => reservedAt'[id] = reservedAt[id]
    BY <1>1, <2>2 DEF IInv, TypeOK
  <2>. QED  BY <1>1, <1>2, <2>1, <2>2, <2>3
<1>6. CASE Allow(x) /\ ~NotStored(x)
  <2>1. UNCHANGED <<usage, reservedAt>> /\ Decide(x, "ALLOW")
    BY <1>6 DEF Allow
  <2>2. proposals[x.id] # NoProposal /\ proposals[x.id].status = "EVALUATING"
    BY <1>2, <1>6 DEF Evaluable, NotStored
  <2>3. reservedAt[x.id] >= 0
    BY <1>1, <2>2 DEF IInv, OpenReserved
  <2>. QED  BY <1>1, <1>2, <1>3, <2>1, <2>3
<1>. QED  BY <1>2, <1>4, <1>5, <1>6

LEMMA EvaluateKeeps ==
  ASSUME IInv, NEW x \in Proposals, NEW s \in Wallets, EvaluateProposal(x, s),
         now' = now, nonces' \subseteq Wallets \X Nat
  PROVE  IInv'
<1>1. PICK d \in {"ALLOW", "BLOCK"} :
        Decide(x, d) /\ (d = "ALLOW" => reservedAt'[x.id] >= 0)
  BY EvaluateBooks
<1>. DEFINE status == IF d = "ALLOW" THEN "ALLOWED" ELSE "BLOCKED"
            stored == [status |-> status, intent |-> x.intent]
<1>2. /\ x.intent \in Intents /\ x.id \in ProposalIds /\ x.intent \in intents
      /\ decisions[x.id] = "None"
      /\ UNCHANGED <<authority, actors, paths, attested, intents, pacts, proofs>>
      /\ UsageType' /\ WithinLimits' /\ usage' = [p \in Paths |-> usage'[p]]
      /\ reservedAt' \in [ProposalIds -> -1 .. MaxTime]
      /\ \A id \in ProposalIds : id # x.id => reservedAt'[id] = reservedAt[id]
  BY EvaluateBooks
<1>3. /\ proposals' = [proposals EXCEPT ![x.id] = stored]
      /\ decisions' = [decisions EXCEPT ![x.id] = d]
  BY <1>1 DEF Decide
<1>4. proposals' \in [ProposalIds -> ProposalType]
  BY <1>2, <1>3 DEF IInv, Shapes, ProposalType
<1>5. \A id \in ProposalIds :
        proposals'[id] = IF id = x.id THEN stored ELSE proposals[id]
  BY <1>2, <1>3 DEF IInv, Shapes
<1>6. /\ decisions' \in [ProposalIds -> {"None", "ALLOW", "BLOCK"}]
      /\ \A id \in ProposalIds : decisions'[id] = IF id = x.id THEN d ELSE decisions[id]
  BY <1>2, <1>3 DEF IInv, TypeOK
<1>7. stored # NoProposal /\ status # "EVALUATING"
  BY DEF NoProposal
<1>8. \A k \in Pacts : pacts[k] # "None" => pacts[k] # x.id
  BY <1>2 DEF IInv, PactAllowed
<1>9. TypeOK'
  <2>. SUFFICES ASSUME NEW id \in ProposalIds
                PROVE  \/ proposals'[id] = NoProposal
                       \/ /\ proposals'[id].status \in {"EVALUATING", "ALLOWED", "BLOCKED"}
                          /\ proposals'[id].intent \in intents'
    BY <1>2, <1>6 DEF IInv, TypeOK, UsageType
  <2>1. CASE id = x.id
    BY <1>2, <1>5, <2>1
  <2>2. CASE id # x.id
    BY <1>2, <1>5, <2>2 DEF IInv, TypeOK
  <2>. QED  BY <2>1, <2>2
<1>10. RevokedAttested'
  BY <1>2 DEF IInv, RevokedAttested
<1>11. DecidedStored'
  BY <1>5, <1>6, <1>7 DEF IInv, DecidedStored
<1>12. OpenReserved'
  <2>. SUFFICES ASSUME NEW id \in ProposalIds, proposals'[id] # NoProposal,
                       proposals'[id].status \in {"EVALUATING", "ALLOWED"}
                PROVE  reservedAt'[id] >= 0
    BY DEF OpenReserved
  <2>1. CASE id = x.id
    BY <1>1, <1>5, <2>1
  <2>2. CASE id # x.id
    BY <1>2, <1>5, <2>2 DEF IInv, OpenReserved
  <2>. QED  BY <2>1, <2>2
<1>13. PactAllowed'
  <2>. SUFFICES ASSUME NEW k \in Pacts, pacts[k] # "None"
                PROVE  /\ proposals'[pacts[k]] # NoProposal
                       /\ proposals'[pacts[k]].status = "ALLOWED"
                       /\ decisions'[pacts[k]] = "ALLOW"
                       /\ IntentDoc[proposals'[pacts[k]].intent].pact = k
    BY <1>2 DEF PactAllowed
  <2>1. pacts[k] \in ProposalIds /\ pacts[k] # x.id
    BY <1>8 DEF IInv, TypeOK
  <2>2. proposals'[pacts[k]] = proposals[pacts[k]] /\ decisions'[pacts[k]] = decisions[pacts[k]]
    BY <1>5, <1>6, <2>1
  <2>. QED  BY <2>2 DEF IInv, PactAllowed
<1>. QED
  BY <1>2, <1>4, <1>9, <1>10, <1>11, <1>12, <1>13 DEF IInv, Shapes

LEMMA SignKeeps ==
  ASSUME IInv, NEW k \in Pacts, NEW id \in ProposalIds, NEW s \in Wallets,
         SignPact(k, id, s), now' = now, nonces' \subseteq Wallets \X Nat
  PROVE  IInv'
<1>1. UNCHANGED Books /\ UNCHANGED <<authority, actors, intents, paths, attested, proofs>>
  BY DEF SignPact, Books
<1>2. /\ pacts' = [pacts EXCEPT ![k] = id]
      /\ proposals[id] # NoProposal /\ AllowedPact(k, id)
  BY DEF SignPact
<1>3. TypeOK'
  BY <1>1, <1>2, BooksKept DEF IInv, TypeOK, UsageType
<1>4. RevokedAttested'
  BY <1>1 DEF IInv, RevokedAttested
<1>5. PactAllowed'
  BY <1>1, <1>2 DEF IInv, TypeOK, PactAllowed, AllowedPact, Books
<1>. QED  BY <1>1, <1>3, <1>4, <1>5, BooksKept DEF IInv

LEMMA ProofKeeps ==
  ASSUME IInv, NEW q \in Proofs, NEW s \in Wallets,
         SubmitProof(q, s) \/ VerifyProof(q, s), now' = now, nonces' \subseteq Wallets \X Nat
  PROVE  IInv'
<1>1. /\ UNCHANGED Books
      /\ UNCHANGED <<authority, actors, intents, paths, attested, pacts>>
      /\ proofs' \in [Proofs -> {"None", "SUBMITTED", "VERIFIED"}]
  BY DEF SubmitProof, VerifyProof, Books, IInv, TypeOK
<1>2. TypeOK'
  BY <1>1, BooksKept DEF IInv, TypeOK, UsageType
<1>3. RevokedAttested'
  BY <1>1 DEF IInv, RevokedAttested
<1>. QED  BY <1>1, <1>2, <1>3, BooksKept, PactsKept DEF IInv

LEMMA Inductive == IInv /\ [Next]_vars => IInv'
<1>. SUFFICES ASSUME IInv, [Next]_vars PROVE IInv'
  OBVIOUS
<1>1. CASE Tick
  <2>1. UNCHANGED Books /\ UNCHANGED records /\ UNCHANGED nonces
    BY <1>1 DEF Tick, Books, records
  <2>2. now' \in 0 .. MaxTime
    BY <1>1, RuntimeAssumption DEF Tick, IInv, TypeOK
  <2>3. TypeOK' /\ RevokedAttested' /\ PactAllowed'
    BY <2>1, <2>2, BooksKept, PactsKept
    DEF IInv, TypeOK, RevokedAttested, records, UsageType
  <2>. QED  BY <2>1, <2>3, BooksKept DEF IInv, records
<1>2. ASSUME NEW document \in Attestable, IngestPath(document[1], document[2])
      PROVE  IInv'
  <2>1. document[1] \in Paths /\ document[2] \in {"PREPARED", "ACTIVE", "REVOKED"}
    BY RuntimeAssumption
  <2>. QED  BY <1>2, <2>1, IngestKeeps
<1>3. ASSUME NEW r \in Requests, Execute(r)
      PROVE  IInv'
  <2>1. Requested /\ now' = now /\ nonces' \subseteq Wallets \X Nat
    BY <1>3, RequestCases, NoncesTyped
  <2>. QED
    BY <2>1, RegisterWorkspaceKeeps, RegisterActorKeeps, ActivateKeeps, RevokeKeeps,
       PrepareKeeps, SubmitKeeps, EvaluateKeeps, SignKeeps, ProofKeeps DEF Requested
<1>4. CASE UNCHANGED vars
  <2>1. UNCHANGED Books /\ UNCHANGED records /\ UNCHANGED <<now, nonces>>
    BY <1>4 DEF vars, Books, records
  <2>2. TypeOK' /\ RevokedAttested' /\ PactAllowed'
    BY <2>1, BooksKept, PactsKept
    DEF IInv, TypeOK, RevokedAttested, records, UsageType
  <2>. QED  BY <2>1, <2>2, BooksKept DEF IInv, records
<1>. QED  BY <1>1, <1>2, <1>3, <1>4 DEF Next

-------------------------------------------------------------------------------
(* What a step may change.                                                 *)

(* A step that is neither a submission nor an evaluation moves no book.    *)
LEMMA BooksMove ==
  ASSUME IInv, [Next]_vars
  PROVE  \/ UNCHANGED Books
         \/ \E x \in Proposals, s \in Wallets : SubmitProposal(x, s) \/ EvaluateProposal(x, s)
<1>1. CASE Tick
  BY <1>1 DEF Tick, records, Books
<1>2. CASE \E document \in Attestable : IngestPath(document[1], document[2])
  BY <1>2 DEF IngestPath, Books
<1>3. ASSUME NEW r \in Requests, Execute(r)
      PROVE  \/ UNCHANGED Books
             \/ \E x \in Proposals, s \in Wallets :
                  SubmitProposal(x, s) \/ EvaluateProposal(x, s)
  <2>1. Requested
    BY <1>3, RequestCases
  <2>. QED
    BY <2>1 DEF Requested, RegisterWorkspace, RegisterActor, ActivatePath, RevokePath,
       PrepareIntent, SignPact, SubmitProof, VerifyProof, Books
<1>4. CASE UNCHANGED vars
  BY <1>4 DEF vars, records, Books
<1>. QED  BY <1>1, <1>2, <1>3, <1>4 DEF Next

(* Where a proposal, its decision or its reservation changes, it was not   *)
(* decided, and its path is one that authorises something.                 *)
LEMMA ProposalMoves ==
  ASSUME IInv, [Next]_vars, NEW id \in ProposalIds,
         \/ proposals'[id] # proposals[id] \/ decisions'[id] # decisions[id]
         \/ reservedAt'[id] # reservedAt[id]
  PROVE  decisions[id] = "None" /\ UsablePath(IntentDoc[proposals'[id].intent].path)
<1>1. PICK x \in Proposals, s \in Wallets : SubmitProposal(x, s) \/ EvaluateProposal(x, s)
  BY BooksMove DEF Books
<1>2. x.id \in ProposalIds /\ x.intent \in Intents
  BY DEF Proposals
<1>3. CASE SubmitProposal(x, s)
  <2>1. /\ proposals' = [proposals EXCEPT ![x.id] =
                           [status |-> "EVALUATING", intent |-> x.intent]]
        /\ UNCHANGED decisions /\ UsablePath(IntentDoc[x.intent].path)
        /\ proposals[x.id] = NoProposal
        /\ reservedAt' = [reservedAt EXCEPT ![x.id] = now]
    BY <1>3 DEF SubmitProposal, Chain, NotStored, Reserve
  <2>2. id = x.id
    BY <1>2, <2>1 DEF IInv, Shapes, TypeOK
  <2>3. proposals'[id].intent = x.intent
    BY <2>1, <2>2 DEF IInv, Shapes
  <2>. QED  BY <2>1, <2>2, <2>3 DEF IInv, DecidedStored
<1>4. CASE EvaluateProposal(x, s)
  <2>1. decisions[x.id] = "None" /\ UsablePath(IntentDoc[x.intent].path)
    BY <1>4 DEF EvaluateProposal, Chain
  <2>2. /\ \A other \in ProposalIds : other # x.id => reservedAt'[other] = reservedAt[other]
        /\ \E d \in {"ALLOW", "BLOCK"} : Decide(x, d)
    BY <1>4, EvaluateBooks
  <2>3. id = x.id /\ proposals'[id].intent = x.intent
    BY <1>2, <2>2 DEF Decide, IInv, Shapes, TypeOK
  <2>. QED  BY <2>1, <2>3
<1>. QED  BY <1>1, <1>3, <1>4

(* Usage changes on a path that authorises something only.                 *)
LEMMA UsageMoves ==
  ASSUME IInv, [Next]_vars, NEW p \in Paths, usage'[p] # usage[p]
  PROVE  UsablePath(p)
<1>1. PICK x \in Proposals, s \in Wallets : SubmitProposal(x, s) \/ EvaluateProposal(x, s)
  BY BooksMove DEF Books
<1>2. x.id \in ProposalIds /\ x.intent \in Intents
  BY DEF Proposals
<1>3. UsablePath(IntentDoc[x.intent].path)
  BY <1>1 DEF SubmitProposal, EvaluateProposal, Chain
<1>4. p = IntentDoc[x.intent].path
  <2>1. CASE SubmitProposal(x, s)
    BY <1>2, <2>1, ReserveFits DEF SubmitProposal
  <2>2. CASE EvaluateProposal(x, s)
    BY <2>2, EvaluateBooks
  <2>. QED  BY <1>1, <2>1, <2>2
<1>. QED  BY <1>3, <1>4

(* Intents, pacts and proofs change on such a path only, and a revocation  *)
(* is undone by nothing.                                                   *)
LEMMA RevokedMoves ==
  ASSUME IInv, [Next]_vars, NEW p \in Paths, paths[p] = "REVOKED"
  PROVE  /\ paths'[p] = "REVOKED"
         /\ \A i \in Intents : On(i, p) => (i \in intents' <=> i \in intents)
         /\ \A k \in Pacts :
              pacts'[k] # pacts[k] => ~On(proposals[pacts'[k]].intent, p)
         /\ \A q \in Proofs :
              proofs'[q] # proofs[q] => ~On(proposals[ProofDoc[q].proposal].intent, p)
<1>. DEFINE Kept ==
       /\ paths'[p] = "REVOKED"
       /\ \A i \in Intents : On(i, p) => (i \in intents' <=> i \in intents)
       /\ \A k \in Pacts : pacts'[k] # pacts[k] => ~On(proposals[pacts'[k]].intent, p)
       /\ \A q \in Proofs :
            proofs'[q] # proofs[q] => ~On(proposals[ProofDoc[q].proposal].intent, p)
<1>1. ASSUME UNCHANGED <<paths, intents, pacts, proofs>>
      PROVE  Kept
  BY <1>1
<1>2. ~UsablePath(p) /\ p \in attested
  BY DEF UsablePath, IInv, RevokedAttested
<1>3. CASE Tick
  BY <1>1, <1>3 DEF Tick, records
<1>4. ASSUME NEW document \in Attestable, IngestPath(document[1], document[2])
      PROVE  Kept
  BY <1>2, <1>4 DEF IngestPath, Ingestible, IInv, TypeOK
<1>5. ASSUME NEW r \in Requests, Execute(r)
      PROVE  Kept
  <2>1. Requested
    BY <1>5, RequestCases
  <2>2. ASSUME NEW a \in Paths, NEW s \in Wallets, ActivatePath(a, s) PROVE Kept
    BY <2>2 DEF ActivatePath, IInv, TypeOK
  <2>3. ASSUME NEW a \in Paths, NEW s \in Wallets, RevokePath(a, s) PROVE Kept
    BY <2>3 DEF RevokePath, IInv, TypeOK
  <2>4. ASSUME NEW i \in Intents, NEW s \in Wallets, PrepareIntent(i, s) PROVE Kept
    BY <1>2, <2>4 DEF PrepareIntent, On
  <2>5. ASSUME NEW k \in Pacts, NEW id \in ProposalIds, NEW s \in Wallets, SignPact(k, id, s)
        PROVE  Kept
    BY <1>2, <2>5 DEF SignPact, Chain, On, IInv, TypeOK
  <2>6. ASSUME NEW q \in Proofs, NEW s \in Wallets, SubmitProof(q, s) \/ VerifyProof(q, s)
        PROVE  Kept
    <3>1. UsablePath(IntentDoc[proposals[ProofDoc[q].proposal].intent].path)
      BY <2>6 DEF SubmitProof, VerifyProof, Provable
    <3>2. /\ UNCHANGED <<paths, intents, pacts>>
          /\ \A other \in Proofs : other # q => proofs'[other] = proofs[other]
      BY <2>6 DEF SubmitProof, VerifyProof, IInv, TypeOK
    <3>. QED  BY <1>2, <3>1, <3>2 DEF On
  <2>7. CASE UNCHANGED <<paths, intents, pacts, proofs>>
    BY <1>1, <2>7
  <2>8. \/ UNCHANGED <<paths, intents, pacts, proofs>>
        \/ \E a \in Paths, s \in Wallets : ActivatePath(a, s) \/ RevokePath(a, s)
        \/ \E i \in Intents, s \in Wallets : PrepareIntent(i, s)
        \/ \E k \in Pacts, id \in ProposalIds, s \in Wallets : SignPact(k, id, s)
        \/ \E q \in Proofs, s \in Wallets : SubmitProof(q, s) \/ VerifyProof(q, s)
    BY <2>1 DEF Requested, RegisterWorkspace, RegisterActor, SubmitProposal, EvaluateProposal
  <2>. QED  BY <2>2, <2>3, <2>4, <2>5, <2>6, <2>7, <2>8
<1>6. CASE UNCHANGED vars
  BY <1>1, <1>6 DEF vars, records
<1>. QED  BY <1>3, <1>4, <1>5, <1>6 DEF Next

-------------------------------------------------------------------------------
(* The buckets are the sums of what was reserved in them.                  *)

Counted == {id \in ProposalIds : reservedAt[id] >= 0}

AmountsOf(S) == [id \in S |-> AmountOf(id)]

(* Only finitely many proposals were ever reserved, and all are stored.    *)
CountedStored == IsFiniteSet(Counted) /\ \A id \in Counted : proposals[id] # NoProposal

Exact(p, l, b) ==
  /\ usage[p][l][b].count = Cardinality(Reserved(p, l, b))
  /\ usage[p][l][b].amount = SumFunctionOnSet(AmountsOf(Reserved(p, l, b)), Reserved(p, l, b))

SumsInv ==
  /\ CountedStored
  /\ \A p \in Paths : \A l \in Limits(p) : \A b \in 0 .. MaxTime : Exact(p, l, b)

LEMMA ReservedFinite ==
  ASSUME CountedStored, NEW p, NEW l, NEW b
  PROVE  IsFiniteSet(Reserved(p, l, b)) /\ Reserved(p, l, b) \subseteq Counted
<1>1. Reserved(p, l, b) \subseteq Counted
  BY DEF Reserved, Counted
<1>. QED  BY <1>1, FS_Subset DEF CountedStored

LEMMA AmountNat ==
  ASSUME TypeOK, CountedStored, NEW id \in Counted
  PROVE  AmountOf(id) \in Nat
<1>1. proposals[id].intent \in Intents
  BY DEF TypeOK, CountedStored, Counted
<1>. QED  BY <1>1, RuntimeAssumption DEF AmountOf

(* A step that reserves nothing and keeps the intents of what is reserved. *)
LEMMA SumsKept ==
  ASSUME SumsInv, UNCHANGED <<usage, reservedAt>>,
         \A id \in Counted : /\ proposals'[id].intent = proposals[id].intent
                             /\ proposals'[id] # NoProposal
  PROVE  SumsInv'
<1>1. Counted' = Counted
  BY DEF Counted
<1>2. CountedStored'
  BY <1>1 DEF SumsInv, CountedStored
<1>. SUFFICES ASSUME NEW p \in Paths, NEW l \in Limits(p), NEW b \in 0 .. MaxTime
              PROVE  Exact(p, l, b)'
  BY <1>2 DEF SumsInv, Limits
<1>. DEFINE R == Reserved(p, l, b)
<1>3. IsFiniteSet(R) /\ R \subseteq Counted
  BY ReservedFinite DEF SumsInv
<1>4. Reserved(p, l, b)' = R
  BY DEF Reserved, Counted, Applicable, Limits, Bucket
<1>5. \A id \in R : AmountOf(id)' = AmountOf(id)
  BY <1>3 DEF AmountOf
<1>6. Exact(p, l, b)
  BY DEF SumsInv
<1>7. SumFunctionOnSet(AmountsOf(R)', R) = SumFunctionOnSet(AmountsOf(R), R)
  <2>1. \A id \in R : AmountsOf(R)'[id] = AmountsOf(R)[id]
    BY <1>4, <1>5 DEF AmountsOf
  <2>. HIDE DEF R
  <2>. QED  BY <1>3, <2>1, SumSame
<1>. QED  BY <1>4, <1>6, <1>7 DEF Exact, AmountsOf

(* A reservation counts in the bucket of its moment, and in no other.      *)
LEMMA ReserveBucket ==
  ASSUME IInv, NEW i \in Intents, NEW x \in ProposalIds, Reserve(i, x),
         NEW p \in Paths, NEW l \in Limits(p), NEW b \in 0 .. MaxTime
  PROVE  usage'[p][l][b] =
           IF p = IntentDoc[i].path /\ l \in Applicable(i) /\ b = Bucket(p, l, now)
           THEN [count |-> usage[p][l][b].count + 1,
                 amount |-> usage[p][l][b].amount + IntentDoc[i].amount]
           ELSE usage[p][l][b]
<1>. DEFINE more(c) == [count |-> usage[p][l][c].count + 1,
                        amount |-> usage[p][l][c].amount + IntentDoc[i].amount]
            new == [usage[p][l] EXCEPT ![Bucket(p, l, now)] = more(Bucket(p, l, now))]
<1>1. /\ usage = [q \in Paths |-> usage[q]]
      /\ usage[p] \in [Limits(p) -> [0 .. MaxTime -> [count : Nat, amount : Nat]]]
  BY DEF IInv, Shapes, TypeOK
<1>2. p # IntentDoc[i].path => usage'[p] = usage[p]
  BY <1>1 DEF Reserve
<1>3. ASSUME p = IntentDoc[i].path
      PROVE  usage'[p][l] = IF l \in Applicable(i) THEN new ELSE usage[p][l]
  <2>1. usage'[p] = [k \in Limits(p) |->
          IF k \notin Applicable(i) THEN usage[p][k]
          ELSE [usage[p][k] EXCEPT ![Bucket(p, k, now)] =
                  [count |-> @.count + 1, amount |-> @.amount + IntentDoc[i].amount]]]
    BY <1>1, <1>3 DEF Reserve
  <2>. QED  BY <2>1
<1>. DEFINE held == usage[p][l]
            added(c) == more(c)
<1>4. new[b] = IF b = Bucket(p, l, now) THEN more(b) ELSE usage[p][l][b]
  <2>1. held \in [0 .. MaxTime -> [count : Nat, amount : Nat]]
    BY <1>1
  <2>2. new = [held EXCEPT ![Bucket(p, l, now)] = added(Bucket(p, l, now))]
    OBVIOUS
  <2>. HIDE DEF held, added, new
  <2>3. new[b] = IF b = Bucket(p, l, now) THEN added(Bucket(p, l, now)) ELSE held[b]
    BY <2>1, <2>2
  <2>4. new[b] = IF b = Bucket(p, l, now) THEN added(b) ELSE held[b]
    BY <2>3
  <2>. QED  BY <2>4 DEF held, added
<1>. HIDE DEF new
<1>. QED  BY <1>2, <1>3, <1>4 DEF more

(* A proposal that was not stored joins the sums of the buckets it is      *)
(* reserved in.                                                            *)
LEMMA ReserveSums ==
  ASSUME IInv, SumsInv, NEW x \in Proposals,
         NotStored(x), Reserve(x.intent, x.id),
         proposals'[x.id] # NoProposal, proposals'[x.id].intent = x.intent,
         \A id \in ProposalIds : id # x.id => proposals'[id] = proposals[id]
  PROVE  SumsInv'
<1>1. x.id \in ProposalIds /\ x.intent \in Intents
  BY DEF Proposals
<1>2. /\ reservedAt' = [reservedAt EXCEPT ![x.id] = now] /\ now >= 0
      /\ reservedAt \in [ProposalIds -> -1 .. MaxTime] /\ now \in Int
  <2>1. reservedAt' = [reservedAt EXCEPT ![x.id] = now]
    BY DEF Reserve
  <2>2. now \in 0 .. MaxTime /\ reservedAt \in [ProposalIds -> -1 .. MaxTime]
    BY DEF IInv, TypeOK
  <2>. QED  BY <2>1, <2>2, RuntimeAssumption
<1>3. x.id \notin Counted
  BY DEF SumsInv, CountedStored, NotStored
<1>4. Counted' = Counted \cup {x.id}
  BY <1>1, <1>2 DEF Counted
<1>5. CountedStored'
  <2>1. IsFiniteSet(Counted')
    BY <1>4, FS_AddElement DEF SumsInv, CountedStored
  <2>2. \A id \in Counted' : proposals'[id] # NoProposal
    BY <1>3, <1>4 DEF SumsInv, CountedStored, Counted
  <2>. QED  BY <2>1, <2>2 DEF CountedStored
<1>. SUFFICES ASSUME NEW p \in Paths, NEW l \in Limits(p), NEW b \in 0 .. MaxTime
              PROVE  Exact(p, l, b)'
  BY <1>5 DEF SumsInv, Limits
<1>. DEFINE R == Reserved(p, l, b)
            here == /\ p = IntentDoc[x.intent].path /\ l \in Applicable(x.intent)
                    /\ b = Bucket(p, l, now)
<1>6. IsFiniteSet(R) /\ R \subseteq Counted /\ x.id \notin R
  BY <1>3, ReservedFinite DEF SumsInv
<1>7. Reserved(p, l, b)' = IF here THEN R \cup {x.id} ELSE R
  <2>1. \A id \in ProposalIds : id # x.id =>
          proposals'[id] = proposals[id] /\ reservedAt'[id] = reservedAt[id]
    BY <1>2
  <2>2. \A id \in ProposalIds : id # x.id => (id \in Reserved(p, l, b)' <=> id \in R)
    BY <2>1 DEF Reserved, Applicable, Limits, Bucket
  <2>3. reservedAt'[x.id] = now /\ reservedAt'[x.id] >= 0
    BY <1>1, <1>2
  <2>4. x.id \in Reserved(p, l, b)' <=> here
    BY <1>1, <2>3 DEF Reserved, Applicable, Limits, Bucket
  <2>5. R \subseteq ProposalIds /\ Reserved(p, l, b)' \subseteq ProposalIds
    BY DEF Reserved
  <2>. HIDE DEF R, here
  <2>. QED  BY <1>1, <1>6, <2>2, <2>4, <2>5
<1>8. /\ \A id \in R : AmountOf(id)' = AmountOf(id) /\ AmountOf(id) \in Nat
      /\ AmountOf(x.id)' = IntentDoc[x.intent].amount
      /\ IntentDoc[x.intent].amount \in Nat
  <2>1. \A id \in R : AmountOf(id) \in Nat
    BY <1>6, AmountNat DEF IInv, SumsInv
  <2>2. \A id \in R : AmountOf(id)' = AmountOf(id)
    BY <1>6 DEF AmountOf, Counted
  <2>. QED  BY <1>1, <2>1, <2>2, RuntimeAssumption DEF AmountOf
<1>9. Exact(p, l, b)
  BY DEF SumsInv
<1>10. usage'[p][l][b] =
         IF here THEN [count |-> usage[p][l][b].count + 1,
                       amount |-> usage[p][l][b].amount + IntentDoc[x.intent].amount]
         ELSE usage[p][l][b]
  BY <1>1, ReserveBucket
<1>11. CASE ~here
  <2>1. Reserved(p, l, b)' = R /\ usage'[p][l][b] = usage[p][l][b]
    BY <1>7, <1>10, <1>11
  <2>2. SumFunctionOnSet(AmountsOf(R)', R) = SumFunctionOnSet(AmountsOf(R), R)
    <3>1. \A id \in R : AmountsOf(R)'[id] = AmountsOf(R)[id]
      BY <1>8, <2>1 DEF AmountsOf
    <3>. HIDE DEF R
    <3>. QED  BY <1>6, <3>1, SumSame
  <2>. QED  BY <1>9, <2>1, <2>2 DEF Exact, AmountsOf
<1>12. CASE here
  <2>. DEFINE U == R \cup {x.id}
              f == AmountsOf(U)'
              amount == IntentDoc[x.intent].amount
  <2>1. Reserved(p, l, b)' = U
    BY <1>7, <1>12
  <2>2. /\ \A id \in R : f[id] = AmountsOf(R)[id] /\ f[id] \in Nat
        /\ f[x.id] = amount /\ amount \in Nat
    BY <1>8, <2>1 DEF AmountsOf
  <2>3. SumFunctionOnSet(f, U) = SumFunctionOnSet(AmountsOf(R), R) + amount
    <3>1. \A id \in R \cup {x.id} : f[id] \in Int
      BY <2>2
    <3>. HIDE DEF R, f
    <3>2. SumFunctionOnSet(f, R \cup {x.id}) = SumFunctionOnSet(f, R) + f[x.id]
      <4>. DEFINE y == x.id
      <4>1. IsFiniteSet(R) /\ y \notin R /\ \A id \in R \cup {y} : f[id] \in Int
        BY <1>6, <3>1
      <4>. HIDE DEF y
      <4>2. SumFunctionOnSet(f, R \cup {y}) = SumFunctionOnSet(f, R) + f[y]
        BY <4>1, SumJoin
      <4>. QED  BY <4>2 DEF y
    <3>3. SumFunctionOnSet(f, R) = SumFunctionOnSet(AmountsOf(R), R)
      BY <1>6, <2>2, SumSame
    <3>. QED  BY <2>2, <3>2, <3>3
  <2>4. Cardinality(U) = Cardinality(R) + 1
    <3>. HIDE DEF R
    <3>. QED  BY <1>6, FS_AddElement
  <2>5. /\ usage'[p][l][b].count = usage[p][l][b].count + 1
        /\ usage'[p][l][b].amount = usage[p][l][b].amount + amount
    <3>1. usage'[p][l][b] = [count |-> usage[p][l][b].count + 1,
                             amount |-> usage[p][l][b].amount + amount]
      BY <1>10, <1>12
    <3>. HIDE DEF amount
    <3>. QED  BY <3>1
  <2>6. /\ usage[p][l][b].count = Cardinality(R)
        /\ usage[p][l][b].amount = SumFunctionOnSet(AmountsOf(R), R)
    BY <1>9 DEF Exact
  <2>7. AmountsOf(Reserved(p, l, b))' = f
    BY <2>1 DEF AmountsOf
  <2>. HIDE DEF R, f, amount
  <2>. QED  BY <2>1, <2>3, <2>4, <2>5, <2>6, <2>7 DEF Exact
<1>. QED  BY <1>11, <1>12

(* Each step keeps the sums: a submission reserves what was not stored, an *)
(* evaluation only what was not submitted.                                 *)
LEMMA StepSums == IInv /\ SumsInv /\ [Next]_vars => SumsInv'
<1>. SUFFICES ASSUME IInv, SumsInv, [Next]_vars PROVE SumsInv'
  OBVIOUS
<1>1. CASE UNCHANGED Books
  BY <1>1, SumsKept DEF Books, SumsInv, CountedStored
<1>2. ASSUME NEW x \in Proposals, NEW s \in Wallets, SubmitProposal(x, s)
      PROVE  SumsInv'
  <2>1. /\ NotStored(x) /\ Reserve(x.intent, x.id) /\ x.id \in ProposalIds
        /\ proposals' = [proposals EXCEPT ![x.id] =
                           [status |-> "EVALUATING", intent |-> x.intent]]
    BY <1>2 DEF SubmitProposal, Proposals
  <2>2. /\ proposals'[x.id] = [status |-> "EVALUATING", intent |-> x.intent]
        /\ \A id \in ProposalIds : id # x.id => proposals'[id] = proposals[id]
    BY <2>1 DEF IInv, Shapes
  <2>. QED  BY <2>1, <2>2, ReserveSums DEF NoProposal
<1>3. ASSUME NEW x \in Proposals, NEW s \in Wallets, EvaluateProposal(x, s)
      PROVE  SumsInv'
  <2>1. /\ Evaluable(x) /\ x.id \in ProposalIds
        /\ \/ NotStored(x) /\ Reserve(x.intent, x.id)
           \/ UNCHANGED <<usage, reservedAt>>
        /\ \E d \in {"ALLOW", "BLOCK"} : Decide(x, d)
    BY <1>3 DEF EvaluateProposal, Allow, Block, Proposals
  <2>2. /\ proposals'[x.id] # NoProposal /\ proposals'[x.id].intent = x.intent
        /\ \A id \in ProposalIds : id # x.id => proposals'[id] = proposals[id]
    <3>1. PICK stored \in [status : {"ALLOWED", "BLOCKED"}, intent : {x.intent}] :
            proposals' = [proposals EXCEPT ![x.id] = stored]
      BY <2>1 DEF Decide
    <3>2. /\ proposals'[x.id] = stored
          /\ \A id \in ProposalIds : id # x.id => proposals'[id] = proposals[id]
      BY <2>1, <3>1 DEF IInv, Shapes
    <3>. QED  BY <3>2 DEF NoProposal
  <2>3. CASE NotStored(x) /\ Reserve(x.intent, x.id)
    BY <2>2, <2>3, ReserveSums
  <2>4. CASE UNCHANGED <<usage, reservedAt>>
    <3>1. \A id \in Counted : proposals[id] # NoProposal /\ id \in ProposalIds
      BY DEF SumsInv, CountedStored, Counted
    <3>2. x.id \in Counted => proposals[x.id].intent = x.intent
      BY <2>1, <3>1 DEF Evaluable, NotStored
    <3>. QED  BY <2>2, <2>4, <3>1, <3>2, SumsKept
  <2>. QED  BY <2>1, <2>3, <2>4
<1>. QED  BY <1>1, <1>2, <1>3, BooksMove

-------------------------------------------------------------------------------
(* Theorems.                                                               *)

(* The inductive invariant holds of every run of execute and ingestPath.   *)
THEOREM RuntimeInvariant == Spec => []IInv
BY Initially, Inductive, PTL DEF Spec

(* Every stored document keeps its type, and an attestation is never left  *)
(* without what it attests.                                                *)
THEOREM RuntimeTypeCorrect == Spec => []TypeOK
<1>1. IInv => TypeOK
  BY DEF IInv
<1>. QED  BY <1>1, RuntimeInvariant, PTL

(* Whatever is submitted and evaluated, in whatever order and period, no   *)
(* bucket of a limit exceeds it (assertPathAuthority).                     *)
THEOREM LimitsKept == Spec => []WithinLimits
<1>1. IInv => WithinLimits
  BY DEF IInv
<1>. QED  BY <1>1, RuntimeInvariant, PTL

(* Every bucket of every limit holds exactly the proposals reserved in it, *)
(* each once, submitted and then evaluated or not, and stays within the    *)
(* limit (assertPathAuthority, prepareProposalEvaluate).                   *)
THEOREM UsageIsExact == Spec => []UsageExact
<1>1. Init => SumsInv
  <2>. SUFFICES ASSUME Init PROVE SumsInv
    OBVIOUS
  <2>1. Counted = {}
    BY DEF Init, Counted
  <2>2. CountedStored
    BY <2>1, FS_EmptySet DEF CountedStored
  <2>3. ASSUME NEW p \in Paths, NEW l \in Limits(p), NEW b \in 0 .. MaxTime
        PROVE  Exact(p, l, b)
    <3>1. Reserved(p, l, b) = {}
      BY <2>1 DEF Reserved, Counted
    <3>2. usage[p][l][b] = Unused
      BY DEF Init
    <3>3. SumFunctionOnSet(AmountsOf({}), {}) = 0 /\ Cardinality({}) = 0
      BY SumEmpty, FS_EmptySet
    <3>. QED  BY <3>1, <3>2, <3>3 DEF Exact, Unused
  <2>. QED  BY <2>2, <2>3 DEF SumsInv
<1>2. IInv /\ SumsInv => UsageExact
  BY DEF IInv, WithinLimits, SumsInv, Exact, AmountsOf, UsageExact
<1>. QED  BY <1>1, <1>2, StepSums, RuntimeInvariant, PTL DEF Spec

(* A pact stands on one allowed proposal, whose usage is reserved, of the  *)
(* intent that names the pact, and shares it with no other (preparePact).  *)
THEOREM PactsBacked == Spec => []PactBacked
<1>1. IInv => PactBacked
  <2>. SUFFICES ASSUME IInv, NEW k \in Pacts, pacts[k] # "None"
                PROVE  /\ proposals[pacts[k]] # NoProposal
                       /\ proposals[pacts[k]].status = "ALLOWED"
                       /\ decisions[pacts[k]] = "ALLOW" /\ reservedAt[pacts[k]] >= 0
                       /\ IntentDoc[proposals[pacts[k]].intent].pact = k
                       /\ \A other \in Pacts \ {k} : pacts[other] # "None" =>
                            proposals[pacts[other]].intent # proposals[pacts[k]].intent
    BY DEF PactBacked
  <2>1. pacts[k] \in ProposalIds
    BY DEF IInv, TypeOK
  <2>2. reservedAt[pacts[k]] >= 0
    BY <2>1 DEF IInv, PactAllowed, OpenReserved
  <2>. QED  BY <2>2 DEF IInv, PactAllowed
<1>. QED  BY <1>1, RuntimeInvariant, PTL

(* No request changes a decision, nor the proposal and the reservation it  *)
(* was made on (prepareProposalEvaluate).                                  *)
THEOREM DecisionsFinal == Spec => DecisionFinal
<1>1. IInv /\ [Next]_vars =>
        \A id \in ProposalIds : decisions[id] # "None" =>
          /\ decisions'[id] = decisions[id] /\ proposals'[id] = proposals[id]
          /\ reservedAt'[id] = reservedAt[id]
  BY ProposalMoves
<1>. QED  BY <1>1, RuntimeInvariant, PTL DEF Spec, DecisionFinal

(* Nothing revives a revoked path or is authorised by it any more          *)
(* (preparePathRevoke, ingestPath).                                        *)
THEOREM RevocationsFinal == Spec => RevokedForGood
<1>. DEFINE Final(p) ==
       /\ paths'[p] = "REVOKED" /\ usage'[p] = usage[p]
       /\ \A i \in Intents : On(i, p) => (i \in intents' <=> i \in intents)
       /\ \A id \in ProposalIds :
            proposals'[id] # proposals[id] => ~On(proposals'[id].intent, p)
       /\ \A k \in Pacts : pacts'[k] # pacts[k] => ~On(proposals[pacts'[k]].intent, p)
       /\ \A q \in Proofs :
            proofs'[q] # proofs[q] => ~On(proposals[ProofDoc[q].proposal].intent, p)
<1>1. IInv /\ [Next]_vars => \A p \in Paths : paths[p] = "REVOKED" => Final(p)
  <2>. SUFFICES ASSUME IInv, [Next]_vars, NEW p \in Paths, paths[p] = "REVOKED"
                PROVE  Final(p)
    OBVIOUS
  <2>1. ~UsablePath(p)
    BY DEF UsablePath
  <2>2. usage'[p] = usage[p]
    BY <2>1, UsageMoves
  <2>3. \A id \in ProposalIds :
          proposals'[id] # proposals[id] => ~On(proposals'[id].intent, p)
    BY <2>1, ProposalMoves DEF On
  <2>. QED  BY <2>2, <2>3, RevokedMoves
<1>. QED  BY <1>1, RuntimeInvariant, PTL DEF Spec, RevokedForGood
-------------------------------------------------------------------------------
(***************************************************************************)
(* The stores (RuntimeStore): for every set of attempts, every transition  *)
(* function and both stores, transact is atomic.                           *)
(***************************************************************************)

(* A process starts with an empty store and no attempt under way.          *)
LEMMA InitHolds == StoreInit => StoreIInv
BY StoreAssumption DEF StoreInit, StoreIInv, StoreTypeOK, Holding, Awaits, Store!Outcomes, Absent

(* Every step keeps the types.                                             *)
LEMMA TypesStep == StoreIInv /\ [StoreNext]_storeVars => StoreTypeOK'
<1> SUFFICES ASSUME StoreTypeOK, \A a \in Attempts : Holding(a), [StoreNext]_storeVars
             PROVE StoreTypeOK'
  BY DEF StoreIInv
<1> USE StoreAssumption DEF StoreTypeOK, Awaits, Go, Store!Outcomes, work
<1>c. Current \in States
  BY DEF Current, Absent
<1>1. ASSUME NEW a \in Attempts, Begin(a) PROVE StoreTypeOK'
  BY <1>1 DEF Begin
<1>2. ASSUME NEW a \in Attempts, SelectForUpdate(a) PROVE StoreTypeOK'
  BY <1>2, <1>c DEF SelectForUpdate
<1>3. ASSUME NEW a \in Attempts, Enqueue(a) PROVE StoreTypeOK'
  BY <1>3 DEF Enqueue
<1>4. ASSUME NEW a \in Attempts, Draft(a) PROVE StoreTypeOK'
  BY <1>4, <1>c DEF Draft
<1>5. ASSUME NEW a \in Attempts, Consume(a) PROVE StoreTypeOK'
  <2>1. Transition[a][draft[a]] \in States \cup {Refused}
    OBVIOUS
  <2> QED BY <1>5, <2>1 DEF Consume
<1>6. ASSUME NEW a \in Attempts, SendCommit(a) PROVE StoreTypeOK'
  BY <1>6 DEF SendCommit
<1>7. ASSUME NEW a \in Attempts, CommitOnServer(a) PROVE StoreTypeOK'
  BY <1>7 DEF CommitOnServer, Publish
<1>8. ASSUME NEW a \in Attempts, Assign(a) PROVE StoreTypeOK'
  <2>0. queue # <<>>
    BY <1>8 DEF Assign, Holding
  <2>1. queue' \in Seq(Attempts)
    BY <1>8, <2>0 DEF Assign
  <2> QED BY <1>8, <2>1 DEF Assign, Publish
<1>9. ASSUME NEW a \in Attempts, Reply(a) PROVE StoreTypeOK'
  <2>1. queue' \in Seq(Attempts)
    <3>1. CASE pc[a] = "throw" /\ backend = "memory"
      <4>1. queue # <<>> /\ queue' = Tail(queue)
        BY <1>9, <3>1 DEF Reply, Holding
      <4> QED BY <4>1
    <3>2. CASE ~(pc[a] = "throw" /\ backend = "memory")
      BY <1>9, <3>2 DEF Reply
    <3> QED BY <3>1, <3>2
  <2> QED BY <1>9, <2>1 DEF Reply
<1>10. ASSUME NEW a \in Attempts, Fail(a) PROVE StoreTypeOK'
  BY <1>10 DEF Fail
<1>11. ASSUME NEW a \in Attempts, Rollback(a) PROVE StoreTypeOK'
  BY <1>11 DEF Rollback
<1>12. CASE UNCHANGED storeVars
  BY <1>12 DEF storeVars
<1> QED
  BY <1>1, <1>2, <1>3, <1>4, <1>5, <1>6, <1>7, <1>8, <1>9, <1>10, <1>11, <1>12
  DEF StoreNext, Step

(* What an attempt may rely on survives the steps of all the others.       *)
LEMMA HoldingStep == StoreIInv /\ [StoreNext]_storeVars => \A b \in Attempts : Holding(b)'
<1> SUFFICES ASSUME StoreTypeOK, \A a \in Attempts : Holding(a), [StoreNext]_storeVars,
                    NEW b \in Attempts
             PROVE Holding(b)'
  BY DEF StoreIInv
<1>t. StoreTypeOK'
  BY TypesStep DEF StoreIInv
<1>h. Holding(b)
  OBVIOUS
<1> USE StoreAssumption, <1>t, <1>h DEF StoreTypeOK, Awaits, Go, Store!Outcomes, work
<1>1. ASSUME NEW a \in Attempts, Begin(a) PROVE Holding(b)'
  <2>1. locked' = b => locked = b \/ (a = b /\ backend = "postgres")
    BY <1>1 DEF Begin
  <2>2. locked = b => locked' = b
    BY <1>1 DEF Begin
  <2> QED BY <1>1, <2>1, <2>2 DEF Begin, Holding, Current
<1>2. ASSUME NEW a \in Attempts, SelectForUpdate(a) PROVE Holding(b)'
  BY <1>2 DEF SelectForUpdate, Holding, Current
<1>3. ASSUME NEW a \in Attempts, Enqueue(a) PROVE Holding(b)'
  <2>1. queue # <<>> => queue' # <<>> /\ Head(queue') = Head(queue)
    BY <1>3 DEF Enqueue
  <2> QED BY <1>3, <2>1 DEF Enqueue, Holding, Current
<1>4. ASSUME NEW a \in Attempts, Draft(a) PROVE Holding(b)'
  <2>1. locked \in {Nobody, a}
    BY <1>4 DEF Draft, Holding
  <2> QED BY <1>4, <2>1 DEF Draft, Holding, Current
<1>5. ASSUME NEW a \in Attempts, Consume(a) PROVE Holding(b)'
  BY <1>5 DEF Consume, Holding, Current
<1>6. ASSUME NEW a \in Attempts, SendCommit(a) PROVE Holding(b)'
  BY <1>6 DEF SendCommit, Holding, Current
<1>7. ASSUME NEW a \in Attempts, CommitOnServer(a) PROVE Holding(b)'
  BY <1>7 DEF CommitOnServer, Publish, Holding, Current
<1>8. ASSUME NEW a \in Attempts, Assign(a) PROVE Holding(b)'
  BY <1>8 DEF Assign, Publish, Holding, Current
<1>9. ASSUME NEW a \in Attempts, Reply(a) PROVE Holding(b)'
  BY <1>9 DEF Reply, Holding, Current
<1>10. ASSUME NEW a \in Attempts, Fail(a) PROVE Holding(b)'
  BY <1>10 DEF Fail, Holding, Current
<1>11. ASSUME NEW a \in Attempts, Rollback(a) PROVE Holding(b)'
  BY <1>11 DEF Rollback, Holding, Current
<1>12. CASE UNCHANGED storeVars
  BY <1>12 DEF storeVars, Holding, Current
<1> QED
  BY <1>1, <1>2, <1>3, <1>4, <1>5, <1>6, <1>7, <1>8, <1>9, <1>10, <1>11, <1>12
  DEF StoreNext, Step

(* The invariant of the store.                                             *)
THEOREM StoreInvariant == StoreSpec => []StoreIInv
<1>1. StoreIInv /\ [StoreNext]_storeVars => StoreIInv'
  BY TypesStep, HoldingStep DEF StoreIInv
<1> QED BY <1>1, InitHolds, PTL DEF StoreSpec

(* transact is atomic: the commit of an attempt is a transition of the     *)
(* committed state together with its nonce, a refusal was decided against  *)
(* the committed state, and every other statement is invisible.            *)
THEOREM StoreIsAtomic == StoreSpec => IsAtomicStore
<1>1. StoreInit => Store!Init
  BY DEF StoreInit, Store!Init, Current
<1>2. StoreIInv /\ [StoreNext]_storeVars => [Store!Next]_(Store!vars)
  <2> SUFFICES ASSUME StoreTypeOK, \A a \in Attempts : Holding(a), [StoreNext]_storeVars
               PROVE Store!Next \/ UNCHANGED Store!vars
    BY DEF StoreIInv
  <2> USE StoreAssumption DEF StoreTypeOK, Go, work, Store!vars, Current
  <2>1. ASSUME NEW a \in Attempts,
               \/ Begin(a) \/ SelectForUpdate(a) \/ Enqueue(a) \/ Draft(a)
               \/ SendCommit(a) \/ Rollback(a)
        PROVE UNCHANGED Store!vars
    BY <2>1 DEF Begin, SelectForUpdate, Enqueue, Draft, SendCommit, Rollback
  <2>2. ASSUME NEW a \in Attempts, Consume(a)
        PROVE Store!Next \/ UNCHANGED Store!vars
    <3>1. CASE pc'[a] = "commit"
      BY <2>2, <3>1 DEF Consume, Awaits
    <3>2. CASE pc'[a] # "commit"
      <4> DEFINE why == IF Store!Consumed(a) \cap used = {}
                        THEN "refused" ELSE "conflict"
      <4>1. Store!Decline(a, why)
        BY <2>2, <3>2 DEF Consume, Store!Decline, Holding, Awaits
      <4> QED BY <4>1 DEF Store!Next, Store!Outcomes
    <3> QED BY <3>1, <3>2
  <2>3. ASSUME NEW a \in Attempts, CommitOnServer(a) \/ Assign(a)
        PROVE Store!Next
    <3>1. /\ outcome[a] = "none" /\ Store!Consumed(a) \cap used = {}
          /\ draft[a] = Transition[a][Current] /\ draft[a] # Refused
      BY <2>3 DEF CommitOnServer, Assign, Holding
    <3>2. Store!Apply(a)
      BY <2>3, <3>1 DEF CommitOnServer, Assign, Publish, Store!Apply, Absent
    <3> QED BY <3>2 DEF Store!Next
  <2>4. ASSUME NEW a \in Attempts, Reply(a) PROVE Store!Next
    <3>1. answer[a] = "none" /\ outcome[a] # "none"
      BY <2>4 DEF Reply, Holding
    <3>2. Store!Answer(a)
      BY <2>4, <3>1 DEF Reply, Store!Answer
    <3> QED BY <3>2 DEF Store!Next
  <2>5. ASSUME NEW a \in Attempts, Fail(a) PROVE Store!Next
    <3>1. answer[a] = "none"
      BY <2>5 DEF Fail, Holding
    <3>2. Store!Answer(a)
      BY <2>5, <3>1 DEF Fail, Store!Answer
    <3> QED BY <3>2 DEF Store!Next
  <2>6. CASE UNCHANGED storeVars
    BY <2>6 DEF storeVars
  <2> QED BY <2>1, <2>2, <2>3, <2>4, <2>5, <2>6 DEF StoreNext, Step
<1> QED BY <1>1, <1>2, StoreInvariant, PTL DEF StoreSpec, IsAtomicStore, Store!Spec

(* The nonces of the committed transitions, and no others, are consumed,   *)
(* each by one transition.                                                 *)
THEOREM NoncesConsumedOnce == StoreSpec => []NoncesMatchEffects
<1>1. StoreInit => NoncesMatchEffects
  BY DEF StoreInit, NoncesMatchEffects
<1>2. StoreIInv /\ NoncesMatchEffects /\ [StoreNext]_storeVars => NoncesMatchEffects'
  <2> SUFFICES ASSUME StoreTypeOK, \A a \in Attempts : Holding(a), [StoreNext]_storeVars,
                      NoncesMatchEffects
               PROVE NoncesMatchEffects'
    BY DEF StoreIInv
  <2> DEFINE Applied == {b \in Attempts : outcome[b] = "applied"}
  <2> USE DEF StoreTypeOK, Go, work
  <2>1. ASSUME NEW a \in Attempts, CommitOnServer(a) \/ Assign(a)
        PROVE NoncesMatchEffects'
    <3>1. outcome[a] = "none" /\ Store!Consumed(a) \cap used = {}
      BY <2>1 DEF CommitOnServer, Assign, Holding
    <3>2. Applied' = Applied \cup {a} /\ used' = used \cup Store!Consumed(a)
      BY <2>1 DEF CommitOnServer, Assign, Publish
    <3>3. \A b \in Applied : Nonce[a] = NoNonce \/ Nonce[b] # Nonce[a]
      BY <3>1 DEF NoncesMatchEffects, Store!Consumed
    <3>4. used = UNION {Store!Consumed(b) : b \in Applied}
      BY DEF NoncesMatchEffects
    <3> HIDE DEF Applied
    <3>5. used' = UNION {Store!Consumed(b) : b \in Applied'}
      BY <3>2, <3>4
    <3>6. ASSUME NEW b \in Applied', NEW c \in Applied',
                 Nonce[b] = Nonce[c], Nonce[b] # NoNonce
          PROVE b = c
      <4>1. b \in Applied /\ c \in Applied => b = c
        BY <3>6 DEF NoncesMatchEffects, Applied
      <4> QED BY <3>2, <3>3, <3>6, <4>1
    <3> QED BY <3>5, <3>6 DEF NoncesMatchEffects, Applied
  <2>2. ASSUME NEW a \in Attempts, Consume(a) PROVE NoncesMatchEffects'
    <3>1. Applied' = Applied /\ used' = used
      BY <2>2 DEF Consume, Holding
    <3> QED BY <3>1 DEF NoncesMatchEffects
  <2>3. CASE UNCHANGED <<outcome, used>>
    BY <2>3 DEF NoncesMatchEffects
  <2> QED
    BY <2>1, <2>2, <2>3 DEF StoreNext, Step, Begin, SelectForUpdate, Enqueue, Draft,
       SendCommit, Reply, Rollback, Fail, storeVars
<1> QED BY <1>1, <1>2, StoreInvariant, PTL DEF StoreSpec
===============================================================================
