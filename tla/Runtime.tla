------------------------------- MODULE Runtime --------------------------------
(***************************************************************************)
(* The OpenRails Runtime: the off-chain control plane that takes a payment *)
(* from a workspace's standing authority (a Path) over an Intent, a        *)
(* Proposal and a policy Decision to an active Pact and its proofs.        *)
(* execute runs one signed request in one store transaction, which a       *)
(* promise chain or a row lock serialises and an error rolls back, so a    *)
(* request is one step and a refused one none.  A request whose signature  *)
(* was verified may wait for the store as long as it likes.                *)
(***************************************************************************)
EXTENDS Integers, Sequences, FiniteSets, Functions

CONSTANTS
  Wallets, NoWallet,
  Workspaces, Actors, Paths, Intents, ProposalIds, Pacts, Proofs,
  OwnerOf,    \* OwnerOf[w] : the owner actor a workspace document names
  WalletOf,   \* WalletOf[a] : the wallet in an actor document, or NoWallet
  PathDoc,    \* PathDoc[p] : workspace, issuer, delegate, from, until, limits
  IntentDoc,  \* IntentDoc[i] : path, asset, amount, expires, pact or NoPact
  PactDoc,    \* PactDoc[k] : the parties of a pact document
  ProofDoc,   \* ProofDoc[q] : pact and proposal a proof document is about
  NoPact,
  Requests,   \* the requests that were signed: operation, object, signer, nonce
  Legacy,     \* active paths of an older state row, without an attestation
  Attestable, \* the paths, each with a status, that the attestor vouches for
  MaxTime     \* bound on the clock

(* A proposal document: its intent fixes path and terms.                   *)
Proposals == [id : ProposalIds, intent : Intents]
NoProposal == [status |-> "None"]

RequestType ==
  [op : {"workspace.register"}, object : Workspaces, signer : Wallets, nonce : Nat]
  \cup [op : {"actor.register"}, object : Workspaces \X Actors,
        signer : Wallets, nonce : Nat]
  \cup [op : {"path.activate", "path.revoke"}, object : Paths,
        signer : Wallets, nonce : Nat]
  \cup [op : {"intent.prepare"}, object : Intents, signer : Wallets, nonce : Nat]
  \cup [op : {"proposal.submit", "proposal.evaluate"}, object : Proposals,
        signer : Wallets, nonce : Nat]
  \cup [op : {"pact.sign"}, object : Pacts \X ProposalIds, signer : Wallets, nonce : Nat]
  \cup [op : {"proof.submit", "proof.verify"}, object : Proofs,
        signer : Wallets, nonce : Nat]

LimitType ==
  [ asset : {"USDC", "EURC"}, maxAmount : Nat, maxAmountPerTransaction : Nat,
    maxTransactionsPerPeriod : Nat, periodSeconds : Nat \ {0} ]

ASSUME RuntimeAssumption ==
  /\ NoWallet \notin Wallets /\ NoPact \notin Pacts /\ Legacy \subseteq Paths
  /\ OwnerOf \in [Workspaces -> Actors]
  /\ WalletOf \in [Actors -> Wallets \cup {NoWallet}]
  /\ PathDoc \in [Paths -> [workspace : Workspaces, issuer : Actors,
                            delegate : Actors, from : Nat, until : Nat,
                            limits : Seq(LimitType)]]
  /\ IntentDoc \in [Intents -> [path : Paths, asset : {"USDC", "EURC"},
                                amount : Nat \ {0}, expires : Nat,
                                pact : Pacts \cup {NoPact}]]
  /\ PactDoc \in [Pacts -> SUBSET Actors]
  /\ ProofDoc \in [Proofs -> [pact : Pacts, proposal : ProposalIds]]
  /\ Requests \subseteq RequestType
  /\ Attestable \subseteq Paths \X {"PREPARED", "ACTIVE", "REVOKED"}
  /\ MaxTime \in Nat

VARIABLES
  now,          \* the clock of the process
  authority,    \* authority[w] : the wallet that registered w, or NoWallet
  actors,       \* actors that are registered
  paths,        \* paths[p] : status of the stored path, or "None"
  attested,     \* paths with an attestation of what is stored
  intents,      \* intents that are prepared
  proposals,    \* proposals[id] : the stored document with its status
  decisions,    \* decisions[id] : the decision on proposal id, or "None"
  pacts,        \* pacts[k] : the proposal an active pact was signed for, or "None"
  proofs,       \* proofs[q] : status, or "None"
  usage,        \* usage[p][l][b] : count and amount in the bucket that starts at b
  nonces,       \* consumed replay scopes
  reservedAt    \* history: when the usage of a proposal was reserved, or -1

records == <<authority, actors, paths, attested, intents, proposals, decisions,
             pacts, proofs, usage>>
vars == <<now, records, nonces, reservedAt>>

Limits(p) == DOMAIN PathDoc[p].limits

TypeOK ==
  /\ now \in 0 .. MaxTime
  /\ authority \in [Workspaces -> Wallets \cup {NoWallet}]
  /\ actors \subseteq Actors
  /\ paths \in [Paths -> {"None", "PREPARED", "ACTIVE", "REVOKED"}]
  /\ attested \subseteq {p \in Paths : paths[p] # "None"}
  /\ intents \subseteq Intents
  /\ \A id \in ProposalIds :
       \/ proposals[id] = NoProposal
       \/ /\ proposals[id].status \in {"EVALUATING", "ALLOWED", "BLOCKED"}
          /\ proposals[id].intent \in intents
  /\ decisions \in [ProposalIds -> {"None", "ALLOW", "BLOCK"}]
  /\ pacts \in [Pacts -> ProposalIds \cup {"None"}]
  /\ proofs \in [Proofs -> {"None", "SUBMITTED", "VERIFIED"}]
  /\ \A p \in Paths : usage[p] \in
       [Limits(p) -> [0 .. MaxTime -> [count : Nat, amount : Nat]]]
  /\ nonces \subseteq Wallets \X Nat
  /\ reservedAt \in [ProposalIds -> -1 .. MaxTime]

Unused == [count |-> 0, amount |-> 0]

(* The empty state, or the row of an older version with its paths.         *)
Init ==
  /\ now = 0
  /\ authority = [w \in Workspaces |-> NoWallet] /\ actors = {}
  /\ paths = [p \in Paths |-> IF p \in Legacy THEN "ACTIVE" ELSE "None"]
  /\ attested = {} /\ intents = {}
  /\ proposals = [id \in ProposalIds |-> NoProposal]
  /\ decisions = [id \in ProposalIds |-> "None"]
  /\ pacts = [k \in Pacts |-> "None"] /\ proofs = [q \in Proofs |-> "None"]
  /\ usage = [p \in Paths |-> [l \in Limits(p) |-> [b \in 0 .. MaxTime |-> Unused]]]
  /\ nonces = {} /\ reservedAt = [id \in ProposalIds |-> -1]

Tick ==
  /\ now < MaxTime /\ now' = now + 1
  /\ UNCHANGED <<records, nonces, reservedAt>>

-------------------------------------------------------------------------------
(* What a stored object must be to authorise something.  An actor that is  *)
(* registered suspended or revoked is one that is not registered.          *)

UsableWorkspace(w) == authority[w] # NoWallet

SignedBy(a, signer) == a \in actors /\ WalletOf[a] = signer

(* assertPathBinding: the window of the path's own signature.              *)
InWindow(p) == PathDoc[p].from <= now /\ now < PathDoc[p].until

UsablePath(p) == paths[p] = "ACTIVE" /\ p \in attested

(* assertPathIssuerAuthority                                               *)
IssuedByAuthority(p) ==
  /\ PathDoc[p].issuer \in actors /\ UsableWorkspace(PathDoc[p].workspace)
  /\ WalletOf[PathDoc[p].issuer] = authority[PathDoc[p].workspace]

(* Mutant: an intent that was never prepared.                              *)
Unexpired(i) == now < IntentDoc[i].expires

UsableIntent(i) == i \in intents /\ now < IntentDoc[i].expires

(* The chain a delegate's request stands on: workspace, path, intent.      *)
Chain(i) ==
  LET p == IntentDoc[i].path
  IN  UsablePath(p) /\ UsableIntent(i) /\ IssuedByAuthority(p)

-------------------------------------------------------------------------------
(* The limits of a path.                                                   *)

Applicable(i) ==
  {l \in Limits(IntentDoc[i].path) :
     PathDoc[IntentDoc[i].path].limits[l].asset = IntentDoc[i].asset}

Bucket(p, l, t) ==
  LET period == PathDoc[p].limits[l].periodSeconds
  IN  (t \div period) * period

(* assertPathAuthority, but for its limits.                                *)
HasAuthority(i) == InWindow(IntentDoc[i].path) /\ Applicable(i) # {}

(* assertLimitTerms                                                        *)
TermsFit(i) ==
  \A l \in Applicable(i) :
    LET limit == PathDoc[IntentDoc[i].path].limits[l]
    IN  IntentDoc[i].amount <= limit.maxAmount
          /\ IntentDoc[i].amount <= limit.maxAmountPerTransaction

UsageFits(i) ==
  LET p == IntentDoc[i].path
  IN  \A l \in Applicable(i) :
        LET used == usage[p][l][Bucket(p, l, now)]
        IN  used.count + 1 <= PathDoc[p].limits[l].maxTransactionsPerPeriod
              /\ used.amount + IntentDoc[i].amount <= PathDoc[p].limits[l].maxAmount

(* One reservation in the current bucket of every applicable limit.        *)
Reserve(i, id) ==
  LET p == IntentDoc[i].path
  IN  /\ usage' = [usage EXCEPT ![p] =
           [l \in Limits(p) |->
              IF l \notin Applicable(i) THEN usage[p][l]
              ELSE [usage[p][l] EXCEPT ![Bucket(p, l, now)] =
                      [count |-> @.count + 1, amount |-> @.amount + IntentDoc[i].amount]]]]
      /\ reservedAt' = [reservedAt EXCEPT ![id] = now]

-------------------------------------------------------------------------------
(* Path ingestion: the attestor's answer is awaited before the             *)
(* transaction, which alone reads the store.                               *)

(* Mutant: what is stored is not compared.                                 *)
IngestibleAgain(p, status) == p \notin attested \/ paths[p] # status

Ingestible(p, status) == p \notin attested /\ paths[p] \in {"None", status}

IngestPath(p, status) ==
  /\ Ingestible(p, status)
  /\ paths' = [paths EXCEPT ![p] = status]
  /\ attested' = attested \cup {p}
  /\ UNCHANGED <<now, authority, actors, intents, proposals, decisions, pacts,
                 proofs, usage, nonces, reservedAt>>

-------------------------------------------------------------------------------
(* The transitions, one for each operation that execute accepts.           *)

RegisterWorkspace(w, signer) ==
  /\ authority[w] = NoWallet
  /\ authority' = [authority EXCEPT ![w] = signer]
  /\ UNCHANGED <<actors, paths, attested, intents, proposals, decisions, pacts,
                 proofs, usage, reservedAt>>

RegisterActor(w, a, signer) ==
  /\ UsableWorkspace(w) /\ authority[w] = signer
  /\ a \notin actors
  /\ a = OwnerOf[w] => WalletOf[a] = signer
  /\ actors' = actors \cup {a}
  /\ UNCHANGED <<authority, paths, attested, intents, proposals, decisions, pacts,
                 proofs, usage, reservedAt>>

(* Activation stores its own attestation.                                  *)
ActivatePath(p, signer) ==
  /\ UsableWorkspace(PathDoc[p].workspace)
  /\ authority[PathDoc[p].workspace] = signer
  /\ SignedBy(PathDoc[p].issuer, signer)
  /\ PathDoc[p].delegate \in actors /\ WalletOf[PathDoc[p].delegate] # NoWallet
  /\ InWindow(p)
  /\ paths[p] \in {"None", "PREPARED"}
  /\ paths' = [paths EXCEPT ![p] = "ACTIVE"]
  /\ attested' = attested \cup {p}
  /\ UNCHANGED <<authority, actors, intents, proposals, decisions, pacts, proofs,
                 usage, reservedAt>>

(* A path outside its window is not revoked.                               *)
RevokePath(p, signer) ==
  /\ UsablePath(p) /\ UsableWorkspace(PathDoc[p].workspace)
  /\ authority[PathDoc[p].workspace] = signer
  /\ SignedBy(PathDoc[p].issuer, signer)
  /\ InWindow(p)
  /\ paths' = [paths EXCEPT ![p] = "REVOKED"]
  /\ UNCHANGED <<authority, actors, attested, intents, proposals, decisions, pacts,
                 proofs, usage, reservedAt>>

PrepareIntent(i, signer) ==
  LET p == IntentDoc[i].path
  IN  /\ UsablePath(p) /\ IssuedByAuthority(p)
      /\ authority[PathDoc[p].workspace] = signer
      /\ i \notin intents
      /\ intents' = intents \cup {i}
      /\ UNCHANGED <<authority, actors, paths, attested, proposals, decisions, pacts,
                     proofs, usage, reservedAt>>

SignedByDelegate(i, signer) ==
  LET delegate == PathDoc[IntentDoc[i].path].delegate
  IN  SignedBy(delegate, signer)

(* Mutant: a proposal that was decided may be submitted again.             *)
NotPending(x) == proposals[x.id].status # "EVALUATING"

NotStored(x) == proposals[x.id] = NoProposal

SubmitProposal(x, signer) ==
  /\ Chain(x.intent)
  /\ HasAuthority(x.intent) /\ TermsFit(x.intent) /\ UsageFits(x.intent)
  /\ NotStored(x)
  /\ SignedByDelegate(x.intent, signer)
  /\ proposals' = [proposals EXCEPT ![x.id] =
                     [status |-> "EVALUATING", intent |-> x.intent]]
  /\ Reserve(x.intent, x.id)
  /\ UNCHANGED <<authority, actors, paths, attested, intents, decisions, pacts, proofs>>

(* Mutant: a stored proposal is not compared with the one to evaluate.     *)
EvaluableById(x) ==
  proposals[x.id] = NoProposal \/ proposals[x.id].status = "EVALUATING"

(* A proposal not stored yet, or stored as it is and not yet evaluated.    *)
Evaluable(x) ==
  \/ NotStored(x)
  \/ proposals[x.id] = [status |-> "EVALUATING", intent |-> x.intent]

Decide(x, decision) ==
  /\ proposals' = [proposals EXCEPT ![x.id] =
       [status |-> IF decision = "ALLOW" THEN "ALLOWED" ELSE "BLOCKED",
        intent |-> x.intent]]
  /\ decisions' = [decisions EXCEPT ![x.id] = decision]

(* A proposal that was submitted has its usage reserved.                   *)
Allow(x) ==
  /\ TermsFit(x.intent)
  /\ IntentDoc[x.intent].pact # NoPact
  /\ IF NotStored(x)
     THEN UsageFits(x.intent) /\ Reserve(x.intent, x.id)
     ELSE UNCHANGED <<usage, reservedAt>>
  /\ Decide(x, "ALLOW")

(* Over a limit: a decision too, and nothing reserved.                     *)
Block(x) ==
  /\ ~TermsFit(x.intent) \/ (NotStored(x) /\ ~UsageFits(x.intent))
  /\ Decide(x, "BLOCK")
  /\ UNCHANGED <<usage, reservedAt>>

EvaluateProposal(x, signer) ==
  /\ Chain(x.intent) /\ HasAuthority(x.intent)
  /\ SignedByDelegate(x.intent, signer)
  /\ Evaluable(x) /\ decisions[x.id] = "None"
  /\ Allow(x) \/ Block(x)
  /\ UNCHANGED <<authority, actors, paths, attested, intents, pacts, proofs>>

SignedByParty(k, signer) ==
  PactDoc[k] \subseteq actors /\ \E a \in PactDoc[k] : WalletOf[a] = signer

(* Mutant: the pact the decision allowed is not compared.                  *)
AnyPact(k, id) == proposals[id].status = "ALLOWED"

(* The decision carries the pact of the intent it was made on.             *)
AllowedPact(k, id) ==
  /\ proposals[id].status = "ALLOWED" /\ decisions[id] = "ALLOW"
  /\ IntentDoc[proposals[id].intent].pact = k

SignPact(k, id, signer) ==
  /\ proposals[id] # NoProposal /\ AllowedPact(k, id)
  /\ LET i == proposals[id].intent
     IN  Chain(i) /\ HasAuthority(i) /\ TermsFit(i)
  /\ SignedByParty(k, signer)
  /\ pacts[k] = "None"
  /\ pacts' = [pacts EXCEPT ![k] = id]
  /\ UNCHANGED <<authority, actors, paths, attested, intents, proposals, decisions,
                 proofs, usage, reservedAt>>

(* What proof.submit and proof.verify both require; neither asks for the   *)
(* path's window or its issuer.                                            *)
Provable(q, signer) ==
  LET k == ProofDoc[q].pact
      id == ProofDoc[q].proposal
  IN  /\ pacts[k] = id /\ proposals[id] # NoProposal
      /\ UsablePath(IntentDoc[proposals[id].intent].path)
      /\ UsableIntent(proposals[id].intent)
      /\ SignedByParty(k, signer)

SubmitProof(q, signer) ==
  /\ Provable(q, signer) /\ proofs[q] = "None"
  /\ proofs' = [proofs EXCEPT ![q] = "SUBMITTED"]
  /\ UNCHANGED <<authority, actors, paths, attested, intents, proposals, decisions,
                 pacts, usage, reservedAt>>

VerifyProof(q, signer) ==
  /\ Provable(q, signer) /\ proofs[q] = "SUBMITTED"
  /\ proofs' = [proofs EXCEPT ![q] = "VERIFIED"]
  /\ UNCHANGED <<authority, actors, paths, attested, intents, proposals, decisions,
                 pacts, usage, reservedAt>>

(* prepareTransition                                                       *)
PrepareTransition(r) ==
  \/ r.op = "workspace.register" /\ RegisterWorkspace(r.object, r.signer)
  \/ r.op = "actor.register" /\ RegisterActor(r.object[1], r.object[2], r.signer)
  \/ r.op = "path.activate" /\ ActivatePath(r.object, r.signer)
  \/ r.op = "path.revoke" /\ RevokePath(r.object, r.signer)
  \/ r.op = "intent.prepare" /\ PrepareIntent(r.object, r.signer)
  \/ r.op = "proposal.submit" /\ SubmitProposal(r.object, r.signer)
  \/ r.op = "proposal.evaluate" /\ EvaluateProposal(r.object, r.signer)
  \/ r.op = "pact.sign" /\ SignPact(r.object[1], r.object[2], r.signer)
  \/ r.op = "proof.submit" /\ SubmitProof(r.object, r.signer)
  \/ r.op = "proof.verify" /\ VerifyProof(r.object, r.signer)

(* The replay nonce is consumed with the transition or not at all.         *)
Execute(r) ==
  /\ <<r.signer, r.nonce>> \notin nonces
  /\ nonces' = nonces \cup {<<r.signer, r.nonce>>}
  /\ PrepareTransition(r)
  /\ UNCHANGED now

Next ==
  \/ Tick
  \/ \E document \in Attestable : IngestPath(document[1], document[2])
  \/ \E r \in Requests : Execute(r)

Spec == Init /\ [][Next]_vars

-------------------------------------------------------------------------------
(* Properties.                                                             *)

Reserved(p, l, b) ==
  {id \in ProposalIds :
     /\ reservedAt[id] >= 0
     /\ IntentDoc[proposals[id].intent].path = p
     /\ l \in Applicable(proposals[id].intent)
     /\ Bucket(p, l, reservedAt[id]) = b}

AmountOf(id) == IntentDoc[proposals[id].intent].amount

(* Every bucket of every limit of a path holds exactly the proposals that  *)
(* were submitted or evaluated in it, each once though it was submitted    *)
(* and then evaluated, perhaps in a later period, and never exceeds the    *)
(* limit (assertPathAuthority, prepareProposalEvaluate).                   *)
UsageExact ==
  \A p \in Paths : \A l \in Limits(p) : \A b \in 0 .. MaxTime :
    LET limit == PathDoc[p].limits[l]
        used  == usage[p][l][b]
    IN  /\ used.count = Cardinality(Reserved(p, l, b))
        /\ used.amount = SumFunctionOnSet([id \in Reserved(p, l, b) |-> AmountOf(id)],
                                          Reserved(p, l, b))
        /\ used.count <= limit.maxTransactionsPerPeriod
        /\ used.amount <= limit.maxAmount

(* An active pact is the one its intent names, stands on an allowed        *)
(* proposal with the usage of its amount reserved, and shares neither      *)
(* proposal nor intent with another pact: what a path's limits let through *)
(* bounds what its pacts commit (preparePact).                             *)
PactBacked ==
  \A k \in Pacts : pacts[k] # "None" =>
    LET id == pacts[k]
    IN  /\ proposals[id] # NoProposal /\ proposals[id].status = "ALLOWED"
        /\ decisions[id] = "ALLOW" /\ reservedAt[id] >= 0
        /\ IntentDoc[proposals[id].intent].pact = k
        /\ \A other \in Pacts \ {k} : pacts[other] # "None" =>
             proposals[pacts[other]].intent # proposals[id].intent

On(i, p) == IntentDoc[i].path = p

(* A revoked path authorises nothing any more, and neither an activation   *)
(* nor a new ingestion brings it back: no intent, proposal, decision,      *)
(* pact, proof or usage of it changes (preparePathRevoke, ingestPath).     *)
RevokedForGood ==
  [][\A p \in Paths : paths[p] = "REVOKED" =>
       /\ paths'[p] = "REVOKED" /\ usage'[p] = usage[p]
       /\ \A i \in Intents : On(i, p) => (i \in intents' <=> i \in intents)
       /\ \A id \in ProposalIds :
            proposals'[id] # proposals[id] => ~On(proposals'[id].intent, p)
       /\ \A k \in Pacts :
            pacts'[k] # pacts[k] => ~On(proposals[pacts'[k]].intent, p)
       /\ \A q \in Proofs :
            proofs'[q] # proofs[q] =>
              ~On(proposals[ProofDoc[q].proposal].intent, p)]_vars

(* A decision is final, and so is what it was made on: no request that is  *)
(* signed later, for the same proposal id, changes decision, intent or     *)
(* reservation (prepareProposalEvaluate, prepareProposal).                 *)
DecisionFinal ==
  [][\A id \in ProposalIds : decisions[id] # "None" =>
       /\ decisions'[id] = decisions[id] /\ proposals'[id] = proposals[id]
       /\ reservedAt'[id] = reservedAt[id]]_vars
===============================================================================
