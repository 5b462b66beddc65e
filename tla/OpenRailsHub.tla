----------------------------- MODULE OpenRailsHub -----------------------------
(***************************************************************************)
(* The Vault contract ArcOpenRailsHubV1: it escrows a payer's tokens under *)
(* an off-chain signed envelope, drips them to a recipient as block time   *)
(* passes and returns the residual.  One action per external function; a   *)
(* transaction that reverts changes nothing, so a revert is an action that *)
(* is not enabled.  A transaction is atomic and nonReentrant.              *)
(***************************************************************************)
EXTENDS Integers, Sequences, FiniteSets, Functions

CONSTANTS
  Accounts,      \* addresses that hold tokens and send transactions
  ZeroAddress,   \* address(0)
  Hub,           \* address(this)
  Cards,         \* paycard identifiers
  Channels,      \* nonce channels
  Hashes,        \* metadata hashes, ZeroHash included
  ZeroHash,      \* bytes32(0)
  Envelopes,     \* the settlement intents that payers have signed
  NoIntent,      \* intent of a card that was never opened
  Deployer,      \* first owner
  Funds,         \* tokens each account starts with
  MaxUint,       \* largest uint256
  MaxTime        \* bound on block time

Uint == 0 .. MaxUint

EnvelopeType ==
  [ signer : Accounts, paycardId : Cards, metadataHash : Hashes,
    recipient : Accounts \cup {ZeroAddress, Hub},
    totalAllocationPool : Uint,
    flowVelocityPerSecond : Uint, genesisTimestamp : Uint,
    lifespanSeconds : Uint,
    residualDeltaRecipient : Accounts \cup {ZeroAddress, Hub},
    nonceChannel : Channels, nonceValue : Uint ]

ASSUME HubAssumption ==
  /\ ZeroAddress \notin Accounts /\ Hub \notin Accounts /\ Hub # ZeroAddress
  /\ ZeroHash \in Hashes
  /\ Envelopes \subseteq EnvelopeType /\ NoIntent \notin EnvelopeType
  /\ Deployer \in Accounts
  /\ Funds \in [Accounts -> Nat]
  /\ MaxUint \in Nat /\ MaxTime \in Nat

(* A paycard id is a bytes32.                                              *)
ASSUME FiniteCards == IsFiniteSet(Cards)

VARIABLES
  now,                \* block.timestamp
  owner, pendingOwner, isPaused,
  accountNonceTracks, \* accountNonceTracks[a][ch]: next nonce of a on ch
  registry,           \* registry[c]: the PaycardRegistry struct of card c
  balance,            \* the token: balance[a], the Hub's escrow included
  intent,             \* history: the envelope that opened card c
  paid,               \* history: sum of SettlementFlushed amounts of card c
  swept               \* history: sum of ResidualDeltaReclaimed amounts of c

adminVars == <<owner, pendingOwner, isPaused>>
history   == <<intent, paid, swept>>
vars == <<now, adminVars, accountNonceTracks, registry, balance, history>>

Holders == Accounts \cup {Hub}

CardType ==
  [ payer : Accounts \cup {ZeroAddress},
    recipient : Holders \cup {ZeroAddress},
    totalAllocationPool : Uint, availableBalance : Uint,
    flowVelocityPerSecond : Uint, genesisTimestamp : Uint,
    lifespanSeconds : Uint, lastCheckpointEpoch : Nat,
    residualDeltaRecipient : Holders \cup {ZeroAddress},
    operationalStatus : {"Active", "Terminated"} ]

(* A mapping slot never written: all zero, and enum value 0 is Active.     *)
EmptyCard ==
  [ payer |-> ZeroAddress, recipient |-> ZeroAddress,
    totalAllocationPool |-> 0, availableBalance |-> 0,
    flowVelocityPerSecond |-> 0, genesisTimestamp |-> 0,
    lifespanSeconds |-> 0, lastCheckpointEpoch |-> 0,
    residualDeltaRecipient |-> ZeroAddress, operationalStatus |-> "Active" ]

TypeOK ==
  /\ now \in Nat
  /\ owner \in Accounts /\ pendingOwner \in Accounts \cup {ZeroAddress}
  /\ isPaused \in BOOLEAN
  /\ accountNonceTracks \in [Accounts -> [Channels -> Uint]]
  /\ registry \in [Cards -> CardType]
  /\ balance \in [Holders -> Nat]
  /\ intent \in [Cards -> Envelopes \cup {NoIntent}]
  /\ paid \in [Cards -> Nat] /\ swept \in [Cards -> Nat]

(* Mutant: the collision check looks at the balance, not at the payer.     *)
OpenedIfFunded(c) == registry[c].availableBalance # 0

Opened(c) == registry[c].payer # ZeroAddress

-------------------------------------------------------------------------------
(* The token, as the Hub uses it: a transfer moves the amount or reverts.  *)

Transfer(b, from, to, amount) ==
  IF from = to THEN b
  ELSE [b EXCEPT ![from] = @ - amount, ![to] = @ + amount]

-------------------------------------------------------------------------------
(* Accrual: the arithmetic of _settlePaycard.                              *)

StaticHorizon(card) == card.genesisTimestamp + card.lifespanSeconds

EvaluatedEpoch(card) ==
  IF card.lifespanSeconds = 0 THEN now
  ELSE IF now > StaticHorizon(card) THEN StaticHorizon(card) ELSE now

(* Mutant: a settlement counts from genesis again.                         *)
ElapsedSinceGenesis(card) ==
  IF EvaluatedEpoch(card) <= card.genesisTimestamp THEN 0
  ELSE EvaluatedEpoch(card) - card.genesisTimestamp

ElapsedDelta(card) ==
  IF EvaluatedEpoch(card) <= card.lastCheckpointEpoch THEN 0
  ELSE EvaluatedEpoch(card) - card.lastCheckpointEpoch

AccruedDebt(card) ==
  IF card.lifespanSeconds = 0 THEN card.availableBalance
  ELSE ElapsedDelta(card) * card.flowVelocityPerSecond

(* Mutant: settlement is whenNotPaused too.                                *)
AccrualFitsUnpaused(card) == AccruedDebt(card) <= MaxUint /\ ~isPaused

(* Checked arithmetic: a product above uint256 reverts the transaction.    *)
AccrualFits(card) == AccruedDebt(card) <= MaxUint

Payout(card) ==
  IF AccruedDebt(card) >= card.availableBalance
  THEN card.availableBalance ELSE AccruedDebt(card)

(* Mutants: the balance is not clamped, or not decreased.                  *)
SettledUnclamped(card) ==
  [card EXCEPT !.availableBalance = @ - AccruedDebt(card),
               !.lastCheckpointEpoch = EvaluatedEpoch(card)]

SettledForgetsBalance(card) ==
  [card EXCEPT !.lastCheckpointEpoch = EvaluatedEpoch(card)]

(* The card _settlePaycard leaves behind.                                  *)
Settled(card) ==
  IF AccruedDebt(card) = 0 THEN card
  ELSE [card EXCEPT
          !.availableBalance = @ - Payout(card),
          !.lastCheckpointEpoch = EvaluatedEpoch(card),
          !.operationalStatus =
             IF AccruedDebt(card) >= card.availableBalance
             THEN "Terminated" ELSE @]

-------------------------------------------------------------------------------
Init ==
  /\ now = 0
  /\ owner = Deployer /\ pendingOwner = ZeroAddress /\ isPaused = FALSE
  /\ accountNonceTracks = [a \in Accounts |-> [ch \in Channels |-> 0]]
  /\ registry = [c \in Cards |-> EmptyCard]
  /\ balance = [h \in Holders |-> IF h = Hub THEN 0 ELSE Funds[h]]
  /\ intent = [c \in Cards |-> NoIntent]
  /\ paid = [c \in Cards |-> 0] /\ swept = [c \in Cards |-> 0]

Tick ==
  /\ now < MaxTime
  /\ now' = now + 1
  /\ UNCHANGED <<adminVars, accountNonceTracks, registry, balance, history>>

TransferOwnership(sender, newOwner) ==
  /\ sender = owner /\ newOwner # ZeroAddress
  /\ pendingOwner' = newOwner
  /\ UNCHANGED <<now, owner, isPaused, accountNonceTracks, registry, balance,
                 history>>

AcceptOwnership(sender) ==
  /\ sender = pendingOwner
  /\ owner' = pendingOwner /\ pendingOwner' = ZeroAddress
  /\ UNCHANGED <<now, isPaused, accountNonceTracks, registry, balance, history>>

SetPaused(sender, paused) ==
  /\ sender = owner
  /\ isPaused' = paused
  /\ UNCHANGED <<now, owner, pendingOwner, accountNonceTracks, registry,
                 balance, history>>

(* The guards _openPaycardChannel applies before it recovers the signer.   *)
WellFormed(e) ==
  /\ e.metadataHash # ZeroHash
  /\ e.totalAllocationPool # 0 /\ e.residualDeltaRecipient # ZeroAddress
  /\ e.lifespanSeconds > 0 => /\ e.flowVelocityPerSecond # 0
                              /\ StaticHorizon(e) <= MaxUint
                              /\ now < StaticHorizon(e)

(* Mutant: the nonce is checked but not consumed.                          *)
ConsumeNonceOnlyChecked(account, channel, expected) ==
  /\ accountNonceTracks[account][channel] = expected
  /\ UNCHANGED accountNonceTracks

ConsumeNonce(account, channel, expected) ==
  /\ accountNonceTracks[account][channel] = expected /\ expected < MaxUint
  /\ accountNonceTracks' =
       [accountNonceTracks EXCEPT ![account][channel] = expected + 1]

(* Mutant: the checkpoint of a new card is the time it is opened.          *)
NewCardFromNow(e, storedRecipient) ==
  [ payer |-> e.signer, recipient |-> storedRecipient,
    totalAllocationPool |-> e.totalAllocationPool,
    availableBalance |-> e.totalAllocationPool,
    flowVelocityPerSecond |-> e.flowVelocityPerSecond,
    genesisTimestamp |-> e.genesisTimestamp,
    lifespanSeconds |-> e.lifespanSeconds, lastCheckpointEpoch |-> now,
    residualDeltaRecipient |-> e.residualDeltaRecipient,
    operationalStatus |-> "Active" ]

NewCard(e, storedRecipient) ==
  [ payer |-> e.signer, recipient |-> storedRecipient,
    totalAllocationPool |-> e.totalAllocationPool,
    availableBalance |-> e.totalAllocationPool,
    flowVelocityPerSecond |-> e.flowVelocityPerSecond,
    genesisTimestamp |-> e.genesisTimestamp,
    lifespanSeconds |-> e.lifespanSeconds,
    lastCheckpointEpoch |-> e.genesisTimestamp,
    residualDeltaRecipient |-> e.residualDeltaRecipient,
    operationalStatus |-> "Active" ]

(* _openPaycardChannel: anyone may submit the envelope.  A signature that  *)
(* does not match the submitted fields recovers an address that approved   *)
(* nothing, and transferFrom reverts.                                      *)
Provision(e, storedRecipient) ==
  /\ ~Opened(e.paycardId)
  /\ WellFormed(e)
  /\ ConsumeNonce(e.signer, e.nonceChannel, e.nonceValue)
  /\ balance[e.signer] >= e.totalAllocationPool
  /\ balance' = Transfer(balance, e.signer, Hub, e.totalAllocationPool)
  /\ registry' = [registry EXCEPT ![e.paycardId] = NewCard(e, storedRecipient)]
  /\ intent' = [intent EXCEPT ![e.paycardId] = e]
  /\ UNCHANGED <<now, adminVars, paid, swept>>

OpenPaycardChannel(e) ==
  /\ ~isPaused /\ e.recipient # ZeroAddress
  /\ Provision(e, e.recipient)

ClaimWildcardPaycardChannel(e, claimRecipient) ==
  /\ ~isPaused /\ e.recipient = ZeroAddress /\ claimRecipient # ZeroAddress
  /\ Provision(e, claimRecipient)

(* A drip on a card never opened passes the status guard and pays nothing. *)
ProcessDripSettle(c) ==
  LET card == registry[c]
  IN  /\ card.operationalStatus = "Active"
      /\ AccrualFits(card)
      /\ balance[Hub] >= Payout(card)
      /\ Payout(card) > 0
      /\ registry' = [registry EXCEPT ![c] = Settled(card)]
      /\ balance' = Transfer(balance, Hub, card.recipient, Payout(card))
      /\ paid' = [paid EXCEPT ![c] = @ + Payout(card)]
      /\ UNCHANGED <<now, adminVars, accountNonceTracks, intent, swept>>

(* Mutant: the swept balance stays on the card.                            *)
ClosedWithBalance(card) == [card EXCEPT !.operationalStatus = "Terminated"]

ClosedCard(card) ==
  [card EXCEPT !.availableBalance = 0, !.operationalStatus = "Terminated"]

(* flushResidualDelta settles first, and sweeps what that left, if any.    *)
FlushResidualDelta(sender, c) ==
  LET card == registry[c]
      next == Settled(card)
      rest == next.availableBalance
  IN  /\ sender \in {card.payer, card.recipient}
      /\ card.operationalStatus # "Terminated"
      /\ AccrualFits(card)
      /\ balance[Hub] >= card.availableBalance
      /\ registry' = [registry EXCEPT ![c] = ClosedCard(next)]
      /\ balance' = Transfer(Transfer(balance, Hub, card.recipient, Payout(card)),
                             Hub, card.residualDeltaRecipient, rest)
      /\ paid' = [paid EXCEPT ![c] = @ + Payout(card)]
      /\ swept' = [swept EXCEPT ![c] = @ + rest]
      /\ UNCHANGED <<now, adminVars, accountNonceTracks, intent>>

Administer ==
  \E sender \in Accounts :
    \/ \E newOwner \in Accounts : TransferOwnership(sender, newOwner)
    \/ AcceptOwnership(sender)
    \/ \E paused \in BOOLEAN : SetPaused(sender, paused)

Next ==
  \/ Tick
  \/ Administer
  \/ \E e \in Envelopes :
       \/ OpenPaycardChannel(e)
       \/ \E claimant \in Holders : ClaimWildcardPaycardChannel(e, claimant)
  \/ \E c \in Cards :
       \/ ProcessDripSettle(c)
       \/ \E sender \in Accounts : FlushResidualDelta(sender, c)

Spec == Init /\ [][Next]_vars

(* Blocks keep coming, and somebody drips every card that owes something:  *)
(* a drip is permissionless, so its recipient may, or a keeper; nobody has *)
(* to flush and nobody has to open.                                        *)
FairSpec == Spec /\ WF_vars(Tick) /\ \A c \in Cards : WF_vars(ProcessDripSettle(c))

-------------------------------------------------------------------------------
(* Properties.                                                             *)

TermsOf(e) ==
  [ pool |-> e.totalAllocationPool, velocity |-> e.flowVelocityPerSecond,
    genesis |-> e.genesisTimestamp, lifespan |-> e.lifespanSeconds ]

ASSUME NoTermsAssumption == \A e \in Envelopes : TermsOf(e) # NoIntent

(* What card c owes, in the words of the abstract promise.                 *)
CardTerms(c) == IF intent[c] = NoIntent THEN NoIntent ELSE TermsOf(intent[c])

Promise == INSTANCE EscrowPromise
  WITH Terms <- {TermsOf(e) : e \in Envelopes}, NoTerms <- NoIntent,
       terms <- [c \in Cards |-> CardTerms(c)], returned <- swept

(* The Vault implements the escrow promise: however many drips are sent,   *)
(* in whatever order and at whatever time, a settlement or a flush leaves  *)
(* the recipient with exactly what the clock entitles it to, and a flush   *)
(* returns exactly the rest (_settlePaycard, flushResidualDelta).          *)
KeepsPromise == Promise!Spec

(* Every token of a card's pool is paid, swept or still available, and a   *)
(* closed card holds nothing back (_settlePaycard, flushResidualDelta).    *)
PoolConserved ==
  \A c \in Cards : intent[c] # NoIntent =>
    /\ paid[c] + swept[c] + registry[c].availableBalance
         = intent[c].totalAllocationPool
    /\ registry[c].operationalStatus = "Terminated"
         <=> registry[c].availableBalance = 0

(* The registry of an open card keeps the terms that were signed, in the   *)
(* slot that was signed, with a spent nonce and nowhere a zero address; a  *)
(* wildcard alone may get another recipient.  A card that was never opened *)
(* is blank (_openPaycardChannel).                                         *)
CardsRecorded ==
  \A c \in Cards :
    LET card == registry[c]
        e == intent[c]
    IN  IF e = NoIntent THEN card = EmptyCard /\ paid[c] = 0 /\ swept[c] = 0
        ELSE /\ e.paycardId = c /\ card.payer = e.signer
             /\ card.recipient \in Holders
             /\ e.recipient # ZeroAddress => card.recipient = e.recipient
             /\ card.residualDeltaRecipient \in Holders
             /\ card.residualDeltaRecipient = e.residualDeltaRecipient
             /\ card.totalAllocationPool = e.totalAllocationPool
             /\ card.flowVelocityPerSecond = e.flowVelocityPerSecond
             /\ card.genesisTimestamp = e.genesisTimestamp
             /\ card.lifespanSeconds = e.lifespanSeconds
             /\ e.nonceValue < accountNonceTracks[e.signer][e.nonceChannel]

(* The checkpoint of a stream stays between genesis and horizon, is not    *)
(* ahead of the clock, and an active stream has been paid exactly up to    *)
(* it; a one-time payment is paid whole or not at all, and nothing returns *)
(* from an active card (_settlePaycard, flushResidualDelta).               *)
StreamsOnSchedule ==
  \A c \in Cards :
    LET card == registry[c]
        due == card.flowVelocityPerSecond
                 * (card.lastCheckpointEpoch - card.genesisTimestamp)
    IN  intent[c] # NoIntent =>
          /\ card.operationalStatus = "Active" => swept[c] = 0
          /\ IF card.lifespanSeconds = 0
             THEN card.operationalStatus = "Active" => paid[c] = 0
             ELSE /\ card.lastCheckpointEpoch
                       \in card.genesisTimestamp .. StaticHorizon(card)
                  /\ \/ card.lastCheckpointEpoch = card.genesisTimestamp
                     \/ card.lastCheckpointEpoch <= now
                  /\ paid[c] <= due
                  /\ card.operationalStatus = "Active" => paid[c] = due

(* The inductive invariant behind the theorems of OpenRailsHubProofs.      *)
IInv == TypeOK /\ CardsRecorded /\ PoolConserved /\ StreamsOnSchedule

(* The recipient is never ahead of the clock, whatever the checkpoint      *)
(* arithmetic and the horizon clamp of _settlePaycard make of the drips.   *)
NeverAhead ==
  \A c \in Cards : intent[c] # NoIntent =>
    paid[c] <= Promise!Entitled(CardTerms(c), now)

(* The Hub holds at least the sum of what its cards can still claim, even  *)
(* when a residual goes back to the Hub's own address.                     *)
EscrowSolvent ==
  balance[Hub] >= SumFunction([c \in Cards |-> registry[c].availableBalance])

(* One signed nonce funds one card: the nonce an envelope carries cannot   *)
(* open a second card, on the same id or another one (_consumeNonce).      *)
NonceFundsOneCard ==
  \A c, d \in Cards :
    /\ intent[c] # NoIntent /\ intent[d] # NoIntent
    /\ intent[c].signer = intent[d].signer
    /\ intent[c].nonceChannel = intent[d].nonceChannel
    /\ intent[c].nonceValue = intent[d].nonceValue
    => c = d

(* A terminated card is closed for good: its id cannot be opened again and *)
(* no later drip or flush moves a token of it.                             *)
TerminatedForever ==
  [][\A c \in Cards : registry[c].operationalStatus = "Terminated" =>
       registry'[c] = registry[c] /\ paid'[c] = paid[c] /\ swept'[c] = swept[c]]_vars

(* An envelope whose whole stream fits a uint256.                          *)
Representable(e) == e.lifespanSeconds * e.flowVelocityPerSecond <= MaxUint

(* No settlement of a representable stream reverts: neither the checked    *)
(* product of _settlePaycard nor the Hub's token balance ever stops a drip *)
(* or a flush of an active card.                                           *)
SettlementCannotRevert ==
  \A c \in Cards :
    /\ intent[c] # NoIntent /\ Representable(intent[c])
    /\ registry[c].operationalStatus = "Active"
    => AccrualFits(registry[c]) /\ balance[Hub] >= registry[c].availableBalance

Owing(c) == intent[c] # NoIntent /\ Representable(intent[c])

PaidOut(c) ==
  \/ registry[c].operationalStatus = "Terminated"
  \/ /\ intent[c] # NoIntent
     /\ paid[c] = Promise!Entitled(CardTerms(c), StaticHorizon(intent[c]))

(* With blocks and the keeper's drips alone, paused or not, whatever an    *)
(* open representable stream owes over its lifespan is paid, unless a      *)
(* flush closes it first (processDripSettle is not whenNotPaused).         *)
StreamsPaidOut == \A c \in Cards : Owing(c) ~> PaidOut(c)
===============================================================================
