-------------------------- MODULE OpenRailsHubProofs --------------------------
(***************************************************************************)
(* Theorems about the Vault for every set of accounts, cards and signed    *)
(* envelopes and every width of its integers.                              *)
(***************************************************************************)
EXTENDS LoggedHub, FiniteSums, SequenceTheorems, TLAPS

(* A product of naturals is a natural, and is monotonic: the two facts     *)
(* about the accrual product elapsedDelta * flowVelocityPerSecond.         *)
LEMMA ProductMonotonic ==
  ASSUME NEW v \in Nat, NEW a \in Nat, NEW b \in Nat, a <= b
  PROVE  v * a \in Nat /\ v * b \in Nat /\ v * a <= v * b
<1>1. v * a \in Nat /\ v * b \in Nat
  BY SMT
<1>2. v * (b - a) >= 0
  BY SMT
<1>3. v * b = v * a + v * (b - a)
  BY SMT
<1> QED
  BY <1>1, <1>2, <1>3, SMT

(* The accrual of any well-typed card is a natural, and a payout never     *)
(* exceeds the balance (_settlePaycard).                                   *)
LEMMA AccrualType ==
  ASSUME NEW card \in CardType, now \in Nat, HubAssumption
  PROVE  /\ card.availableBalance \in Nat /\ card.flowVelocityPerSecond \in Nat
         /\ card.genesisTimestamp \in Nat /\ card.lifespanSeconds \in Nat
         /\ card.lastCheckpointEpoch \in Nat
         /\ StaticHorizon(card) \in Nat /\ EvaluatedEpoch(card) \in Nat
         /\ ElapsedDelta(card) \in Nat /\ AccruedDebt(card) \in Nat
         /\ Payout(card) \in 0 .. card.availableBalance
<1>1. /\ card.availableBalance \in Nat /\ card.flowVelocityPerSecond \in Nat
      /\ card.genesisTimestamp \in Nat /\ card.lifespanSeconds \in Nat
      /\ card.lastCheckpointEpoch \in Nat
  BY DEF CardType, Uint, HubAssumption
<1>2. StaticHorizon(card) \in Nat
  BY <1>1 DEF StaticHorizon
<1>3. EvaluatedEpoch(card) \in Nat
  BY <1>2 DEF EvaluatedEpoch
<1>4. ElapsedDelta(card) \in Nat
  BY <1>1, <1>3 DEF ElapsedDelta
<1>5. ElapsedDelta(card) * card.flowVelocityPerSecond \in Nat
  BY <1>1, <1>4, ProductMonotonic
<1>6. AccruedDebt(card) \in Nat
  BY <1>1, <1>5 DEF AccruedDebt
<1>7. Payout(card) \in 0 .. card.availableBalance
  BY <1>1, <1>6 DEF Payout
<1> QED
  BY <1>1, <1>2, <1>3, <1>4, <1>6, <1>7

(* What a settlement does to a card: the balance loses the payout, the     *)
(* checkpoint advances, a drained card terminates, the terms stay.         *)
LEMMA SettledCard ==
  ASSUME NEW card \in CardType, now \in Nat, HubAssumption
  PROVE  /\ Settled(card) \in CardType
         /\ Settled(card).availableBalance
              = card.availableBalance - Payout(card)
         /\ Settled(card).lastCheckpointEpoch =
              IF AccruedDebt(card) = 0 THEN card.lastCheckpointEpoch
              ELSE EvaluatedEpoch(card)
         /\ Settled(card).operationalStatus =
              IF /\ AccruedDebt(card) # 0
                 /\ AccruedDebt(card) >= card.availableBalance
              THEN "Terminated" ELSE card.operationalStatus
         /\ \A f \in {"payer", "recipient", "totalAllocationPool",
                      "flowVelocityPerSecond", "genesisTimestamp",
                      "lifespanSeconds", "residualDeltaRecipient"} :
              Settled(card)[f] = card[f]
<1>0. /\ AccruedDebt(card) \in Nat /\ EvaluatedEpoch(card) \in Nat
      /\ Payout(card) \in 0 .. card.availableBalance
      /\ card.availableBalance \in Nat
  BY AccrualType
<1>1. card.availableBalance - Payout(card) \in Uint
  BY <1>0, HubAssumption DEF CardType, Uint, HubAssumption
<1>2. CASE AccruedDebt(card) = 0
  <2>1. Payout(card) = 0
    BY <1>0, <1>2 DEF Payout
  <2>2. Settled(card) = card
    BY <1>2 DEF Settled
  <2> QED
    BY <1>0, <1>2, <2>1, <2>2
<1>3. CASE AccruedDebt(card) # 0
  BY <1>0, <1>1, <1>3 DEF Settled, CardType
<1> QED
  BY <1>2, <1>3

(* Closing a card empties it and keeps its terms (flushResidualDelta).     *)
LEMMA ClosedCardType ==
  ASSUME NEW card \in CardType, HubAssumption
  PROVE  ClosedCard(card) \in CardType
<1>1. 0 \in Uint
  BY DEF Uint, HubAssumption
<1> QED
  BY <1>1 DEF ClosedCard, CardType

(* The token never creates a debt: a covered transfer keeps every balance  *)
(* a natural and takes the amount from the sender at most.                 *)
LEMMA TransferType ==
  ASSUME NEW b \in [Holders -> Nat], NEW from \in Holders, NEW to \in Holders,
         NEW amount \in Nat, amount <= b[from]
  PROVE  /\ Transfer(b, from, to, amount) \in [Holders -> Nat]
         /\ Transfer(b, from, to, amount)[from] >= b[from] - amount
BY DEF Transfer

-------------------------------------------------------------------------------
(* The inductive invariant: one lemma per action that touches a card.      *)

LEMMA InitInvariant == Init => IInv
<1> SUFFICES ASSUME Init PROVE IInv
  OBVIOUS
<1> USE HubAssumption
<1>1. EmptyCard \in CardType
  BY DEF EmptyCard, CardType, Uint, Holders, HubAssumption
<1>2. TypeOK
  <2>1. balance \in [Holders -> Nat]
    BY DEF Init, Holders, HubAssumption
  <2>2. accountNonceTracks \in [Accounts -> [Channels -> Uint]]
    BY DEF Init, Uint, HubAssumption
  <2> QED
    BY <1>1, <2>1, <2>2 DEF Init, TypeOK, HubAssumption
<1>3. \A c \in Cards : intent[c] = NoIntent
  BY DEF Init
<1>4. CardsRecorded
  BY <1>3 DEF Init, CardsRecorded
<1>5. PoolConserved /\ StreamsOnSchedule
  BY <1>3 DEF PoolConserved, StreamsOnSchedule
<1> QED
  BY <1>2, <1>4, <1>5 DEF IInv

(* A clock tick only widens what checkpoints may be.                       *)
LEMMA TickPreserves == IInv /\ Tick => IInv'
<1> SUFFICES ASSUME IInv, Tick PROVE IInv'
  OBVIOUS
<1>1. /\ now \in Nat /\ now' = now + 1
      /\ UNCHANGED <<adminVars, accountNonceTracks, registry, balance, history>>
  BY DEF Tick, IInv, TypeOK
<1>2. TypeOK' /\ CardsRecorded' /\ PoolConserved'
  BY <1>1 DEF IInv, TypeOK, CardsRecorded, PoolConserved, adminVars, history
<1>3. StreamsOnSchedule'
  <2> SUFFICES ASSUME NEW c \in Cards
               PROVE  (registry[c].lastCheckpointEpoch <= now
                         => registry[c].lastCheckpointEpoch <= now + 1)
    BY <1>1 DEF IInv, StreamsOnSchedule, StaticHorizon, history
  <2>1. registry[c].lastCheckpointEpoch \in Nat
    BY DEF IInv, TypeOK, CardType
  <2> QED
    BY <1>1, <2>1
<1> QED
  BY <1>2, <1>3 DEF IInv

(* Ownership and the pause flag touch no card.                             *)
LEMMA AdministerPreserves == IInv /\ Administer => IInv'
<1> SUFFICES ASSUME IInv, Administer PROVE IInv'
  OBVIOUS
<1>1. UNCHANGED <<now, accountNonceTracks, registry, balance, history>>
  BY DEF Administer, TransferOwnership, AcceptOwnership, SetPaused
<1>2. /\ owner' \in Accounts /\ pendingOwner' \in Accounts \cup {ZeroAddress}
      /\ isPaused' \in BOOLEAN
  BY HubAssumption DEF Administer, TransferOwnership, AcceptOwnership, SetPaused,
                       IInv, TypeOK, HubAssumption
<1>3. TypeOK'
  BY <1>1, <1>2 DEF IInv, TypeOK, history
<1>4. CardsRecorded' /\ PoolConserved' /\ StreamsOnSchedule'
  BY <1>1 DEF IInv, CardsRecorded, PoolConserved, StreamsOnSchedule,
              StaticHorizon, history
<1> QED
  BY <1>3, <1>4 DEF IInv

(* An open writes one card, and spends one nonce, out of the signed terms. *)
LEMMA ProvisionPreserves ==
  ASSUME IInv, NEW e \in Envelopes, NEW r \in Holders,
         e.recipient # ZeroAddress => r = e.recipient, Provision(e, r)
  PROVE  IInv'
<1> DEFINE c == e.paycardId
           ch == e.nonceChannel
<1> USE HubAssumption
<1>1. /\ e \in EnvelopeType /\ c \in Cards /\ e.signer \in Accounts
      /\ ch \in Channels /\ e.nonceValue \in Uint
      /\ e.totalAllocationPool \in Uint /\ e.lifespanSeconds \in Uint
      /\ e.flowVelocityPerSecond \in Uint /\ e.genesisTimestamp \in Uint
      /\ e.residualDeltaRecipient \in Holders
  <2>1. e \in EnvelopeType
    BY DEF HubAssumption
  <2>2. e.residualDeltaRecipient # ZeroAddress
    BY DEF Provision, WellFormed
  <2> QED
    BY <2>1, <2>2 DEF EnvelopeType, Holders
<1>2. NewCard(e, r) \in CardType
  BY <1>1 DEF NewCard, CardType, Uint, HubAssumption
<1>3. /\ registry' = [registry EXCEPT ![c] = NewCard(e, r)]
      /\ intent' = [intent EXCEPT ![c] = e]
      /\ UNCHANGED <<now, adminVars, paid, swept>>
  BY DEF Provision
<1>4. /\ accountNonceTracks[e.signer][ch] = e.nonceValue /\ e.nonceValue < MaxUint
      /\ accountNonceTracks' =
           [accountNonceTracks EXCEPT ![e.signer][ch] = e.nonceValue + 1]
      /\ accountNonceTracks \in [Accounts -> [Channels -> Uint]]
  BY DEF Provision, ConsumeNonce, IInv, TypeOK
<1>5. /\ registry \in [Cards -> CardType] /\ intent \in [Cards -> Envelopes \cup {NoIntent}]
      /\ paid \in [Cards -> Nat] /\ swept \in [Cards -> Nat] /\ now \in Nat
      /\ balance \in [Holders -> Nat]
  BY DEF IInv, TypeOK
<1>6. intent[c] = NoIntent /\ paid[c] = 0 /\ swept[c] = 0
  <2>1. registry[c].payer = ZeroAddress
    BY DEF Provision, Opened
  <2>2. intent[c] # NoIntent => intent[c].signer \in Accounts
    BY <1>1, <1>5 DEF HubAssumption, EnvelopeType
  <2> QED
    BY <1>1, <2>1, <2>2 DEF IInv, CardsRecorded, HubAssumption
<1>7. e # NoIntent
  BY <1>1 DEF HubAssumption
<1>8. \A a \in Accounts, k \in Channels :
        accountNonceTracks'[a][k] \in Uint
          /\ accountNonceTracks'[a][k] >= accountNonceTracks[a][k]
  BY <1>1, <1>4 DEF Uint, HubAssumption
<1>9. TypeOK'
  <2>1. accountNonceTracks' \in [Accounts -> [Channels -> Uint]]
    BY <1>4, <1>1 DEF Uint, HubAssumption
  <2>2. balance' \in [Holders -> Nat]
    <3>1. e.totalAllocationPool \in Nat /\ e.totalAllocationPool <= balance[e.signer]
      BY <1>1, <1>5 DEF Provision, Uint, Holders, HubAssumption
    <3> QED
      BY <1>1, <1>5, <3>1, TransferType DEF Provision, Holders
  <2>3. registry' \in [Cards -> CardType]
    BY <1>1, <1>2, <1>3, <1>5
  <2>4. intent' \in [Cards -> Envelopes \cup {NoIntent}]
    BY <1>1, <1>3, <1>5
  <2> QED
    BY <1>3, <2>1, <2>2, <2>3, <2>4 DEF IInv, TypeOK, adminVars
<1>10. CardsRecorded'
  <2> SUFFICES ASSUME NEW d \in Cards
               PROVE  CardsRecorded!(d)'
    BY DEF CardsRecorded
  <2>1. CASE d = c
    <3>1. registry'[d] = NewCard(e, r) /\ intent'[d] = e
      BY <1>1, <1>3, <1>5, <2>1
    <3>2. e.nonceValue < accountNonceTracks'[e.signer][ch]
      BY <1>1, <1>4 DEF Uint, HubAssumption
    <3> QED
      BY <1>1, <1>7, <2>1, <3>1, <3>2 DEF NewCard
  <2>2. CASE d # c
    <3>1. registry'[d] = registry[d] /\ intent'[d] = intent[d]
      BY <1>3, <1>5, <2>2
    <3>2. CardsRecorded!(d)
      BY DEF IInv, CardsRecorded
    <3>3. intent[d] # NoIntent =>
             intent[d].signer \in Accounts /\ intent[d].nonceChannel \in Channels
             /\ intent[d].nonceValue \in Uint
      BY <1>5 DEF HubAssumption, EnvelopeType
    <3>4. intent[d] # NoIntent =>
            intent[d].nonceValue
              < accountNonceTracks'[intent[d].signer][intent[d].nonceChannel]
      BY <1>4, <1>8, <3>2, <3>3 DEF Uint, HubAssumption
    <3> QED
      BY <1>3, <3>1, <3>2, <3>4
  <2> QED
    BY <2>1, <2>2
<1>11. PoolConserved'
  <2> SUFFICES ASSUME NEW d \in Cards, intent'[d] # NoIntent
               PROVE  PoolConserved!(d)!2'
    BY DEF PoolConserved
  <2>1. CASE d = c
    <3>1. registry'[d] = NewCard(e, r) /\ intent'[d] = e
      BY <1>1, <1>3, <1>5, <2>1
    <3>2. e.totalAllocationPool # 0
      BY DEF Provision, WellFormed
    <3> QED
      BY <1>1, <1>3, <1>6, <2>1, <3>1, <3>2 DEF NewCard, Uint, HubAssumption
  <2>2. CASE d # c
    BY <1>3, <1>5, <2>2 DEF IInv, PoolConserved
  <2> QED
    BY <2>1, <2>2
<1>12. StreamsOnSchedule'
  <2> SUFFICES ASSUME NEW d \in Cards, intent'[d] # NoIntent
               PROVE  StreamsOnSchedule!(d)'
    BY DEF StreamsOnSchedule
  <2>1. CASE d = c
    <3>1. registry'[d] = NewCard(e, r) /\ intent'[d] = e
      BY <1>1, <1>3, <1>5, <2>1
    <3>2. /\ e.genesisTimestamp \in Nat /\ e.lifespanSeconds \in Nat
          /\ e.flowVelocityPerSecond \in Nat
      BY <1>1 DEF Uint, HubAssumption
    <3>3. e.flowVelocityPerSecond * (e.genesisTimestamp - e.genesisTimestamp) = 0
      BY <3>2
    <3> QED
      BY <1>3, <1>6, <2>1, <3>1, <3>2, <3>3 DEF NewCard, StaticHorizon
  <2>2. CASE d # c
    <3>1. registry'[d] = registry[d] /\ intent'[d] = intent[d]
      BY <1>3, <1>5, <2>2
    <3> QED
      BY <1>3, <3>1 DEF IInv, StreamsOnSchedule, StaticHorizon
  <2> QED
    BY <2>1, <2>2
<1> QED
  BY <1>9, <1>10, <1>11, <1>12 DEF IInv

(* A settlement moves the checkpoint along the stream's window and accrues *)
(* exactly the seconds between the two checkpoints.                        *)
LEMMA SettledOnSchedule ==
  ASSUME NEW card \in CardType, now \in Nat, HubAssumption,
         card.lifespanSeconds # 0,
         card.lastCheckpointEpoch \in card.genesisTimestamp .. StaticHorizon(card),
         \/ card.lastCheckpointEpoch = card.genesisTimestamp
         \/ card.lastCheckpointEpoch <= now
  PROVE  LET g == card.genesisTimestamp
             v == card.flowVelocityPerSecond
             cp == Settled(card).lastCheckpointEpoch
         IN  /\ cp \in g .. StaticHorizon(card) /\ (cp = g \/ cp <= now)
             /\ v * (cp - g) = v * (card.lastCheckpointEpoch - g) + AccruedDebt(card)
             /\ v * (cp - g) \in Nat
<1> DEFINE g == card.genesisTimestamp
           v == card.flowVelocityPerSecond
           cp0 == card.lastCheckpointEpoch
           cp == Settled(card).lastCheckpointEpoch
<1>0. /\ g \in Nat /\ v \in Nat /\ cp0 \in Nat /\ card.lifespanSeconds \in Nat
      /\ StaticHorizon(card) = g + card.lifespanSeconds
      /\ EvaluatedEpoch(card) \in Nat /\ ElapsedDelta(card) \in Nat
      /\ AccruedDebt(card) = ElapsedDelta(card) * v /\ AccruedDebt(card) \in Nat
  BY AccrualType DEF StaticHorizon, AccruedDebt
<1>1. cp = IF AccruedDebt(card) = 0 THEN cp0 ELSE EvaluatedEpoch(card)
  BY SettledCard
<1>2. CASE AccruedDebt(card) = 0
  <2>1. cp = cp0
    BY <1>1, <1>2
  <2>2. cp0 - g \in Nat
    BY <1>0
  <2>3. v * (cp0 - g) \in Nat
    BY <1>0, <2>2, ProductMonotonic
  <2> QED
    BY <1>0, <1>2, <2>1, <2>3
<1>3. CASE AccruedDebt(card) # 0
  <2>1. ElapsedDelta(card) # 0
    BY <1>0, <1>3
  <2>2. /\ cp = EvaluatedEpoch(card) /\ cp > cp0
        /\ ElapsedDelta(card) = cp - cp0
    BY <1>0, <1>1, <1>3, <2>1 DEF ElapsedDelta
  <2>3. cp <= now /\ cp <= StaticHorizon(card)
    BY <1>0, <2>2 DEF EvaluatedEpoch
  <2>4. v * (cp - g) = v * (cp0 - g) + (cp - cp0) * v
    BY <1>0, <2>2
  <2>5. cp - g \in Nat
    BY <1>0, <2>2
  <2>6. v * (cp - g) \in Nat
    BY <1>0, <2>5, ProductMonotonic
  <2> QED
    BY <1>0, <2>2, <2>3, <2>4, <2>6
<1> QED
  BY <1>2, <1>3

(* What drips and flushes have in common: an active card is settled and,   *)
(* if it is flushed, closed: what the settlement left is swept.            *)
LeftBy(flush, card) ==
  IF flush THEN ClosedCard(Settled(card)) ELSE Settled(card)

SweptBy(flush, card) == IF flush THEN Settled(card).availableBalance ELSE 0

LEMMA SettlementPreserves ==
  ASSUME IInv, NEW c \in Cards, intent[c] # NoIntent,
         registry[c].operationalStatus = "Active", NEW flush \in BOOLEAN,
         registry' = [registry EXCEPT ![c] = LeftBy(flush, registry[c])],
         paid' = [paid EXCEPT ![c] = @ + Payout(registry[c])],
         swept' = [swept EXCEPT ![c] = @ + SweptBy(flush, registry[c])],
         UNCHANGED <<now, accountNonceTracks, intent>>
  PROVE  /\ registry' \in [Cards -> CardType]
         /\ paid' \in [Cards -> Nat] /\ swept' \in [Cards -> Nat]
         /\ CardsRecorded' /\ PoolConserved' /\ StreamsOnSchedule'
<1> DEFINE card == registry[c]
           settled == Settled(card)
           next == LeftBy(flush, card)
           rest == SweptBy(flush, card)
<1> USE HubAssumption
<1>1. /\ registry \in [Cards -> CardType] /\ now \in Nat
      /\ paid \in [Cards -> Nat] /\ swept \in [Cards -> Nat]
      /\ card \in CardType
  BY DEF IInv, TypeOK
<1>2. /\ settled \in CardType
      /\ settled.availableBalance = card.availableBalance - Payout(card)
      /\ settled.availableBalance \in Nat
      /\ settled.lastCheckpointEpoch =
           IF AccruedDebt(card) = 0 THEN card.lastCheckpointEpoch
           ELSE EvaluatedEpoch(card)
      /\ settled.operationalStatus =
           IF AccruedDebt(card) # 0 /\ AccruedDebt(card) >= card.availableBalance
           THEN "Terminated" ELSE card.operationalStatus
      /\ settled.payer = card.payer /\ settled.recipient = card.recipient
      /\ settled.totalAllocationPool = card.totalAllocationPool
      /\ settled.flowVelocityPerSecond = card.flowVelocityPerSecond
      /\ settled.genesisTimestamp = card.genesisTimestamp
      /\ settled.lifespanSeconds = card.lifespanSeconds
      /\ settled.residualDeltaRecipient = card.residualDeltaRecipient
  BY <1>1, SettledCard, AccrualType
<1>3. /\ next \in CardType /\ rest \in Nat /\ next.availableBalance \in Nat
      /\ next.availableBalance + rest = settled.availableBalance
      /\ next.payer = card.payer /\ next.recipient = card.recipient
      /\ next.totalAllocationPool = card.totalAllocationPool
      /\ next.flowVelocityPerSecond = card.flowVelocityPerSecond
      /\ next.genesisTimestamp = card.genesisTimestamp
      /\ next.lifespanSeconds = card.lifespanSeconds
      /\ next.residualDeltaRecipient = card.residualDeltaRecipient
      /\ next.lastCheckpointEpoch = settled.lastCheckpointEpoch
      /\ next.operationalStatus \in {settled.operationalStatus, "Terminated"}
      /\ next.operationalStatus = "Active" => next = settled /\ rest = 0
      /\ \/ next.operationalStatus = settled.operationalStatus
            /\ next.availableBalance = settled.availableBalance
         \/ next.operationalStatus = "Terminated" /\ next.availableBalance = 0
  <2>1. CASE flush
    <3>1. next = [settled EXCEPT !.availableBalance = 0,
                                 !.operationalStatus = "Terminated"]
      BY <2>1 DEF LeftBy, ClosedCard
    <3>2. next \in CardType
      BY <1>2, <2>1, ClosedCardType DEF LeftBy
    <3>3. /\ next.availableBalance = 0 /\ next.operationalStatus = "Terminated"
          /\ next.payer = settled.payer /\ next.recipient = settled.recipient
          /\ next.totalAllocationPool = settled.totalAllocationPool
          /\ next.flowVelocityPerSecond = settled.flowVelocityPerSecond
          /\ next.genesisTimestamp = settled.genesisTimestamp
          /\ next.lifespanSeconds = settled.lifespanSeconds
          /\ next.residualDeltaRecipient = settled.residualDeltaRecipient
          /\ next.lastCheckpointEpoch = settled.lastCheckpointEpoch
      BY <1>2, <3>1 DEF CardType
    <3>4. rest = settled.availableBalance
      BY <2>1 DEF SweptBy
    <3> HIDE DEF settled, next, rest
    <3> QED
      BY <1>2, <3>2, <3>3, <3>4
  <2>2. CASE ~flush
    <3>1. next = settled /\ rest = 0
      BY <2>2 DEF LeftBy, SweptBy
    <3> HIDE DEF settled, next, rest
    <3> QED
      BY <1>2, <3>1
  <2> QED
    BY <2>1, <2>2
<1>4. /\ card.availableBalance \in Nat /\ Payout(card) \in 0 .. card.availableBalance
      /\ AccruedDebt(card) \in Nat
  BY <1>1, AccrualType
<1>5. \A d \in Cards : /\ d = c => registry'[d] = next
                                   /\ paid'[d] = paid[c] + Payout(card)
                                   /\ swept'[d] = swept[c] + rest
                       /\ d # c => registry'[d] = registry[d]
                                   /\ paid'[d] = paid[d] /\ swept'[d] = swept[d]
  BY <1>1
<1>6. /\ registry' \in [Cards -> CardType]
      /\ paid' \in [Cards -> Nat] /\ swept' \in [Cards -> Nat]
  BY <1>1, <1>3, <1>4
<1>7. CardsRecorded'
  <2> SUFFICES ASSUME NEW d \in Cards
               PROVE  CardsRecorded!(d)'
    BY DEF CardsRecorded
  <2>1. CardsRecorded!(d)
    BY DEF IInv, CardsRecorded
  <2>2. CASE d # c
    BY <1>5, <2>1, <2>2
  <2>3. CASE d = c
    BY <1>3, <1>5, <2>1, <2>3
  <2> QED
    BY <2>2, <2>3
<1>8. PoolConserved'
  <2> SUFFICES ASSUME NEW d \in Cards, intent[d] # NoIntent
               PROVE  PoolConserved!(d)!2'
    BY DEF PoolConserved
  <2>1. CASE d # c
    BY <1>5, <2>1 DEF IInv, PoolConserved
  <2>2. CASE d = c
    <3>1. /\ paid[c] + swept[c] + card.availableBalance
               = intent[c].totalAllocationPool
          /\ card.availableBalance # 0
      BY DEF IInv, PoolConserved
    <3>2. paid[c] \in Nat /\ swept[c] \in Nat
      BY <1>1
    <3>3. paid'[c] + swept'[c] + next.availableBalance
            = intent[c].totalAllocationPool
      BY <1>2, <1>3, <1>4, <1>5, <3>1, <3>2
    <3>4. settled.operationalStatus = "Terminated" <=> settled.availableBalance = 0
      BY <1>2, <1>4, <3>1 DEF Payout
    <3>5. next.operationalStatus = "Terminated" <=> next.availableBalance = 0
      BY <1>3, <3>4
    <3> QED
      BY <1>5, <2>2, <3>3, <3>5
  <2> QED
    BY <2>1, <2>2
<1>9. StreamsOnSchedule'
  <2> SUFFICES ASSUME NEW d \in Cards, intent[d] # NoIntent
               PROVE  StreamsOnSchedule!(d)'
    BY DEF StreamsOnSchedule
  <2>1. CASE d # c
    BY <1>5, <2>1 DEF IInv, StreamsOnSchedule, StaticHorizon
  <2>2. CASE d = c /\ card.lifespanSeconds = 0
    <3>1. next.operationalStatus # "Active"
      <4>1. card.availableBalance # 0
        BY DEF IInv, PoolConserved
      <4>2. AccruedDebt(card) = card.availableBalance
        BY <2>2 DEF AccruedDebt
      <4>3. settled.operationalStatus = "Terminated"
        BY <1>2, <1>4, <4>1, <4>2
      <4> QED
        BY <1>3, <4>3
    <3> QED
      BY <1>3, <1>5, <2>2, <3>1
  <2>3. CASE d = c /\ card.lifespanSeconds # 0
    <3> DEFINE g == card.genesisTimestamp
               v == card.flowVelocityPerSecond
               cp == settled.lastCheckpointEpoch
    <3>1. /\ card.lastCheckpointEpoch \in g .. StaticHorizon(card)
          /\ card.lastCheckpointEpoch = g \/ card.lastCheckpointEpoch <= now
          /\ paid[c] = v * (card.lastCheckpointEpoch - g)
      BY <2>3 DEF IInv, StreamsOnSchedule
    <3>2. /\ cp \in g .. StaticHorizon(card) /\ (cp = g \/ cp <= now)
          /\ v * (cp - g) = paid[c] + AccruedDebt(card)
      BY <1>1, <2>3, <3>1, SettledOnSchedule
    <3>3. paid'[c] <= v * (cp - g)
      BY <1>1, <1>4, <1>5, <3>2 DEF Payout
    <3>4. next.operationalStatus = "Active" => Payout(card) = AccruedDebt(card)
      BY <1>2, <1>3, <1>4 DEF Payout
    <3>5. next.operationalStatus = "Active" => paid'[c] = v * (cp - g)
      BY <1>5, <3>2, <3>4
    <3>6. StaticHorizon(next) = StaticHorizon(card)
      BY <1>3 DEF StaticHorizon
    <3>7. next.operationalStatus = "Active" => swept'[c] = 0
      BY <1>1, <1>3, <1>5 DEF IInv, StreamsOnSchedule
    <3> QED
      BY <1>3, <1>5, <2>3, <3>2, <3>3, <3>5, <3>6, <3>7
  <2> QED
    BY <2>1, <2>2, <2>3
<1> QED
  BY <1>6, <1>7, <1>8, <1>9

LEMMA DripPreserves ==
  ASSUME IInv, NEW c \in Cards, ProcessDripSettle(c)
  PROVE  intent[c] # NoIntent /\ IInv'
<1> DEFINE card == registry[c]
<1> USE HubAssumption
<1>1. /\ card \in CardType /\ now \in Nat /\ balance \in [Holders -> Nat]
      /\ swept \in [Cards -> Nat] /\ Hub \in Holders
  BY DEF IInv, TypeOK, Holders
<1>2. /\ card.operationalStatus = "Active" /\ balance[Hub] >= Payout(card)
      /\ Payout(card) > 0
      /\ registry' = [registry EXCEPT ![c] = Settled(card)]
      /\ balance' = Transfer(balance, Hub, card.recipient, Payout(card))
      /\ paid' = [paid EXCEPT ![c] = @ + Payout(card)]
      /\ UNCHANGED <<now, adminVars, accountNonceTracks, intent, swept>>
  BY DEF ProcessDripSettle
<1>3. Payout(card) \in 0 .. card.availableBalance /\ card.availableBalance \in Nat
  BY <1>1, AccrualType
<1>4. intent[c] # NoIntent
  BY <1>2, <1>3 DEF IInv, CardsRecorded, EmptyCard
<1>5. /\ registry' = [registry EXCEPT ![c] = LeftBy(FALSE, card)]
      /\ swept' = [swept EXCEPT ![c] = @ + SweptBy(FALSE, card)]
  BY <1>1, <1>2 DEF LeftBy, SweptBy
<1>6. /\ registry' \in [Cards -> CardType]
      /\ paid' \in [Cards -> Nat] /\ swept' \in [Cards -> Nat]
      /\ CardsRecorded' /\ PoolConserved' /\ StreamsOnSchedule'
  BY <1>2, <1>4, <1>5, SettlementPreserves
<1>7. balance' \in [Holders -> Nat]
  <2>1. card.recipient \in Holders
    BY <1>4 DEF IInv, CardsRecorded
  <2> QED
    BY <1>1, <1>2, <1>3, <2>1, TransferType
<1>8. TypeOK'
  BY <1>2, <1>6, <1>7 DEF IInv, TypeOK, adminVars
<1> QED
  BY <1>4, <1>6, <1>8 DEF IInv

LEMMA FlushPreserves ==
  ASSUME IInv, NEW c \in Cards, NEW sender \in Accounts,
         FlushResidualDelta(sender, c)
  PROVE  intent[c] # NoIntent /\ IInv'
<1> DEFINE card == registry[c]
           rest == Settled(card).availableBalance
<1> USE HubAssumption
<1>1. /\ card \in CardType /\ now \in Nat /\ balance \in [Holders -> Nat]
      /\ Hub \in Holders
  BY DEF IInv, TypeOK, Holders
<1>2. /\ sender \in {card.payer, card.recipient}
      /\ card.operationalStatus # "Terminated"
      /\ balance[Hub] >= card.availableBalance
      /\ registry' = [registry EXCEPT ![c] = ClosedCard(Settled(card))]
      /\ balance' = Transfer(Transfer(balance, Hub, card.recipient, Payout(card)),
                             Hub, card.residualDeltaRecipient, rest)
      /\ paid' = [paid EXCEPT ![c] = @ + Payout(card)]
      /\ swept' = [swept EXCEPT ![c] = @ + rest]
      /\ UNCHANGED <<now, adminVars, accountNonceTracks, intent>>
  BY DEF FlushResidualDelta
<1>3. /\ Payout(card) \in 0 .. card.availableBalance /\ card.availableBalance \in Nat
      /\ rest = card.availableBalance - Payout(card)
  BY <1>1, AccrualType, SettledCard
<1>4. intent[c] # NoIntent
  BY <1>2 DEF IInv, CardsRecorded, EmptyCard, HubAssumption
<1>5. card.operationalStatus = "Active"
  BY <1>1, <1>2 DEF CardType
<1>6. /\ registry' = [registry EXCEPT ![c] = LeftBy(TRUE, card)]
      /\ swept' = [swept EXCEPT ![c] = @ + SweptBy(TRUE, card)]
  BY <1>2 DEF LeftBy, SweptBy
<1>7. /\ registry' \in [Cards -> CardType]
      /\ paid' \in [Cards -> Nat] /\ swept' \in [Cards -> Nat]
      /\ CardsRecorded' /\ PoolConserved' /\ StreamsOnSchedule'
  BY <1>2, <1>4, <1>5, <1>6, SettlementPreserves
<1>8. balance' \in [Holders -> Nat]
  <2> DEFINE b == Transfer(balance, Hub, card.recipient, Payout(card))
  <2>1. card.recipient \in Holders /\ card.residualDeltaRecipient \in Holders
    BY <1>4 DEF IInv, CardsRecorded
  <2>2. /\ b \in [Holders -> Nat] /\ b[Hub] >= balance[Hub] - Payout(card)
    BY <1>1, <1>2, <1>3, <2>1, TransferType
  <2>3. rest \in Nat /\ rest <= b[Hub]
    BY <1>1, <1>2, <1>3, <2>2
  <2> HIDE DEF b, rest
  <2>4. Transfer(b, Hub, card.residualDeltaRecipient, rest) \in [Holders -> Nat]
    BY <1>1, <2>1, <2>2, <2>3, TransferType
  <2> QED
    BY <1>2, <2>4 DEF b, rest
<1>9. TypeOK'
  BY <1>2, <1>7, <1>8 DEF IInv, TypeOK, adminVars
<1> QED
  BY <1>4, <1>7, <1>9 DEF IInv

(* An open that fixes the recipient and a wildcard claim are provisions of *)
(* a well-typed recipient.                                                 *)
LEMMA OpensAreProvisions ==
  ASSUME NEW e \in Envelopes, NEW claimant \in Holders,
         OpenPaycardChannel(e) \/ ClaimWildcardPaycardChannel(e, claimant)
  PROVE  \E r \in Holders :
           (e.recipient # ZeroAddress => r = e.recipient) /\ Provision(e, r)
<1>1. CASE OpenPaycardChannel(e)
  <2>1. e.recipient \in Holders
    BY <1>1, HubAssumption DEF OpenPaycardChannel, HubAssumption, EnvelopeType, Holders
  <2> QED
    BY <1>1, <2>1 DEF OpenPaycardChannel
<1>2. CASE ClaimWildcardPaycardChannel(e, claimant)
  BY <1>2 DEF ClaimWildcardPaycardChannel
<1> QED
  BY <1>1, <1>2

(* The invariant is inductive for every set of signed envelopes and every  *)
(* integer width.                                                          *)
LEMMA StepPreserves == IInv /\ [Next]_vars => IInv'
<1> SUFFICES ASSUME IInv, [Next]_vars PROVE IInv'
  OBVIOUS
<1>1. CASE Tick
  BY <1>1, TickPreserves
<1>2. CASE Administer
  BY <1>2, AdministerPreserves
<1>3. ASSUME NEW e \in Envelopes, NEW claimant \in Holders,
             OpenPaycardChannel(e) \/ ClaimWildcardPaycardChannel(e, claimant)
      PROVE  IInv'
  BY <1>3, OpensAreProvisions, ProvisionPreserves
<1>4. ASSUME NEW c \in Cards, ProcessDripSettle(c) PROVE IInv'
  BY <1>4, DripPreserves
<1>5. ASSUME NEW c \in Cards, NEW sender \in Accounts, FlushResidualDelta(sender, c)
      PROVE  IInv'
  BY <1>5, FlushPreserves
<1>6. CASE UNCHANGED vars
  BY <1>6 DEF vars, adminVars, history, IInv, TypeOK, CardsRecorded, PoolConserved,
              StreamsOnSchedule, StaticHorizon
<1>7. Hub \in Holders
  BY DEF Holders
<1> QED
  BY <1>1, <1>2, <1>3, <1>4, <1>5, <1>6, <1>7 DEF Next

(* The inductive invariant holds of every run of the Vault.                *)
THEOREM InvariantHolds == Spec => []IInv
BY InitInvariant, StepPreserves, PTL DEF Spec

(* Every run stays well typed: no balance or escrow ever goes negative and *)
(* no stored integer exceeds its width (_settlePaycard's unchecked block). *)
THEOREM TypeCorrect == Spec => []TypeOK
<1>1. IInv => TypeOK
  BY DEF IInv
<1> QED
  BY <1>1, InvariantHolds, PTL

(* Every token of every pool is paid, swept or still available, and a      *)
(* closed card keeps nothing (_settlePaycard, flushResidualDelta).         *)
THEOREM PoolsConserved == Spec => []PoolConserved
<1>1. IInv => PoolConserved
  BY DEF IInv
<1> QED
  BY <1>1, InvariantHolds, PTL

-------------------------------------------------------------------------------
(* What follows from the invariant.                                        *)

(* Only an open changes the intent of a card, and its nonce is new.        *)
LEMMA StepKeepsNoncesApart ==
  IInv /\ NonceFundsOneCard /\ [Next]_vars => NonceFundsOneCard'
<1> SUFFICES ASSUME IInv, NonceFundsOneCard, [Next]_vars PROVE NonceFundsOneCard'
  OBVIOUS
<1>1. ASSUME NEW e \in Envelopes, NEW r \in Holders, Provision(e, r)
      PROVE  NonceFundsOneCard'
  <2>1. /\ e \in EnvelopeType /\ e.paycardId \in Cards
        /\ e.signer \in Accounts /\ e.nonceChannel \in Channels
    BY HubAssumption DEF HubAssumption, EnvelopeType
  <2>2. /\ intent' = [intent EXCEPT ![e.paycardId] = e]
        /\ intent \in [Cards -> Envelopes \cup {NoIntent}]
        /\ accountNonceTracks[e.signer][e.nonceChannel] = e.nonceValue
        /\ e.nonceValue \in Nat
    BY <1>1, HubAssumption DEF Provision, ConsumeNonce, IInv, TypeOK, HubAssumption,
                               EnvelopeType, Uint
  <2>3. \A d \in Cards : intent[d] # NoIntent =>
          /\ intent[d].nonceValue
               < accountNonceTracks[intent[d].signer][intent[d].nonceChannel]
          /\ intent[d].nonceValue \in Nat
    BY <2>2, HubAssumption DEF IInv, CardsRecorded, HubAssumption, EnvelopeType, Uint
  <2>4. \A d \in Cards : /\ intent[d] # NoIntent
                         /\ intent[d].signer = e.signer
                         /\ intent[d].nonceChannel = e.nonceChannel
                         => intent[d].nonceValue # e.nonceValue
    BY <2>2, <2>3
  <2>5. \A d \in Cards : intent'[d] = IF d = e.paycardId THEN e ELSE intent[d]
    BY <2>1, <2>2
  <2> QED
    BY <2>4, <2>5 DEF NonceFundsOneCard
<1>2. CASE UNCHANGED intent
  BY <1>2 DEF NonceFundsOneCard
<1>3. \/ UNCHANGED intent
      \/ \E e \in Envelopes, r \in Holders : Provision(e, r)
  <2>1. CASE Tick \/ Administer \/ UNCHANGED vars
    BY <2>1 DEF Tick, Administer, TransferOwnership, AcceptOwnership, SetPaused, vars,
                history
  <2>2. ASSUME NEW e \in Envelopes, NEW claimant \in Holders,
               OpenPaycardChannel(e) \/ ClaimWildcardPaycardChannel(e, claimant)
        PROVE  \E r \in Holders : Provision(e, r)
    BY <2>2, OpensAreProvisions
  <2>3. ASSUME NEW c \in Cards, NEW sender \in Accounts,
               ProcessDripSettle(c) \/ FlushResidualDelta(sender, c)
        PROVE  UNCHANGED intent
    BY <2>3 DEF ProcessDripSettle, FlushResidualDelta
  <2>4. ASSUME NEW c \in Cards, ProcessDripSettle(c) PROVE UNCHANGED intent
    BY <2>4 DEF ProcessDripSettle
  <2>5. Hub \in Holders
    BY DEF Holders
  <2> QED
    BY <2>1, <2>2, <2>3, <2>4, <2>5 DEF Next
<1> QED
  BY <1>1, <1>2, <1>3

(* One signed nonce funds one card, however many envelopes carry it        *)
(* (_consumeNonce).                                                        *)
THEOREM NonceSpentOnce == Spec => []NonceFundsOneCard
<1>1. Init => NonceFundsOneCard
  BY DEF Init, NonceFundsOneCard
<1> QED
  BY <1>1, InvariantHolds, StepKeepsNoncesApart, PTL DEF Spec

(* What the promise lets a stream have earned, in the Vault's terms.       *)
LEMMA EntitledOfStream ==
  ASSUME IInv, NEW c \in Cards, intent[c] # NoIntent
  PROVE  LET card == registry[c] IN
    /\ CardTerms(c) = TermsOf(intent[c])
    /\ card.totalAllocationPool = CardTerms(c).pool
    /\ card.flowVelocityPerSecond = CardTerms(c).velocity
    /\ card.genesisTimestamp = CardTerms(c).genesis
    /\ card.lifespanSeconds = CardTerms(c).lifespan
    /\ Promise!Horizon(CardTerms(c)) = StaticHorizon(card)
    /\ CardTerms(c).genesis \in Nat /\ CardTerms(c).lifespan \in Nat
    /\ CardTerms(c).velocity \in Nat /\ CardTerms(c).pool \in Nat
    /\ Promise!Streamed(CardTerms(c), now) \in Nat
    /\ CardTerms(c).velocity * Promise!Streamed(CardTerms(c), now) \in Nat
<1> DEFINE card == registry[c]
<1>1. card \in CardType /\ now \in Nat
  BY DEF IInv, TypeOK
<1>2. /\ CardTerms(c) = TermsOf(intent[c])
      /\ card.totalAllocationPool = CardTerms(c).pool
      /\ card.flowVelocityPerSecond = CardTerms(c).velocity
      /\ card.genesisTimestamp = CardTerms(c).genesis
      /\ card.lifespanSeconds = CardTerms(c).lifespan
  <2>1. /\ card.totalAllocationPool = intent[c].totalAllocationPool
        /\ card.flowVelocityPerSecond = intent[c].flowVelocityPerSecond
        /\ card.genesisTimestamp = intent[c].genesisTimestamp
        /\ card.lifespanSeconds = intent[c].lifespanSeconds
    BY DEF IInv, CardsRecorded
  <2> QED
    BY <2>1 DEF CardTerms, TermsOf
<1>3. /\ CardTerms(c).genesis \in Nat /\ CardTerms(c).lifespan \in Nat
      /\ CardTerms(c).velocity \in Nat /\ CardTerms(c).pool \in Nat
  BY <1>1, <1>2, HubAssumption DEF CardType, Uint, HubAssumption
<1>4. Promise!Horizon(CardTerms(c)) = StaticHorizon(card)
  BY <1>2 DEF Promise!Horizon, StaticHorizon
<1>5. Promise!Streamed(CardTerms(c), now) \in Nat
  BY <1>1, <1>3 DEF Promise!Streamed, Promise!Horizon, Promise!AtMost
<1>6. CardTerms(c).velocity * Promise!Streamed(CardTerms(c), now) \in Nat
  BY <1>3, <1>5, ProductMonotonic
<1> QED
  BY <1>2, <1>3, <1>4, <1>5, <1>6

LEMMA PaidWithinPromise == IInv => NeverAhead
<1> SUFFICES ASSUME IInv, NEW c \in Cards, intent[c] # NoIntent
             PROVE  paid[c] <= Promise!Entitled(CardTerms(c), now)
  BY DEF NeverAhead
<1> DEFINE card == registry[c]
           t == CardTerms(c)
           g == card.genesisTimestamp
           v == card.flowVelocityPerSecond
           cp == card.lastCheckpointEpoch
<1>1. /\ card \in CardType /\ now \in Nat /\ paid[c] \in Nat /\ swept[c] \in Nat
      /\ g \in Nat /\ v \in Nat /\ cp \in Nat /\ card.availableBalance \in Nat
      /\ card.lifespanSeconds \in Nat
  BY HubAssumption DEF IInv, TypeOK, CardType, Uint, HubAssumption
<1>2. paid[c] <= t.pool
  <2>1. paid[c] + swept[c] + card.availableBalance = intent[c].totalAllocationPool
    BY DEF IInv, PoolConserved
  <2>2. t.pool = intent[c].totalAllocationPool
    BY DEF CardTerms, TermsOf
  <2> QED
    BY <1>1, <2>1, <2>2
<1>3. CASE t.lifespan = 0
  BY <1>2, <1>3 DEF Promise!Entitled
<1>4. CASE t.lifespan # 0
  <2>1. /\ cp \in g .. StaticHorizon(card) /\ (cp = g \/ cp <= now)
        /\ paid[c] <= v * (cp - g)
    BY <1>4, EntitledOfStream DEF IInv, StreamsOnSchedule
  <2>2. cp - g \in Nat /\ cp - g <= Promise!Streamed(t, now)
    BY <1>1, <2>1, EntitledOfStream DEF Promise!Streamed, Promise!AtMost, StaticHorizon
  <2>3. /\ v * (cp - g) \in Nat
        /\ v * (cp - g) <= v * Promise!Streamed(t, now)
    BY <1>1, <2>2, ProductMonotonic, EntitledOfStream
  <2>4. v = t.velocity /\ v * Promise!Streamed(t, now) \in Nat
    BY EntitledOfStream
  <2>5. paid[c] <= t.velocity * Promise!Streamed(t, now)
    BY <1>1, <2>1, <2>3, <2>4
  <2> QED
    BY <1>2, <1>4, <2>5 DEF Promise!Entitled, Promise!AtMost
<1> QED
  BY <1>3, <1>4

(* No recipient is ever ahead of the clock, whatever the settlements       *)
(* (_settlePaycard's checkpoint and horizon clamp).                        *)
THEOREM NeverAheadOfClock == Spec => []NeverAhead
BY InvariantHolds, PaidWithinPromise, PTL

(* Every stream is on its schedule: what was paid is exactly what lies     *)
(* before the checkpoint, which is never outside genesis and horizon       *)
(* (_settlePaycard).                                                       *)
THEOREM StreamsKeepSchedule == Spec => []StreamsOnSchedule
<1>1. IInv => StreamsOnSchedule
  BY DEF IInv
<1> QED
  BY <1>1, InvariantHolds, PTL

-------------------------------------------------------------------------------
(* Solvency.  What the Hub gains or loses in a transaction is never less   *)
(* than the change of the one card's balance; a residual that goes back to *)
(* the Hub's own address only leaves it more.                              *)

(* A transaction that changes one card and leaves the Hub with as much     *)
(* more, or as little less, keeps it solvent.                              *)
LEMMA EscrowFollows ==
  ASSUME IInv, IInv', EscrowSolvent, NEW c \in Cards,
         \A d \in Cards : d # c => registry'[d] = registry[d],
         balance'[Hub] >= balance[Hub] + registry'[c].availableBalance
                            - registry[c].availableBalance
  PROVE  EscrowSolvent'
<1> DEFINE f == [d \in Cards |-> registry[d].availableBalance]
           h == [d \in Cards |-> registry'[d].availableBalance]
<1>1. \A d \in Cards : registry[d] \in CardType /\ registry'[d] \in CardType
  BY DEF IInv, TypeOK
<1>2. \A d \in Cards : f[d] \in Int /\ h[d] \in Int
  BY <1>1, HubAssumption DEF CardType, Uint, HubAssumption
<1>3. \A d \in Cards : d # c => h[d] = f[d]
  OBVIOUS
<1>4. f[c] = registry[c].availableBalance /\ h[c] = registry'[c].availableBalance
  OBVIOUS
<1>5. EscrowSolvent <=> balance[Hub] >= SumFunctionOnSet(f, Cards)
  BY DEF EscrowSolvent, SumFunction
<1>6. EscrowSolvent' <=> balance'[Hub] >= SumFunctionOnSet(h, Cards)
  BY DEF EscrowSolvent, SumFunction
<1>7. balance[Hub] \in Int /\ balance'[Hub] \in Int
  BY DEF IInv, TypeOK, Holders
<1> HIDE DEF f, h
<1>8. SumFunctionOnSet(h, Cards) = SumFunctionOnSet(f, Cards) - f[c] + h[c]
  BY <1>2, <1>3, FiniteCards, SumChange
<1>9. SumFunctionOnSet(f, Cards) \in Int /\ f[c] \in Int /\ h[c] \in Int
  BY <1>2, FiniteCards, SumInt
<1>10. balance[Hub] >= SumFunctionOnSet(f, Cards)
  BY <1>5
<1>11. balance'[Hub] >= balance[Hub] + h[c] - f[c]
  BY <1>4
<1>12. balance'[Hub] >= SumFunctionOnSet(h, Cards)
  BY <1>7, <1>8, <1>9, <1>10, <1>11
<1> QED
  BY <1>6, <1>12

LEMMA InitSolvent == Init => EscrowSolvent
<1> SUFFICES ASSUME Init PROVE EscrowSolvent
  OBVIOUS
<1> DEFINE f == [d \in Cards |-> registry[d].availableBalance]
<1>1. \A d \in Cards : f[d] = 0
  BY DEF Init, EmptyCard
<1> HIDE DEF f
<1>2. SumFunctionOnSet(f, Cards) = 0
  <2> DEFINE T == {s \in SUBSET Cards : SumFunctionOnSet(f, s) = 0}
  <2>1. ASSUME NEW s \in SUBSET Cards, \A x \in s : s \ {x} \in T
        PROVE  s \in T
    <3>1. CASE s = {}
      BY <3>1, SumEmpty
    <3>2. CASE s # {}
      <4>1. PICK x \in s : TRUE
        BY <3>2
      <4>2. IsFiniteSet(s) /\ \A y \in s : f[y] \in Int
        BY <1>1, FiniteCards, FS_Subset
      <4>3. SumFunctionOnSet(f, s) = f[x] + SumFunctionOnSet(f, s \ {x})
        BY <4>2, SumSplit
      <4> QED
        BY <1>1, <2>1, <4>3
    <3> QED
      BY <3>1, <3>2
  <2> HIDE DEF T
  <2>2. \A s \in SUBSET Cards : s \in T
    BY <2>1, FiniteCards, SubsetInduction
  <2> QED
    BY <2>2 DEF T
<1>3. balance[Hub] = 0
  BY DEF Init, Holders
<1>4. EscrowSolvent <=> balance[Hub] >= SumFunctionOnSet(f, Cards)
  BY DEF EscrowSolvent, SumFunction, f
<1> QED
  BY <1>2, <1>3, <1>4

(* What a transfer out of the Hub leaves it with.                          *)
LEMMA TransferFromHub ==
  ASSUME NEW b \in [Holders -> Nat], NEW to \in Holders, NEW amount \in Nat
  PROVE  Transfer(b, Hub, to, amount)[Hub] >= b[Hub] - amount
BY DEF Transfer, Holders

(* An open brings the card's pool into escrow (_openPaycardChannel).       *)
LEMMA ProvisionSolvent ==
  ASSUME IInv, IInv', EscrowSolvent, NEW e \in Envelopes, NEW r \in Holders,
         Provision(e, r)
  PROVE  EscrowSolvent'
<1> DEFINE c == e.paycardId
           pool == e.totalAllocationPool
<1>1. c \in Cards /\ e.signer \in Accounts /\ pool \in Nat
  BY HubAssumption DEF EnvelopeType, Uint, HubAssumption
<1>2. /\ registry \in [Cards -> CardType] /\ balance \in [Holders -> Nat]
      /\ registry' = [registry EXCEPT ![c] = NewCard(e, r)]
      /\ balance' = Transfer(balance, e.signer, Hub, pool)
  BY DEF Provision, IInv, TypeOK
<1>3. \A d \in Cards : d # c => registry'[d] = registry[d]
  BY <1>2
<1>4. registry'[c].availableBalance = pool /\ registry[c].availableBalance \in Nat
  <2>1. registry'[c] = NewCard(e, r)
    BY <1>1, <1>2
  <2>2. registry[c] \in CardType
    BY <1>1, <1>2
  <2> QED
    BY <2>1, <2>2, HubAssumption DEF NewCard, CardType, Uint, HubAssumption
<1>5. balance'[Hub] = balance[Hub] + pool /\ balance[Hub] \in Nat
  <2>1. e.signer # Hub /\ e.signer \in Holders /\ Hub \in Holders
    BY <1>1, HubAssumption DEF HubAssumption, Holders
  <2> QED
    BY <1>2, <2>1 DEF Transfer
<1> HIDE DEF c, pool
<1>6. balance'[Hub] >= balance[Hub] + registry'[c].availableBalance
                         - registry[c].availableBalance
  BY <1>1, <1>4, <1>5
<1> QED
  BY <1>1, <1>3, <1>6, EscrowFollows

(* A drip takes out what the card loses (processDripSettle).               *)
LEMMA DripSolvent ==
  ASSUME IInv, IInv', EscrowSolvent, NEW c \in Cards, ProcessDripSettle(c)
  PROVE  EscrowSolvent'
<1> DEFINE card == registry[c]
<1>1. /\ registry \in [Cards -> CardType] /\ card \in CardType /\ now \in Nat
      /\ balance \in [Holders -> Nat] /\ balance'[Hub] \in Nat /\ balance[Hub] \in Nat
  BY DEF IInv, TypeOK, Holders
<1>2. /\ registry' = [registry EXCEPT ![c] = Settled(card)]
      /\ balance' = Transfer(balance, Hub, card.recipient, Payout(card))
  BY DEF ProcessDripSettle
<1>3. card.recipient \in Holders
  BY DripPreserves DEF IInv, CardsRecorded
<1>4. /\ Payout(card) \in Nat /\ card.availableBalance \in Nat
      /\ Settled(card).availableBalance = card.availableBalance - Payout(card)
  BY <1>1, HubAssumption, AccrualType, SettledCard
<1>5. balance'[Hub] >= balance[Hub] - Payout(card)
  BY <1>1, <1>2, <1>3, <1>4, TransferFromHub
<1>6. /\ \A d \in Cards : d # c => registry'[d] = registry[d]
      /\ registry'[c] = Settled(card)
  BY <1>1, <1>2
<1>7. balance'[Hub] >= balance[Hub] + registry'[c].availableBalance
                         - registry[c].availableBalance
  BY <1>1, <1>4, <1>5, <1>6
<1> QED
  BY <1>6, <1>7, EscrowFollows

(* A flush takes out all of the card's balance, in one or two transfers    *)
(* (flushResidualDelta).                                                   *)
LEMMA FlushSolvent ==
  ASSUME IInv, IInv', EscrowSolvent, NEW c \in Cards, NEW sender \in Accounts,
         FlushResidualDelta(sender, c)
  PROVE  EscrowSolvent'
<1> DEFINE card == registry[c]
           rest == Settled(card).availableBalance
           b == Transfer(balance, Hub, card.recipient, Payout(card))
<1>1. /\ registry \in [Cards -> CardType] /\ card \in CardType /\ now \in Nat
      /\ balance \in [Holders -> Nat] /\ balance'[Hub] \in Nat /\ balance[Hub] \in Nat
      /\ Hub \in Holders
  BY DEF IInv, TypeOK, Holders
<1>2. /\ registry' = [registry EXCEPT ![c] = ClosedCard(Settled(card))]
      /\ balance' = Transfer(b, Hub, card.residualDeltaRecipient, rest)
      /\ balance[Hub] >= card.availableBalance
  BY DEF FlushResidualDelta
<1>3. card.recipient \in Holders /\ card.residualDeltaRecipient \in Holders
  BY FlushPreserves DEF IInv, CardsRecorded
<1>4. /\ Payout(card) \in 0 .. card.availableBalance /\ Payout(card) \in Nat
      /\ card.availableBalance \in Nat
      /\ rest = card.availableBalance - Payout(card) /\ rest \in Nat
      /\ Settled(card) \in CardType
  BY <1>1, HubAssumption, AccrualType, SettledCard
<1>5. b \in [Holders -> Nat] /\ b[Hub] >= balance[Hub] - Payout(card) /\ b[Hub] \in Nat
  BY <1>1, <1>2, <1>3, <1>4, TransferType
<1>6. /\ \A d \in Cards : d # c => registry'[d] = registry[d]
      /\ registry'[c].availableBalance = 0
  BY <1>1, <1>2, <1>4 DEF ClosedCard, CardType
<1> HIDE DEF b, rest
<1>7. balance'[Hub] >= b[Hub] - rest
  BY <1>2, <1>3, <1>4, <1>5, TransferFromHub
<1>8. balance'[Hub] >= balance[Hub] + registry'[c].availableBalance
                         - registry[c].availableBalance
  BY <1>1, <1>4, <1>5, <1>6, <1>7
<1> QED
  BY <1>6, <1>8, EscrowFollows

LEMMA StepSolvent ==
  ASSUME IInv, EscrowSolvent, [Next]_vars PROVE EscrowSolvent'
<1>0. IInv'
  BY StepPreserves
<1>1. CASE UNCHANGED <<registry, balance>>
  BY <1>1 DEF EscrowSolvent
<1>2. CASE Tick
  BY <1>1, <1>2 DEF Tick
<1>3. CASE Administer
  BY <1>1, <1>3 DEF Administer, TransferOwnership, AcceptOwnership, SetPaused
<1>4. ASSUME NEW e \in Envelopes, NEW claimant \in Holders,
             OpenPaycardChannel(e) \/ ClaimWildcardPaycardChannel(e, claimant)
      PROVE  EscrowSolvent'
  BY <1>0, <1>4, OpensAreProvisions, ProvisionSolvent
<1>5. ASSUME NEW c \in Cards, ProcessDripSettle(c) PROVE EscrowSolvent'
  BY <1>0, <1>5, DripSolvent
<1>6. ASSUME NEW c \in Cards, NEW sender \in Accounts, FlushResidualDelta(sender, c)
      PROVE  EscrowSolvent'
  BY <1>0, <1>6, FlushSolvent
<1>7. CASE UNCHANGED vars
  BY <1>1, <1>7 DEF vars
<1>8. Hub \in Holders
  BY DEF Holders
<1> QED
  BY <1>2, <1>3, <1>4, <1>5, <1>6, <1>7, <1>8 DEF Next

(* The Hub holds at least the sum of what its cards can still claim        *)
(* (_settlePaycard, flushResidualDelta).                                   *)
THEOREM HubSolvent == Spec => []EscrowSolvent
<1> QED
  BY InitSolvent, StepSolvent, InvariantHolds, PTL DEF Spec

(* The elapsed seconds of an active stream fit its lifespan, so that the   *)
(* product does if the lifespan's does; and the Hub, which can pay all     *)
(* cards, can pay one.                                                     *)
LEMMA SolventMeansSettles ==
  ASSUME IInv, EscrowSolvent PROVE SettlementCannotRevert
<1> SUFFICES ASSUME NEW c \in Cards, intent[c] # NoIntent,
                    Representable(intent[c]),
                    registry[c].operationalStatus = "Active"
             PROVE  /\ AccrualFits(registry[c])
                    /\ balance[Hub] >= registry[c].availableBalance
  BY DEF SettlementCannotRevert
<1> DEFINE card == registry[c]
           f == [d \in Cards |-> registry[d].availableBalance]
<1>1. card \in CardType /\ now \in Nat /\ \A d \in Cards : registry[d] \in CardType
  BY DEF IInv, TypeOK
<1>2. /\ card.availableBalance \in 0 .. MaxUint /\ MaxUint \in Nat
      /\ card.lifespanSeconds \in Nat /\ card.flowVelocityPerSecond \in Nat
      /\ card.genesisTimestamp \in Nat /\ card.lastCheckpointEpoch \in Nat
      /\ EvaluatedEpoch(card) \in Nat /\ ElapsedDelta(card) \in Nat
  BY <1>1, HubAssumption, AccrualType DEF CardType, Uint, HubAssumption
<1>3. AccrualFits(card)
  <2>1. CASE card.lifespanSeconds = 0
    BY <1>2, <2>1 DEF AccrualFits, AccruedDebt
  <2>2. CASE card.lifespanSeconds # 0
    <3>1. /\ card.flowVelocityPerSecond = intent[c].flowVelocityPerSecond
          /\ card.lifespanSeconds = intent[c].lifespanSeconds
      BY DEF IInv, CardsRecorded
    <3>2. card.lifespanSeconds * card.flowVelocityPerSecond <= MaxUint
      BY <3>1 DEF Representable
    <3>3. card.lastCheckpointEpoch \in card.genesisTimestamp .. StaticHorizon(card)
      BY <2>2 DEF IInv, StreamsOnSchedule
    <3>4. StaticHorizon(card) = card.genesisTimestamp + card.lifespanSeconds
      BY DEF StaticHorizon
    <3>5. EvaluatedEpoch(card) <= StaticHorizon(card)
      BY <1>1, <1>2, <2>2, <3>4 DEF EvaluatedEpoch
    <3>6. ElapsedDelta(card) <= card.lifespanSeconds
      BY <1>2, <3>3, <3>4, <3>5 DEF ElapsedDelta
    <3> DEFINE v == card.flowVelocityPerSecond
               x == ElapsedDelta(card)
               l == card.lifespanSeconds
    <3>7. v \in Nat /\ x \in Nat /\ l \in Nat /\ x <= l /\ l * v <= MaxUint
      BY <1>2, <3>2, <3>6
    <3>8. AccruedDebt(card) = x * v
      BY <2>2 DEF AccruedDebt
    <3> HIDE DEF v, x, l, card
    <3>9. v * x <= v * l /\ v * x \in Nat /\ v * l \in Nat
      BY <3>7, ProductMonotonic
    <3>10. x * v = v * x /\ l * v = v * l
      BY <3>7
    <3> QED
      BY <1>2, <3>7, <3>8, <3>9, <3>10 DEF AccrualFits
  <2> QED
    BY <2>1, <2>2
<1>4. \A d \in Cards : f[d] \in Nat
  BY <1>1, HubAssumption DEF CardType, Uint, HubAssumption
<1>5. balance[Hub] >= SumFunctionOnSet(f, Cards) /\ balance[Hub] \in Nat
  BY DEF EscrowSolvent, SumFunction, IInv, TypeOK, Holders
<1>6. f[c] = card.availableBalance
  OBVIOUS
<1> HIDE DEF f
<1>7. f[c] <= SumFunctionOnSet(f, Cards) /\ SumFunctionOnSet(f, Cards) \in Nat
  BY <1>4, FiniteCards, SumNat
<1> QED
  BY <1>3, <1>4, <1>5, <1>6, <1>7

(* No settlement of a representable stream reverts: neither the checked    *)
(* product nor the Hub's token balance ever stops a drip or a flush of an  *)
(* active card (_settlePaycard, flushResidualDelta).                       *)
THEOREM SettlementsDoNotRevert == Spec => []SettlementCannotRevert
<1> QED
  BY SolventMeansSettles, HubSolvent, InvariantHolds, PTL

(* A terminated card is left alone by every transaction                    *)
(* (processDripSettle, flushResidualDelta, _openPaycardChannel).           *)
LEMMA StepKeepsTerminated ==
  ASSUME IInv, [Next]_vars, NEW c \in Cards,
         registry[c].operationalStatus = "Terminated"
  PROVE  registry'[c] = registry[c] /\ paid'[c] = paid[c] /\ swept'[c] = swept[c]
<1>0. /\ registry \in [Cards -> CardType] /\ paid \in [Cards -> Nat]
      /\ swept \in [Cards -> Nat] /\ Hub \in Holders
  BY DEF IInv, TypeOK, Holders
<1>1. CASE Tick \/ Administer \/ UNCHANGED vars
  BY <1>1 DEF Tick, Administer, TransferOwnership, AcceptOwnership, SetPaused, vars,
              history
<1>2. ASSUME NEW e \in Envelopes, NEW claimant \in Holders,
             OpenPaycardChannel(e) \/ ClaimWildcardPaycardChannel(e, claimant)
      PROVE  /\ registry'[c] = registry[c]
             /\ paid'[c] = paid[c] /\ swept'[c] = swept[c]
  <2>1. PICK r \in Holders : Provision(e, r)
    BY <1>2, OpensAreProvisions
  <2>2. /\ registry' = [registry EXCEPT ![e.paycardId] = NewCard(e, r)]
        /\ registry[e.paycardId].payer = ZeroAddress
        /\ UNCHANGED <<paid, swept>>
    BY <2>1 DEF Provision, Opened
  <2>3. intent[c] # NoIntent
    BY DEF IInv, CardsRecorded, EmptyCard
  <2>4. registry[c].payer # ZeroAddress
    BY <2>3, HubAssumption DEF IInv, TypeOK, CardsRecorded, HubAssumption, EnvelopeType
  <2> QED
    BY <1>0, <2>2, <2>4
<1>3. ASSUME NEW d \in Cards, ProcessDripSettle(d)
      PROVE  /\ registry'[c] = registry[c]
             /\ paid'[c] = paid[c] /\ swept'[c] = swept[c]
  <2>1. d # c
    BY <1>3 DEF ProcessDripSettle
  <2> QED
    BY <1>0, <1>3, <2>1 DEF ProcessDripSettle
<1>4. ASSUME NEW d \in Cards, NEW sender \in Accounts, FlushResidualDelta(sender, d)
      PROVE  /\ registry'[c] = registry[c]
             /\ paid'[c] = paid[c] /\ swept'[c] = swept[c]
  <2>1. d # c
    BY <1>4 DEF FlushResidualDelta
  <2> QED
    BY <1>0, <1>4, <2>1 DEF FlushResidualDelta
<1> QED
  BY <1>0, <1>1, <1>2, <1>3, <1>4 DEF Next

(* A terminated card is closed for good.                                   *)
THEOREM TerminatedForGood == Spec => TerminatedForever
<1>1. IInv /\ [Next]_vars =>
        [\A c \in Cards : registry[c].operationalStatus = "Terminated" =>
           registry'[c] = registry[c] /\ paid'[c] = paid[c] /\ swept'[c] = swept[c]]_vars
  BY StepKeepsTerminated
<1> QED
  BY <1>1, InvariantHolds, PTL DEF Spec, TerminatedForever

-------------------------------------------------------------------------------
(* The Vault implements the escrow promise: each of its steps is a step of *)
(* EscrowPromise, or a stutter.                                            *)

(* A settlement leaves the recipient with exactly what it is entitled to,  *)
(* however many settlements came before: the checkpoints telescope.        *)
LEMMA SettlementIsEntitled ==
  ASSUME IInv, NEW c \in Cards, intent[c] # NoIntent,
         registry[c].operationalStatus = "Active"
  PROVE  paid[c] + Payout(registry[c]) = Promise!Entitled(CardTerms(c), now)
<1> DEFINE card == registry[c]
           t == CardTerms(c)
           g == card.genesisTimestamp
           v == card.flowVelocityPerSecond
           cp0 == card.lastCheckpointEpoch
           cp == Settled(card).lastCheckpointEpoch
<1>0. /\ card \in CardType /\ now \in Nat /\ paid[c] \in Nat
      /\ g \in Nat /\ v \in Nat /\ cp0 \in Nat /\ card.lifespanSeconds \in Nat
      /\ card.availableBalance \in Nat
  BY HubAssumption DEF IInv, TypeOK, CardType, Uint, HubAssumption
<1>1. paid[c] + card.availableBalance = t.pool
  <2>1. paid[c] + swept[c] + card.availableBalance = intent[c].totalAllocationPool
    BY DEF IInv, PoolConserved
  <2>2. t.pool = intent[c].totalAllocationPool
    BY DEF CardTerms, TermsOf
  <2>3. swept[c] = 0
    BY DEF IInv, StreamsOnSchedule
  <2> QED
    BY <1>0, <2>1, <2>2, <2>3
<1>2. AccruedDebt(card) \in Nat /\ EvaluatedEpoch(card) \in Nat
  BY <1>0, AccrualType, HubAssumption
<1>3. CASE t.lifespan = 0
  <2>1. Payout(card) = card.availableBalance
    BY <1>0, <1>3, EntitledOfStream DEF Payout, AccruedDebt
  <2> QED
    BY <1>1, <1>3, <2>1 DEF Promise!Entitled
<1>4. CASE t.lifespan # 0
  <2>1. card.lifespanSeconds # 0
    BY <1>4, EntitledOfStream
  <2>2. /\ cp0 \in g .. StaticHorizon(card) /\ (cp0 = g \/ cp0 <= now)
        /\ paid[c] = v * (cp0 - g)
    BY <2>1 DEF IInv, StreamsOnSchedule
  <2>3. v * (cp - g) = paid[c] + AccruedDebt(card)
    BY <1>0, <2>1, <2>2, SettledOnSchedule, HubAssumption
  <2>4. v * Promise!Streamed(t, now) = v * (cp - g)
    <3>1. cp = IF AccruedDebt(card) = 0 THEN cp0 ELSE EvaluatedEpoch(card)
      BY <1>0, SettledCard, HubAssumption
    <3>2. StaticHorizon(card) = g + card.lifespanSeconds
      BY DEF StaticHorizon
    <3>3. /\ t.genesis = g
          /\ Promise!Horizon(t) = StaticHorizon(card)
          /\ AccruedDebt(card) = ElapsedDelta(card) * v
      BY <2>1, EntitledOfStream DEF AccruedDebt
    <3>4. CASE ElapsedDelta(card) = 0
      <4>1. AccruedDebt(card) = 0 /\ cp = cp0
        BY <1>0, <3>1, <3>3, <3>4
      <4>2. Promise!Streamed(t, now) = cp0 - g
        BY <1>0, <1>2, <2>1, <2>2, <3>2, <3>3, <3>4
           DEF ElapsedDelta, EvaluatedEpoch, Promise!Streamed, Promise!AtMost
      <4> QED
        BY <4>1, <4>2
    <3>5. CASE ElapsedDelta(card) # 0
      <4>1. EvaluatedEpoch(card) > cp0
        BY <1>0, <1>2, <3>5 DEF ElapsedDelta
      <4>2. Promise!Streamed(t, now) = EvaluatedEpoch(card) - g
        BY <1>0, <1>2, <2>1, <2>2, <3>2, <3>3, <4>1
           DEF EvaluatedEpoch, Promise!Streamed, Promise!AtMost
      <4>3. CASE AccruedDebt(card) # 0
        BY <3>1, <4>2, <4>3
      <4>4. CASE AccruedDebt(card) = 0
        <5>1. ElapsedDelta(card) \in Nat
          BY <1>0, AccrualType, HubAssumption
        <5>2. v = 0
          BY <1>0, <3>3, <3>5, <4>4, <5>1
        <5> QED
          BY <1>0, <3>1, <4>2, <4>4, <5>2, <1>2
      <4> QED
        BY <4>3, <4>4
    <3> QED
      BY <3>4, <3>5
  <2>5. t.velocity * Promise!Streamed(t, now) = paid[c] + AccruedDebt(card)
    BY <2>3, <2>4, EntitledOfStream
  <2>6. t.pool \in Nat
    BY EntitledOfStream
  <2> QED
    BY <1>0, <1>1, <1>2, <1>4, <2>5, <2>6
       DEF Promise!Entitled, Promise!AtMost, Payout
<1> QED
  BY <1>3, <1>4

(* The promise's terms of a card before and after a step that leaves its   *)
(* intent alone.                                                           *)
Terms0 == [c \in Cards |-> CardTerms(c)]

LEMMA TermsKept ==
  ASSUME UNCHANGED intent
  PROVE  UNCHANGED Terms0
BY DEF Terms0, CardTerms

LEMMA OpenRefines ==
  ASSUME IInv, NEW e \in Envelopes, NEW r \in Holders, Provision(e, r)
  PROVE  Promise!Open(e.paycardId)
<1> DEFINE c == e.paycardId
<1>1. c \in Cards
  BY HubAssumption DEF HubAssumption, EnvelopeType
<1>2. /\ intent' = [intent EXCEPT ![c] = e]
      /\ intent \in [Cards -> Envelopes \cup {NoIntent}]
      /\ registry[c].payer = ZeroAddress
      /\ UNCHANGED <<now, paid, swept>>
      /\ e.lifespanSeconds > 0 => now < StaticHorizon(e)
  BY DEF Provision, Opened, WellFormed, IInv, TypeOK
<1>3. intent[c] = NoIntent
  <2>1. intent[c] # NoIntent => intent[c].signer \in Accounts
    BY <1>1, <1>2, HubAssumption DEF HubAssumption, EnvelopeType
  <2> QED
    BY <1>1, <1>2, <2>1, HubAssumption DEF IInv, CardsRecorded, HubAssumption
<1>4. e # NoIntent
  BY HubAssumption DEF HubAssumption
<1>5. TermsOf(e).lifespan > 0 => now < Promise!Horizon(TermsOf(e))
  BY <1>2 DEF TermsOf, Promise!Horizon, StaticHorizon
<1>6. Terms0[c] = NoIntent
  BY <1>1, <1>3 DEF Terms0, CardTerms
<1>7. Terms0' = [Terms0 EXCEPT ![c] = TermsOf(e)]
  <2>1. \A d \in Cards : intent'[d] = IF d = c THEN e ELSE intent[d]
    BY <1>1, <1>2
  <2>2. \A d \in Cards : CardTerms(d)' = IF d = c THEN TermsOf(e) ELSE CardTerms(d)
    BY <1>4, <2>1 DEF CardTerms
  <2> QED
    BY <1>1, <2>2 DEF Terms0
<1> QED
  BY <1>2, <1>5, <1>6, <1>7 DEF Promise!Open, Terms0

LEMMA OpenCardIsOpenPromise ==
  ASSUME IInv, NEW c \in Cards, intent[c] # NoIntent,
         registry[c].operationalStatus = "Active"
  PROVE  Terms0[c] # NoIntent /\ ~Promise!Closed(c)
<1>1. intent[c] \in Envelopes /\ Terms0[c] = TermsOf(intent[c])
  BY DEF IInv, TypeOK, Terms0, CardTerms
<1>2. Terms0[c] # NoIntent
  BY <1>1, NoTermsAssumption DEF NoTermsAssumption
<1>3. /\ paid[c] + swept[c] + registry[c].availableBalance = Terms0[c].pool
      /\ registry[c].availableBalance # 0
      /\ paid[c] \in Nat /\ swept[c] \in Nat /\ registry[c].availableBalance \in Nat
  BY <1>1, HubAssumption
     DEF IInv, TypeOK, PoolConserved, TermsOf, CardType, Uint, HubAssumption
<1>4. paid[c] + swept[c] # Terms0[c].pool
  BY <1>3
<1> QED
  BY <1>2, <1>4 DEF Promise!Closed, Terms0

LEMMA DripRefines ==
  ASSUME IInv, NEW c \in Cards, ProcessDripSettle(c)
  PROVE  Promise!Settle(c)
<1>1. intent[c] # NoIntent
  BY DripPreserves
<1>2. /\ registry[c].operationalStatus = "Active"
      /\ paid' = [paid EXCEPT ![c] = @ + Payout(registry[c])]
      /\ UNCHANGED <<now, intent, swept>>
  BY DEF ProcessDripSettle
<1>3. paid' = [paid EXCEPT ![c] = Promise!Entitled(CardTerms(c), now)]
  BY <1>1, <1>2, SettlementIsEntitled
<1>4. Terms0[c] # NoIntent /\ ~Promise!Closed(c) /\ Terms0[c] = CardTerms(c)
  BY <1>1, <1>2, OpenCardIsOpenPromise DEF Terms0
<1>5. UNCHANGED Terms0
  BY <1>2, TermsKept
<1> QED
  BY <1>2, <1>3, <1>4, <1>5 DEF Promise!Settle, Terms0

LEMMA FlushRefines ==
  ASSUME IInv, NEW c \in Cards, NEW sender \in Accounts,
         FlushResidualDelta(sender, c)
  PROVE  Promise!Close(c)
<1> DEFINE card == registry[c]
           due == Promise!Entitled(CardTerms(c), now)
<1>1. intent[c] # NoIntent
  BY FlushPreserves
<1>2. /\ card.operationalStatus = "Active"
      /\ paid' = [paid EXCEPT ![c] = @ + Payout(card)]
      /\ swept' = [swept EXCEPT ![c] = @ + Settled(card).availableBalance]
      /\ UNCHANGED <<now, intent>>
  BY DEF FlushResidualDelta, IInv, TypeOK, CardType
<1>3. paid[c] + Payout(card) = due
  BY <1>1, <1>2, SettlementIsEntitled
<1>4. swept[c] + Settled(card).availableBalance = CardTerms(c).pool - due
  <2>1. /\ paid[c] + swept[c] + card.availableBalance = intent[c].totalAllocationPool
        /\ swept[c] = 0
    BY <1>1, <1>2 DEF IInv, PoolConserved, StreamsOnSchedule
  <2>2. CardTerms(c).pool = intent[c].totalAllocationPool
    BY <1>1 DEF CardTerms, TermsOf
  <2>3. /\ card \in CardType /\ now \in Nat /\ paid[c] \in Nat
    BY DEF IInv, TypeOK
  <2>4. /\ Settled(card).availableBalance = card.availableBalance - Payout(card)
        /\ card.availableBalance \in Nat /\ Payout(card) \in Nat
    BY <2>3, SettledCard, AccrualType, HubAssumption
  <2> HIDE DEF card, due
  <2> QED
    BY <1>3, <2>1, <2>2, <2>3, <2>4
<1>5. Terms0[c] # NoIntent /\ ~Promise!Closed(c) /\ Terms0[c] = CardTerms(c)
  BY <1>1, <1>2, OpenCardIsOpenPromise DEF Terms0
<1>6. UNCHANGED Terms0
  BY <1>2, TermsKept
<1> QED
  BY <1>2, <1>3, <1>4, <1>5, <1>6 DEF Promise!Close, Terms0

LEMMA StepRefines == IInv /\ [Next]_vars => [Promise!Next]_(Promise!vars)
<1> SUFFICES ASSUME IInv, [Next]_vars PROVE [Promise!Next]_(Promise!vars)
  OBVIOUS
<1>1. CASE Tick
  <2>1. now \in Nat /\ now' = now + 1 /\ UNCHANGED <<intent, paid, swept>>
    BY <1>1 DEF Tick, history, IInv, TypeOK
  <2>2. now' \in {t \in Nat : t > now}
    BY <2>1
  <2>3. UNCHANGED Terms0
    BY <2>1, TermsKept
  <2> QED
    BY <2>1, <2>2, <2>3 DEF Promise!Next, Promise!Tick, Terms0
<1>2. CASE Administer \/ UNCHANGED vars
  <2>1. UNCHANGED <<now, intent, paid, swept>>
    BY <1>2 DEF Administer, TransferOwnership, AcceptOwnership, SetPaused, vars, history
  <2>2. UNCHANGED Terms0
    BY <2>1, TermsKept
  <2> QED
    BY <2>1, <2>2 DEF Promise!vars, Terms0
<1>3. ASSUME NEW e \in Envelopes, NEW claimant \in Holders,
             OpenPaycardChannel(e) \/ ClaimWildcardPaycardChannel(e, claimant)
      PROVE  Promise!Next
  <2>1. e.paycardId \in Cards
    BY HubAssumption DEF HubAssumption, EnvelopeType
  <2> QED
    BY <1>3, <2>1, OpensAreProvisions, OpenRefines DEF Promise!Next
<1>4. ASSUME NEW c \in Cards, ProcessDripSettle(c) PROVE Promise!Next
  BY <1>4, DripRefines DEF Promise!Next
<1>5. ASSUME NEW c \in Cards, NEW sender \in Accounts, FlushResidualDelta(sender, c)
      PROVE  Promise!Next
  BY <1>5, FlushRefines DEF Promise!Next
<1>6. Hub \in Holders
  BY DEF Holders
<1> QED
  BY <1>1, <1>2, <1>3, <1>4, <1>5, <1>6 DEF Next

(* The Vault keeps its promise: what a recipient and a recovery address    *)
(* have received is a function of the terms and of the closing time alone, *)
(* for any envelopes and any interleaving (_settlePaycard,                 *)
(* flushResidualDelta).                                                    *)
THEOREM VaultKeepsPromise == Spec => KeepsPromise
<1>1. Init => Promise!Init
  BY DEF Init, Promise!Init, CardTerms
<1> QED
  BY <1>1, StepRefines, InvariantHolds, PTL DEF Spec, KeepsPromise, Promise!Spec

-------------------------------------------------------------------------------
(* The log on chain.  A card's log can outgrow no bound, since every       *)
(* settlement that pays advances the checkpoint, and the settlement of a   *)
(* one-time payment closes it.                                             *)

EntryType ==
  [ kind : {"PaycardProvisioned", "SettlementFlushed", "ResidualDeltaReclaimed"},
    card : Cards, amount : Nat, left : Nat ]

(* The longest the log of a card that is not closed can be.                *)
LogBound(c) ==
  IF intent[c] = NoIntent THEN 0
  ELSE IF registry[c].lifespanSeconds = 0 THEN 1
  ELSE 1 + registry[c].lastCheckpointEpoch - registry[c].genesisTimestamp

LogInv ==
  /\ now <= MaxTime
  /\ log \in [Cards -> Seq(EntryType)]
  /\ \A c \in Cards :
       registry[c].operationalStatus = "Active" => Len(log[c]) <= LogBound(c)

(* A transaction changes card k and no other one.                          *)
ChangesOnly(k) ==
  /\ k \in Cards /\ registry'[k] # registry[k]
  /\ \A d \in Cards : d # k => registry'[d] = registry[d] /\ intent'[d] = intent[d]

(* There is room in the log of an active card for what a flush emits.      *)
LEMMA RoomInLog ==
  ASSUME IInv, LogInv, NEW c \in Cards, registry[c].operationalStatus = "Active"
  PROVE  /\ Len(log[c]) \in Nat /\ Len(log[c]) + 1 <= MaxTime + 3
         /\ Len(log[c]) + 2 <= MaxTime + 3
<1>1. log[c] \in Seq(EntryType)
  BY DEF LogInv
<1>2. Len(log[c]) \in Nat /\ Len(log[c]) <= LogBound(c)
  BY <1>1 DEF LogInv
<1>3. MaxTime \in Nat /\ now \in Nat /\ now <= MaxTime
  BY HubAssumption DEF HubAssumption, IInv, TypeOK, LogInv
<1>4. LogBound(c) <= MaxTime + 1
  <2>1. CASE intent[c] = NoIntent \/ registry[c].lifespanSeconds = 0
    BY <1>3, <2>1 DEF LogBound
  <2>2. CASE intent[c] # NoIntent /\ registry[c].lifespanSeconds # 0
    <3> DEFINE cp == registry[c].lastCheckpointEpoch
               genesis == registry[c].genesisTimestamp
    <3>1. registry[c] \in CardType
      BY DEF IInv, TypeOK
    <3>2. cp \in Nat /\ genesis \in Nat
      BY <3>1, HubAssumption DEF CardType, Uint, HubAssumption
    <3>3. cp = genesis \/ cp <= now
      BY <2>2 DEF IInv, StreamsOnSchedule
    <3>4. LogBound(c) = 1 + cp - genesis
      BY <2>2 DEF LogBound
    <3> HIDE DEF cp, genesis
    <3> QED  BY <1>3, <3>2, <3>3, <3>4
  <2> QED  BY <2>1, <2>2
<1>5. LogBound(c) \in Int
  <2>1. registry[c] \in CardType
    BY DEF IInv, TypeOK
  <2>2. registry[c].lastCheckpointEpoch \in Nat /\ registry[c].genesisTimestamp \in Nat
    BY <2>1, HubAssumption DEF CardType, Uint, HubAssumption
  <2> QED  BY <2>2 DEF LogBound
<1> HIDE DEF LogBound
<1> QED  BY <1>2, <1>3, <1>4, <1>5

(* The log of the changed card is extended by its events, and no other.    *)
LEMMA OnlyChangedLogs ==
  ASSUME LogInv, LoggedNext, NEW k, ChangesOnly(k), EmittedBy(k) \in Seq(EntryType)
  PROVE  /\ log'[k] = log[k] \o EmittedBy(k)
         /\ \A d \in Cards : d # k => log'[d] = log[d]
         /\ log' \in [Cards -> Seq(EntryType)]
<1>1. log \in [Cards -> Seq(EntryType)] /\ k \in Cards
  BY DEF LogInv, ChangesOnly
<1>2. PICK c \in Cards : registry'[c] # registry[c]
                         /\ log' = [log EXCEPT ![c] = @ \o EmittedBy(c)]
  BY <1>1 DEF LoggedNext, ChangesOnly
<1>3. c = k
  BY <1>2 DEF ChangesOnly
<1>4. log' = [log EXCEPT ![k] = log[k] \o EmittedBy(k)]
  BY <1>2, <1>3
<1> HIDE DEF EmittedBy
<1>5. log[k] \o EmittedBy(k) \in Seq(EntryType)
  BY <1>1
<1> QED  BY <1>1, <1>4, <1>5

(* What the log of a card says is what a reader's transaction emits.       *)
LEMMA EmitsForReader ==
  ASSUME IInv', NEW c \in Cards, NEW e, NEW left \in Nat,
         Len(log[c]) + Len(e) <= MaxTime + 3, log'[c] = log[c] \o e,
         intent'[c] # NoIntent, registry'[c].availableBalance = left
  PROVE  Reader(c)!Emit(c, e, left)
<1>1. registry'[c].operationalStatus = "Terminated" <=> left = 0
  BY DEF IInv, PoolConserved
<1>2. registry'[c].operationalStatus \in {"Active", "Terminated"}
  BY DEF IInv, TypeOK, CardType
<1> QED  BY <1>1, <1>2 DEF Reader!Emit

(* An opened card emits its provision and nothing else.                    *)
LEMMA ProvisionEmits ==
  ASSUME IInv, LogInv, LoggedNext, NEW e \in Envelopes, NEW r \in Holders,
         e.recipient # ZeroAddress => r = e.recipient, Provision(e, r)
  PROVE  LET c == e.paycardId
         IN  ChangesOnly(c) /\ Reader(c)!Next /\ LogInv'
<1> DEFINE c == e.paycardId
           pool == e.totalAllocationPool
           x == [kind |-> "PaycardProvisioned", card |-> c, amount |-> pool, left |-> pool]
<1> USE HubAssumption
<1>1. /\ e \in EnvelopeType /\ c \in Cards /\ e.signer \in Accounts
      /\ pool \in Nat /\ e # NoIntent
  <2>1. e \in EnvelopeType
    BY DEF HubAssumption
  <2> QED  BY <2>1 DEF EnvelopeType, Uint, HubAssumption
<1>2. /\ registry \in [Cards -> CardType] /\ intent \in [Cards -> Envelopes \cup {NoIntent}]
      /\ paid \in [Cards -> Nat] /\ swept \in [Cards -> Nat] /\ now <= MaxTime
  BY DEF IInv, TypeOK, LogInv
<1>3. /\ registry' = [registry EXCEPT ![c] = NewCard(e, r)]
      /\ intent' = [intent EXCEPT ![c] = e]
      /\ registry[c].payer = ZeroAddress
      /\ UNCHANGED <<now, paid, swept>>
  BY DEF Provision, Opened
<1>4. intent[c] = NoIntent /\ registry[c] = EmptyCard
  <2>1. e.signer # ZeroAddress
    BY <1>1 DEF HubAssumption
  <2>2. ASSUME intent[c] # NoIntent PROVE FALSE
    <3>1. intent[c] \in EnvelopeType /\ registry[c].payer = intent[c].signer
      BY <1>1, <1>2, <2>2 DEF IInv, CardsRecorded, HubAssumption
    <3> QED  BY <1>3, <3>1 DEF EnvelopeType, HubAssumption
  <2> QED  BY <1>1, <2>2 DEF IInv, CardsRecorded
<1>5. /\ registry'[c] = NewCard(e, r) /\ intent'[c] = e
      /\ registry'[c].availableBalance = pool /\ registry'[c].payer = e.signer
  BY <1>1, <1>2, <1>3 DEF NewCard
<1>6. ChangesOnly(c)
  <2>1. registry'[c] # registry[c]
    BY <1>1, <1>3, <1>5 DEF HubAssumption
  <2> QED  BY <1>1, <1>2, <1>3, <2>1 DEF ChangesOnly
<1>7. EmittedBy(c) = <<x>>
  <2>1. paid'[c] - paid[c] = 0 /\ swept'[c] - swept[c] = 0
    BY <1>1, <1>2, <1>3
  <2> QED  BY <1>1, <1>4, <1>5, <2>1 DEF EmittedBy
<1>8. x \in EntryType /\ <<x>> \in Seq(EntryType) /\ Len(<<x>>) = 1
  BY <1>1 DEF EntryType
<1> HIDE DEF x
<1>9. /\ log'[c] = log[c] \o <<x>> /\ log' \in [Cards -> Seq(EntryType)]
      /\ \A d \in Cards : d # c => log'[d] = log[d]
  <2> HIDE DEF c
  <2>1. EmittedBy(c) \in Seq(EntryType)
    BY <1>7, <1>8
  <2>2. /\ log'[c] = log[c] \o EmittedBy(c) /\ log' \in [Cards -> Seq(EntryType)]
        /\ \A d \in Cards : d # c => log'[d] = log[d]
    BY <1>6, <2>1, OnlyChangedLogs
  <2> QED  BY <1>7, <2>2
<1>10. registry[c].operationalStatus = "Active"
  BY <1>4 DEF EmptyCard
<1>11. Reader(c)!Next
  <2>1. IInv'
    BY ProvisionPreserves
  <2>2. Len(log[c]) + Len(<<x>>) <= MaxTime + 3
    BY <1>1, <1>8, <1>10, RoomInLog
  <2>3. Reader(c)!Emit(c, <<x>>, pool)
    BY <1>1, <1>5, <1>9, <2>1, <2>2, EmitsForReader
  <2>4. x = Reader(c)!Event("PaycardProvisioned", c, pool, pool)
    BY DEF x, Reader!Event
  <2>5. Reader(c)!Provision(c)
    BY <1>4, <2>3, <2>4 DEF Reader!Provision
  <2> QED  BY <2>5 DEF Reader!Next
<1>12. LogInv'
  <2>1. ASSUME NEW d \in Cards, registry'[d].operationalStatus = "Active"
        PROVE  Len(log'[d]) <= LogBound(d)'
    <3>1. CASE d = c
      <4>1. log[c] \in Seq(EntryType) /\ Len(log[c]) <= 0
        BY <1>1, <1>4, <1>10 DEF LogInv, LogBound
      <4>2. Len(log[c]) = 0 /\ Len(log'[c]) = 1
        BY <1>8, <1>9, <4>1
      <4>3. LogBound(c)' = 1
        <5>1. e.genesisTimestamp \in Nat
          BY <1>1 DEF EnvelopeType, Uint, HubAssumption
        <5> QED  BY <1>1, <1>5, <5>1 DEF LogBound, NewCard
      <4> QED  BY <3>1, <4>2, <4>3
    <3>2. CASE d # c
      <4>1. registry'[d] = registry[d] /\ intent'[d] = intent[d] /\ log'[d] = log[d]
        BY <1>6, <1>9, <3>2 DEF ChangesOnly
      <4> QED  BY <2>1, <4>1 DEF LogInv, LogBound
    <3> QED  BY <3>1, <3>2
  <2> QED  BY <1>2, <1>3, <1>9, <2>1 DEF LogInv
<1> QED  BY <1>6, <1>11, <1>12

(* A settlement that pays makes room for its event in the bound, unless it *)
(* closes the card (_settlePaycard).                                       *)
LEMMA SettlementMakesRoom ==
  ASSUME IInv, NEW c \in Cards, intent[c] # NoIntent, Payout(registry[c]) > 0,
         registry'[c] = Settled(registry[c]), intent'[c] = intent[c],
         registry'[c].operationalStatus = "Active"
  PROVE  LogBound(c) \in Nat /\ LogBound(c)' >= LogBound(c) + 1
<1> DEFINE card == registry[c]
<1> USE HubAssumption
<1>1. card \in CardType /\ now \in Nat
  BY DEF IInv, TypeOK
<1>2. /\ card.availableBalance \in Nat /\ card.flowVelocityPerSecond \in Nat
      /\ card.genesisTimestamp \in Nat /\ card.lifespanSeconds \in Nat
      /\ card.lastCheckpointEpoch \in Nat /\ EvaluatedEpoch(card) \in Nat
      /\ ElapsedDelta(card) \in Nat /\ AccruedDebt(card) \in Nat
      /\ Payout(card) \in 0 .. card.availableBalance
  BY <1>1, AccrualType
<1>3. /\ Settled(card).lastCheckpointEpoch =
           IF AccruedDebt(card) = 0 THEN card.lastCheckpointEpoch ELSE EvaluatedEpoch(card)
      /\ Settled(card).operationalStatus =
           IF AccruedDebt(card) # 0 /\ AccruedDebt(card) >= card.availableBalance
           THEN "Terminated" ELSE card.operationalStatus
      /\ Settled(card).genesisTimestamp = card.genesisTimestamp
      /\ Settled(card).lifespanSeconds = card.lifespanSeconds
  BY <1>1, SettledCard
<1>4. AccruedDebt(card) # 0 /\ AccruedDebt(card) < card.availableBalance
  BY <1>2, <1>3 DEF Payout
<1>5. card.lifespanSeconds # 0
  BY <1>2, <1>4 DEF AccruedDebt
<1>6. card.lastCheckpointEpoch >= card.genesisTimestamp
  <2>1. card.lastCheckpointEpoch \in card.genesisTimestamp .. StaticHorizon(card)
    BY <1>5 DEF IInv, StreamsOnSchedule
  <2>2. StaticHorizon(card) \in Nat
    BY <1>1, AccrualType
  <2> QED  BY <1>2, <2>1, <2>2
<1>7. EvaluatedEpoch(card) > card.lastCheckpointEpoch
  <2>1. ElapsedDelta(card) # 0
    <3>1. AccruedDebt(card) = ElapsedDelta(card) * card.flowVelocityPerSecond
      BY <1>5 DEF AccruedDebt
    <3> HIDE DEF card
    <3> QED  BY <1>2, <1>4, <3>1
  <2> QED  BY <1>2, <2>1 DEF ElapsedDelta
<1>8. /\ LogBound(c) = 1 + card.lastCheckpointEpoch - card.genesisTimestamp
      /\ LogBound(c)' = 1 + EvaluatedEpoch(card) - card.genesisTimestamp
  <2>1. LogBound(c) = 1 + card.lastCheckpointEpoch - card.genesisTimestamp
    BY <1>5 DEF LogBound
  <2>2. /\ registry'[c].lifespanSeconds = card.lifespanSeconds
        /\ registry'[c].genesisTimestamp = card.genesisTimestamp
        /\ registry'[c].lastCheckpointEpoch = EvaluatedEpoch(card)
    BY <1>3, <1>4
  <2>3. LogBound(c)' = 1 + registry'[c].lastCheckpointEpoch - registry'[c].genesisTimestamp
    BY <1>5, <2>2 DEF LogBound
  <2> QED  BY <2>1, <2>2, <2>3
<1> HIDE DEF card
<1> QED  BY <1>2, <1>6, <1>7, <1>8

(* Two events emitted one after the other.                                 *)
LEMMA TwoEvents ==
  ASSUME NEW x, NEW y
  PROVE  (<<>> \o <<x>>) \o <<y>> = <<x, y>>
<1> DEFINE S == {x, y}
           s == <<>> \o <<x>>
           t == s \o <<y>>
<1>1. <<>> \in Seq(S) /\ <<x>> \in Seq(S) /\ <<y>> \in Seq(S) /\ <<x, y>> \in Seq(S)
  OBVIOUS
<1> HIDE DEF S
<1>2. s \in Seq(S) /\ Len(s) = 1 /\ s[1] = x
  BY <1>1, ConcatProperties
<1> HIDE DEF s
<1>3. t \in Seq(S) /\ Len(t) = 2 /\ t[1] = x /\ t[2] = y
  BY <1>1, <1>2, ConcatProperties
<1> HIDE DEF t
<1>4. Len(<<x, y>>) = 2 /\ \A i \in 1 .. 2 : t[i] = <<x, y>>[i]
  BY <1>3
<1>5. t = <<x, y>>
  BY <1>1, <1>3, <1>4, SeqEqual
<1> QED  BY <1>5 DEF s, t

(* What makes an emitted settlement one that the reader's log allows.      *)
LEMMA SettleOfReader ==
  ASSUME NEW c \in Cards, intent[c] # NoIntent, registry[c].operationalStatus = "Active",
         NEW amount \in 1 .. registry[c].availableBalance,
         NEW left, left = registry[c].availableBalance - amount,
         Reader(c)!Emit(c, <<Reader(c)!Event("SettlementFlushed", c, amount, left)>>, left)
  PROVE  Reader(c)!Settle(c)
BY DEF Reader!Settle, Reader!Emit

(* A drip emits what it paid (processDripSettle).                          *)
LEMMA DripEmits ==
  ASSUME IInv, LogInv, LoggedNext, NEW c \in Cards, ProcessDripSettle(c)
  PROVE  ChangesOnly(c) /\ Reader(c)!Next /\ LogInv'
<1> DEFINE card == registry[c]
           avail == card.availableBalance
<1> USE HubAssumption
<1>0. PICK amount, left : amount = Payout(card) /\ left = avail - amount
  OBVIOUS
<1> DEFINE x == [kind |-> "SettlementFlushed", card |-> c, amount |-> amount, left |-> left]
<1>1. /\ registry \in [Cards -> CardType] /\ card \in CardType /\ now \in Nat
      /\ paid \in [Cards -> Nat] /\ swept \in [Cards -> Nat] /\ now <= MaxTime
  BY DEF IInv, TypeOK, LogInv
<1>2. /\ card.operationalStatus = "Active" /\ amount > 0
      /\ registry' = [registry EXCEPT ![c] = Settled(card)]
      /\ paid' = [paid EXCEPT ![c] = @ + amount]
      /\ UNCHANGED <<now, intent, swept>>
  BY <1>0 DEF ProcessDripSettle
<1>3. /\ avail \in Nat /\ amount \in 0 .. avail /\ left \in Nat
      /\ Settled(card).availableBalance = left
  BY <1>0, <1>1, AccrualType, SettledCard
<1>4. intent[c] # NoIntent /\ IInv'
  BY DripPreserves
<1>5. registry'[c] = Settled(card) /\ registry'[c].availableBalance = left /\ left # avail
  BY <1>0, <1>1, <1>2, <1>3
<1>6. ChangesOnly(c)
  BY <1>1, <1>2, <1>5 DEF ChangesOnly
<1>7. EmittedBy(c) = <<x>>
  <2>1. paid'[c] - paid[c] = amount /\ swept'[c] - swept[c] = 0 /\ left + 0 = left
    BY <1>1, <1>2, <1>3
  <2> QED  BY <1>2, <1>5, <2>1 DEF EmittedBy
<1>8. x \in EntryType /\ <<x>> \in Seq(EntryType) /\ Len(<<x>>) = 1
  BY <1>3 DEF EntryType
<1> HIDE DEF x
<1>9. /\ log'[c] = log[c] \o <<x>> /\ log' \in [Cards -> Seq(EntryType)]
      /\ \A d \in Cards : d # c => log'[d] = log[d]
  <2>1. EmittedBy(c) \in Seq(EntryType)
    BY <1>7, <1>8
  <2>2. /\ log'[c] = log[c] \o EmittedBy(c) /\ log' \in [Cards -> Seq(EntryType)]
        /\ \A d \in Cards : d # c => log'[d] = log[d]
    BY <1>6, <2>1, OnlyChangedLogs
  <2> QED  BY <1>7, <2>2
<1>10. Reader(c)!Next
  <2>1. Len(log[c]) + Len(<<x>>) <= MaxTime + 3
    BY <1>2, <1>8, RoomInLog
  <2>2. intent'[c] # NoIntent
    BY <1>2, <1>4
  <2>3. Reader(c)!Emit(c, <<x>>, left)
    <3>1. left \in Nat /\ registry'[c].availableBalance = left /\ log'[c] = log[c] \o <<x>>
      BY <1>3, <1>5, <1>9
    <3> QED  BY <1>4, <2>1, <2>2, <3>1, EmitsForReader
  <2>4. x = Reader(c)!Event("SettlementFlushed", c, amount, left)
    BY DEF x, Reader!Event
  <2>5. amount \in 1 .. avail
    BY <1>2, <1>3
  <2>6. Reader(c)!Settle(c)
    BY <1>2, <1>4, <2>3, <2>4, <2>5, <1>0, SettleOfReader
  <2> QED  BY <2>6 DEF Reader!Next
<1>11. LogInv'
  <2>1. ASSUME NEW d \in Cards, registry'[d].operationalStatus = "Active"
        PROVE  Len(log'[d]) <= LogBound(d)'
    <3>1. CASE d = c
      <4>1. log[c] \in Seq(EntryType) /\ Len(log[c]) <= LogBound(c)
        BY <1>2 DEF LogInv
      <4>2. Len(log[c]) \in Nat /\ Len(log'[c]) = Len(log[c]) + 1
        BY <1>8, <1>9, <4>1
      <4>3. LogBound(c) \in Nat /\ LogBound(c)' >= LogBound(c) + 1
        BY <1>2, <1>4, <1>5, <2>1, <3>1, <1>0, SettlementMakesRoom
      <4>4. LogBound(c)' \in Int
        <5>1. registry'[c] \in CardType
          BY <1>4 DEF IInv, TypeOK
        <5>2. /\ registry'[c].lastCheckpointEpoch \in Nat
              /\ registry'[c].genesisTimestamp \in Nat
          BY <5>1 DEF CardType, Uint, HubAssumption
        <5> QED  BY <5>2 DEF LogBound
      <4> DEFINE old == LogBound(c)
                 new == LogBound(c)'
                 n == Len(log[c])
      <4>5. /\ n <= old /\ old \in Nat /\ new >= old + 1 /\ new \in Int /\ n \in Nat
            /\ Len(log'[c]) = n + 1
        BY <4>1, <4>2, <4>3, <4>4
      <4> HIDE DEF old, new, n
      <4>6. Len(log'[c]) <= new
        BY <4>5
      <4> QED  BY <3>1, <4>6 DEF new
    <3>2. CASE d # c
      <4>1. registry'[d] = registry[d] /\ intent'[d] = intent[d] /\ log'[d] = log[d]
        BY <1>6, <1>9, <3>2 DEF ChangesOnly
      <4> QED  BY <2>1, <4>1 DEF LogInv, LogBound
    <3> QED  BY <3>1, <3>2
  <2> QED  BY <1>1, <1>2, <1>9, <2>1 DEF LogInv
<1> QED  BY <1>6, <1>10, <1>11

(* A flush emits what it paid and what it returned, each only if there is  *)
(* any (flushResidualDelta).                                               *)
LEMMA FlushEmits ==
  ASSUME IInv, LogInv, LoggedNext, NEW c \in Cards, NEW sender \in Accounts,
         FlushResidualDelta(sender, c)
  PROVE  ChangesOnly(c) /\ Reader(c)!Next /\ LogInv'
<1> DEFINE card == registry[c]
           avail == card.availableBalance
<1> USE HubAssumption
<1>0. PICK amount, rest : amount = Payout(card) /\ rest = avail - amount
  OBVIOUS
<1> DEFINE x == [kind |-> "SettlementFlushed", card |-> c, amount |-> amount, left |-> rest]
           y == [kind |-> "ResidualDeltaReclaimed", card |-> c, amount |-> rest, left |-> 0]
<1>1. /\ registry \in [Cards -> CardType] /\ card \in CardType /\ now \in Nat
      /\ paid \in [Cards -> Nat] /\ swept \in [Cards -> Nat] /\ now <= MaxTime
  BY DEF IInv, TypeOK, LogInv
<1>2. /\ avail \in Nat /\ amount \in 0 .. avail /\ amount \in Nat /\ rest \in Nat
      /\ Settled(card).availableBalance = rest /\ Settled(card) \in CardType
  BY <1>0, <1>1, AccrualType, SettledCard
<1>3. /\ card.operationalStatus = "Active"
      /\ registry' = [registry EXCEPT ![c] = ClosedCard(Settled(card))]
      /\ paid' = [paid EXCEPT ![c] = @ + amount]
      /\ swept' = [swept EXCEPT ![c] = @ + rest]
      /\ UNCHANGED <<now, intent>>
  BY <1>0, <1>1, <1>2 DEF FlushResidualDelta, CardType
<1>4. intent[c] # NoIntent /\ IInv'
  BY FlushPreserves
<1>5. avail # 0
  BY <1>3, <1>4 DEF IInv, PoolConserved
<1>6. /\ registry'[c].availableBalance = 0
      /\ registry'[c].operationalStatus = "Terminated"
  BY <1>1, <1>2, <1>3 DEF ClosedCard, CardType
<1>7. ChangesOnly(c)
  BY <1>1, <1>3, <1>6 DEF ChangesOnly
<1>8. paid'[c] - paid[c] = amount /\ swept'[c] - swept[c] = rest /\ 0 + rest = rest
  BY <1>1, <1>2, <1>3
<1>9. x \in EntryType /\ y \in EntryType
  BY <1>2 DEF EntryType
<1>10. Len(log[c]) \in Nat /\ Len(log[c]) + 1 <= MaxTime + 3 /\ Len(log[c]) + 2 <= MaxTime + 3
  BY <1>3, RoomInLog
<1>11. /\ x = Reader(c)!Event("SettlementFlushed", c, amount, rest)
       /\ y = Reader(c)!Event("ResidualDeltaReclaimed", c, rest, 0)
  BY DEF Reader!Event
<1>12. ASSUME NEW e \in Seq(EntryType), EmittedBy(c) = e, Len(e) \in {1, 2}
       PROVE  Reader(c)!Emit(c, e, 0) /\ LogInv'
  <2>1. /\ log'[c] = log[c] \o e /\ log' \in [Cards -> Seq(EntryType)]
        /\ \A d \in Cards : d # c => log'[d] = log[d]
    BY <1>7, <1>12, OnlyChangedLogs
  <2>2. Len(log[c]) + Len(e) <= MaxTime + 3
    BY <1>10, <1>12
  <2>3. Reader(c)!Emit(c, e, 0)
    <3>1. intent'[c] # NoIntent /\ 0 \in Nat
      BY <1>3, <1>4
    <3> QED  BY <1>4, <1>6, <2>1, <2>2, <3>1, EmitsForReader
  <2>4. ASSUME NEW d \in Cards, registry'[d].operationalStatus = "Active"
        PROVE  Len(log'[d]) <= LogBound(d)'
    <3>1. d # c
      BY <1>6, <2>4
    <3>2. registry'[d] = registry[d] /\ intent'[d] = intent[d] /\ log'[d] = log[d]
      BY <1>7, <2>1, <3>1 DEF ChangesOnly
    <3> QED  BY <2>4, <3>2 DEF LogInv, LogBound
  <2>5. LogInv'
    BY <1>1, <1>3, <2>1, <2>4 DEF LogInv
  <2> QED  BY <2>3, <2>5
<1> HIDE DEF x, y
<1>13. /\ <<x>> \in Seq(EntryType) /\ Len(<<x>>) = 1
       /\ <<y>> \in Seq(EntryType) /\ Len(<<y>>) = 1
       /\ <<x, y>> \in Seq(EntryType) /\ Len(<<x, y>>) = 2
  BY <1>9
<1>14. CASE rest = 0
  <2>1. amount = avail /\ amount \in 1 .. avail /\ avail - amount = 0
    BY <1>0, <1>2, <1>5, <1>14
  <2>2. EmittedBy(c) = <<x>>
    BY <1>3, <1>5, <1>6, <1>8, <1>14, <2>1 DEF EmittedBy, x
  <2>3. Reader(c)!Emit(c, <<x>>, 0) /\ LogInv'
    BY <1>12, <1>13, <2>2
  <2>4. Reader(c)!Settle(c)
    <3>1. Reader(c)!Emit(c, <<Reader(c)!Event("SettlementFlushed", c, amount, 0)>>, 0)
      BY <1>11, <1>14, <2>3
    <3> QED  BY <1>3, <1>4, <2>1, <3>1, SettleOfReader
  <2> QED  BY <1>7, <2>3, <2>4 DEF Reader!Next
<1>15. CASE rest # 0
  <2>1. amount \in 0 .. avail - 1
    BY <1>0, <1>2, <1>15
  <2> DEFINE e == IF amount = 0 THEN <<y>> ELSE <<x, y>>
  <2>2. EmittedBy(c) = e
    <3>1. CASE amount = 0
      BY <1>3, <1>6, <1>8, <1>15, <3>1 DEF EmittedBy, y
    <3>2. CASE amount # 0
      <4>1. EmittedBy(c) = (<<>> \o <<x>>) \o <<y>>
        BY <1>3, <1>6, <1>8, <1>15, <3>2 DEF EmittedBy, x, y
      <4>2. (<<>> \o <<x>>) \o <<y>> = <<x, y>>
        BY TwoEvents
      <4> QED  BY <3>2, <4>1, <4>2
    <3> QED  BY <3>1, <3>2
  <2>3. e \in Seq(EntryType) /\ Len(e) \in {1, 2}
    BY <1>13
  <2>4. Reader(c)!Emit(c, e, 0) /\ LogInv'
    BY <1>12, <2>2, <2>3
  <2>5. Reader(c)!Flush(c)
    BY <1>3, <1>4, <1>11, <2>1, <2>4, <1>0 DEF Reader!Flush
  <2> QED  BY <1>7, <2>4, <2>5 DEF Reader!Next
<1> QED  BY <1>14, <1>15

(* The Vault's log is blank at first.                                      *)
LEMMA InitLogInv == LoggedInit => LogInv
<1> SUFFICES ASSUME LoggedInit PROVE LogInv
  OBVIOUS
<1>1. now <= MaxTime
  BY HubAssumption DEF LoggedInit, Init, HubAssumption
<1>2. log = [c \in Cards |-> <<>>] /\ \A c \in Cards : intent[c] = NoIntent
  BY DEF LoggedInit, Init
<1>3. log \in [Cards -> Seq(EntryType)] /\ \A c \in Cards : Len(log[c]) = 0
  BY <1>2
<1> QED  BY <1>1, <1>2, <1>3 DEF LogInv, LogBound

(* Each transaction is a step of the reader's log of one card, and stutters*)
(* on every other.                                                         *)
LEMMA LoggedStep ==
  ASSUME IInv, LogInv, [LoggedNext]_<<vars, log>>
  PROVE  LogInv' /\ \A c \in Cards : [Reader(c)!Next]_(Reader(c)!vars)
<1>1. ASSUME UNCHANGED <<registry, intent, log>>, now' <= MaxTime
      PROVE  LogInv' /\ \A c \in Cards : [Reader(c)!Next]_(Reader(c)!vars)
  <2>1. LogInv'
    BY <1>1 DEF LogInv, LogBound
  <2>2. \A c \in Cards : UNCHANGED Reader(c)!vars
    BY <1>1 DEF Reader!vars
  <2> QED  BY <2>1, <2>2
<1>2. ASSUME LoggedNext, NEW k, ChangesOnly(k), Reader(k)!Next, LogInv'
      PROVE  LogInv' /\ \A c \in Cards : [Reader(c)!Next]_(Reader(c)!vars)
  <2>1. PICK c \in Cards : registry'[c] # registry[c]
                           /\ log' = [log EXCEPT ![c] = @ \o EmittedBy(c)]
    BY <1>2 DEF LoggedNext, ChangesOnly
  <2>2. c = k
    BY <1>2, <2>1 DEF ChangesOnly
  <2>3. ASSUME NEW d \in Cards, d # k PROVE UNCHANGED Reader(d)!vars
    <3>1. registry'[d] = registry[d] /\ intent'[d] = intent[d]
      BY <1>2, <2>3 DEF ChangesOnly
    <3>2. log'[d] = log[d]
      BY <2>1, <2>2, <2>3 DEF LogInv
    <3> QED  BY <3>1, <3>2 DEF Reader!vars
  <2> QED  BY <1>2, <2>3
<1>3. now \in Nat /\ now <= MaxTime
  BY DEF IInv, TypeOK, LogInv
<1>4. CASE LoggedNext /\ (Tick \/ Administer)
  <2>1. UNCHANGED <<registry, intent>> /\ now' <= MaxTime
    BY <1>3, <1>4, HubAssumption
    DEF Tick, history, Administer, TransferOwnership, AcceptOwnership, SetPaused,
        HubAssumption
  <2>2. log' = log
    BY <1>4, <2>1 DEF LoggedNext
  <2> QED  BY <1>1, <2>1, <2>2
<1>5. ASSUME LoggedNext, NEW e \in Envelopes, NEW claimant \in Holders,
             OpenPaycardChannel(e) \/ ClaimWildcardPaycardChannel(e, claimant)
      PROVE  LogInv' /\ \A c \in Cards : [Reader(c)!Next]_(Reader(c)!vars)
  <2>1. PICK r \in Holders :
          (e.recipient # ZeroAddress => r = e.recipient) /\ Provision(e, r)
    BY <1>5, OpensAreProvisions
  <2>2. ChangesOnly(e.paycardId) /\ Reader(e.paycardId)!Next /\ LogInv'
    BY <1>5, <2>1, ProvisionEmits
  <2> QED  BY <1>2, <1>5, <2>2
<1>6. ASSUME LoggedNext, NEW c \in Cards, ProcessDripSettle(c)
      PROVE  LogInv' /\ \A d \in Cards : [Reader(d)!Next]_(Reader(d)!vars)
  BY <1>2, <1>6, DripEmits
<1>7. ASSUME LoggedNext, NEW c \in Cards, NEW sender \in Accounts,
             FlushResidualDelta(sender, c)
      PROVE  LogInv' /\ \A d \in Cards : [Reader(d)!Next]_(Reader(d)!vars)
  BY <1>2, <1>7, FlushEmits
<1>8. CASE UNCHANGED <<vars, log>>
  BY <1>1, <1>3, <1>8 DEF vars, history
<1>9. Hub \in Holders
  BY DEF Holders
<1>10. CASE LoggedNext
  BY <1>4, <1>5, <1>6, <1>7, <1>9, <1>10 DEF LoggedNext, Next
<1> QED  BY <1>8, <1>10

(* What the Vault emits is a log its readers can replay, for any envelopes *)
(* and any block times: the amounts add up to the pool event by event, and *)
(* nothing follows the event that closes a card (_openPaycardChannel,      *)
(* _settlePaycard, flushResidualDelta).                                    *)
THEOREM LogReplayable == LoggedSpec => EmitsReplayableLog
<1>1. LoggedInit => IInv /\ LogInv
  BY InitInvariant, InitLogInv DEF LoggedInit
<1>2. IInv /\ LogInv /\ [LoggedNext]_<<vars, log>> => (IInv /\ LogInv)'
  <2>1. [LoggedNext]_<<vars, log>> => [Next]_vars
    BY DEF LoggedNext
  <2> QED  BY <2>1, StepPreserves, LoggedStep
<1>3. IInv /\ LogInv /\ [LoggedNext]_<<vars, log>>
        => [\A c \in Cards : [Reader(c)!Next]_(Reader(c)!vars)]_<<vars, log>>
  BY LoggedStep
<1>4. LoggedInit => \A c \in Cards : Reader(c)!Init
  <2> SUFFICES ASSUME LoggedInit, NEW c \in Cards PROVE Reader(c)!Init
    OBVIOUS
  <2>1. /\ log[c] = <<>> /\ intent[c] = NoIntent
        /\ registry[c].availableBalance = 0
    BY DEF LoggedInit, Init, EmptyCard
  <2> QED  BY <2>1 DEF Reader!Init
<1> QED
  BY <1>1, <1>2, <1>3, <1>4, PTL DEF LoggedSpec, EmitsReplayableLog
===============================================================================
