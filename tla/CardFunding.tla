------------------------------ MODULE CardFunding ------------------------------
(***************************************************************************)
(* How a RailsCard is funded.  A payer issues cards as links: an envelope  *)
(* on a nonce lane of its own and an EIP-2612 permit.  Whoever holds the   *)
(* link lets the cockpit read the payer's funds, land the permit if the    *)
(* Hub's allowance does not cover the card, and open the card; or asks the *)
(* relay to.  The payer meanwhile pays requests from the same allowance.   *)
(* Every read, submission and receipt is a step; a transaction is mined or *)
(* reverts when its turn comes, and a wait for it may time out.            *)
(***************************************************************************)
EXTENDS Integers

CONSTANTS
  Cards,      \* cards the payer may issue
  Holders,    \* clients that hold the links
  Amount,     \* Amount[c]: totalAllocationPool of card c
  Request,    \* amount of a payment request that the payer may pay
  MaxPaid,    \* bound on the number of requests the payer starts to pay
  Funds,      \* the payer's tokens
  Timeouts,   \* whether waits may time out
  NoCard

Default == NoCard  \* nonce lane 0, which payments of requests use
Lanes == Cards \cup {Default}

ASSUME FundingAssumption ==
  /\ NoCard \notin Cards
  /\ Amount \in [Cards -> Nat \ {0}] /\ Request \in Nat \ {0}
  /\ MaxPaid \in Nat /\ Funds \in Nat /\ Timeouts \in BOOLEAN

VARIABLES
  balance, allowance,  \* of the payer: tokens, and what the Hub may take
  permitNonce,         \* the token's nonces(payer)
  laneNonce,           \* the Hub's accountNonceTracks[payer]
  permit,              \* permit[c]: permit nonce that card c carries, or -1
  expired,             \* cards whose permit is past its deadline
  opened,              \* history: the cards that were opened
  pool,                \* transactions that were sent and not mined
  client,              \* client[h]: the claim that holder h has under way
  told,                \* history: the cards that a client called stale
  flow                 \* the payment of a request that is under way

chain == <<balance, allowance, permitNonce, laneNonce, opened>>
fundingVars == <<chain, permit, expired, pool, client, told, flow>>

Idle == [stage |-> "idle", card |-> NoCard]

FundingInit ==
  /\ balance = Funds /\ allowance = 0 /\ permitNonce = 0
  /\ laneNonce = [l \in Lanes |-> 0]
  /\ permit = [c \in Cards |-> -1] /\ expired = {} /\ opened = {}
  /\ pool = {} /\ client = [h \in Holders |-> Idle] /\ told = {}
  /\ flow = [stage |-> "idle", nonce |-> 0, started |-> 0]

-------------------------------------------------------------------------------
(* Issuance (generateLink): the random lane is one that no payment uses,   *)
(* the nonce is its first, and the permit is for the token's next one.  The*)
(* step is the last of its reads, that of the permit nonce; nothing moves  *)
(* the fresh lane meanwhile.  The amount is compared with a balance that   *)
(* may be stale or not loaded, so that it may exceed what the payer has.   *)

(* Mutant: cards take the lane of the payer's other payments.              *)
SharedLane(c) == Default

LaneOf(c) == c

IssueCard(c) ==
  /\ permit[c] = -1 /\ laneNonce[LaneOf(c)] = 0
  /\ permit' = [permit EXCEPT ![c] = permitNonce]
  /\ UNCHANGED <<chain, expired, pool, client, told, flow>>

Expire(c) ==
  /\ permit[c] # -1 /\ c \notin expired
  /\ expired' = expired \cup {c}
  /\ UNCHANGED <<chain, permit, pool, client, told, flow>>

-------------------------------------------------------------------------------
(* Transactions.  A wallet estimates one before it sends it, and does not  *)
(* send what would revert.  The same call sent twice is one transaction    *)
(* here: of the two, the one mined second reverts.                         *)
Tx(kind, c, n) == [kind |-> kind, card |-> c, nonce |-> n]

Covered(amount) == amount <= balance /\ amount <= allowance

PermitValid(c) == permit[c] = permitNonce /\ c \notin expired

Valid(tx) ==
  CASE tx.kind = "permit" -> PermitValid(tx.card)
    [] tx.kind = "approve" -> TRUE
    [] tx.kind = "open" -> laneNonce[LaneOf(tx.card)] = 0 /\ Covered(Amount[tx.card])
    [] tx.kind = "pay" -> laneNonce[Default] = tx.nonce /\ Covered(Request)

Take(amount, lane) ==
  /\ balance' = balance - amount /\ allowance' = allowance - amount
  /\ laneNonce' = [laneNonce EXCEPT ![lane] = @ + 1]
  /\ UNCHANGED permitNonce

Land(tx) ==
  \/ /\ tx.kind = "permit"
     /\ allowance' = Amount[tx.card] /\ permitNonce' = permitNonce + 1
     /\ UNCHANGED <<balance, laneNonce, opened>>
  \/ /\ tx.kind = "approve"
     /\ allowance' = Request
     /\ UNCHANGED <<balance, permitNonce, laneNonce, opened>>
  \/ /\ tx.kind = "open"
     /\ Take(Amount[tx.card], LaneOf(tx.card)) /\ opened' = opened \cup {tx.card}
  \/ /\ tx.kind = "pay"
     /\ Take(Request, Default) /\ UNCHANGED opened

Mine(tx) ==
  /\ tx \in pool /\ pool' = pool \ {tx}
  /\ IF Valid(tx) THEN Land(tx) ELSE UNCHANGED chain
  /\ UNCHANGED <<permit, expired, client, told, flow>>

-------------------------------------------------------------------------------
(* A claim from the holder's wallet (claimRailsCard).                      *)

Move(h, stage, c) == client' = [client EXCEPT ![h] = [stage |-> stage, card |-> c]]

Stale(c) == laneNonce[LaneOf(c)] # 0

NeedsPermit(c) == allowance < Amount[c]

(* Mutant: a permit that covers the card exactly is not enough.            *)
FundableStrictly(c) ==
  Amount[c] < balance /\ (~NeedsPermit(c) \/ c \notin expired)

(* evaluateRailsCardFunding: whether the permit's nonce is still the       *)
(* token's is not looked at.                                               *)
Fundable(c) == Amount[c] <= balance /\ (~NeedsPermit(c) \/ c \notin expired)

ReadFunding(h, c) ==
  /\ client[h].stage = "idle" /\ permit[c] # -1
  /\ \/ /\ Stale(c)
        /\ told' = told \cup {c} /\ UNCHANGED client
     \/ /\ ~Stale(c) /\ Fundable(c)
        /\ Move(h, IF NeedsPermit(c) THEN "permit" ELSE "open", c)
        /\ UNCHANGED told
  /\ UNCHANGED <<chain, permit, expired, pool, flow>>

PermitTx(h) == Tx("permit", client[h].card, 0)
OpenTx(h) == Tx("open", client[h].card, 0)

(* The wallet refuses, or the permit is sent; its receipt is awaited and   *)
(* not looked at.                                                          *)
SendPermit(h) ==
  /\ client[h].stage = "permit"
  /\ IF Valid(PermitTx(h))
     THEN pool' = pool \cup {PermitTx(h)} /\ Move(h, "permitting", client[h].card)
     ELSE Move(h, "reread", client[h].card) /\ UNCHANGED pool
  /\ UNCHANGED <<chain, permit, expired, told, flow>>

AwaitPermit(h) ==
  /\ client[h].stage = "permitting"
  /\ IF PermitTx(h) \notin pool THEN Move(h, "open", client[h].card)
     ELSE Timeouts /\ Move(h, "reread", client[h].card)
  /\ UNCHANGED <<chain, permit, expired, pool, told, flow>>

(* After a failed permit the allowance alone is read again.                *)
RereadAllowance(h) ==
  /\ client[h].stage = "reread"
  /\ IF NeedsPermit(client[h].card) THEN client' = [client EXCEPT ![h] = Idle]
     ELSE Move(h, "open", client[h].card)
  /\ UNCHANGED <<chain, permit, expired, pool, told, flow>>

SendOpen(h) ==
  /\ client[h].stage = "open"
  /\ IF Valid(OpenTx(h))
     THEN pool' = pool \cup {OpenTx(h)} /\ Move(h, "opening", client[h].card)
     ELSE client' = [client EXCEPT ![h] = Idle] /\ UNCHANGED pool
  /\ UNCHANGED <<chain, permit, expired, told, flow>>

AwaitOpen(h) ==
  /\ client[h].stage = "opening"
  /\ OpenTx(h) \notin pool \/ Timeouts
  /\ client' = [client EXCEPT ![h] = Idle]
  /\ UNCHANGED <<chain, permit, expired, pool, told, flow>>

(* relayClaim: it lands the permit if it has to, and then names variables  *)
(* it does not declare, so that nothing is opened.                         *)
RelayClaim(c) ==
  /\ permit[c] # -1 /\ ~Stale(c) /\ Amount[c] <= balance
  /\ NeedsPermit(c) /\ PermitValid(c)
  /\ pool' = pool \cup {Tx("permit", c, 0)}
  /\ UNCHANGED <<chain, permit, expired, client, told, flow>>

-------------------------------------------------------------------------------
(* The payer pays a request (payRailsFlow, submit): it reads the nonce of  *)
(* lane 0, approves the amount if the allowance is smaller, and opens.     *)

ApproveTx == Tx("approve", NoCard, 0)
PayTx == Tx("pay", NoCard, flow.nonce)

Step(from, to) == flow.stage = from /\ flow' = [flow EXCEPT !.stage = to]

StartPayment ==
  /\ flow.stage = "idle" /\ flow.started < MaxPaid
  /\ flow' = [stage |-> "allow", nonce |-> laneNonce[Default],
              started |-> flow.started + 1]
  /\ UNCHANGED <<chain, permit, expired, pool, client, told>>

Approve ==
  /\ IF allowance < Request
     THEN pool' = pool \cup {ApproveTx} /\ Step("allow", "approving")
     ELSE UNCHANGED pool /\ Step("allow", "sign")
  /\ UNCHANGED <<chain, permit, expired, client, told>>

AwaitApproval ==
  /\ IF ApproveTx \notin pool THEN Step("approving", "sign")
     ELSE Timeouts /\ Step("approving", "idle")
  /\ UNCHANGED <<chain, permit, expired, pool, client, told>>

SendPayment ==
  /\ IF Valid(PayTx) THEN pool' = pool \cup {PayTx} /\ Step("sign", "paying")
     ELSE UNCHANGED pool /\ Step("sign", "idle")
  /\ UNCHANGED <<chain, permit, expired, client, told>>

AwaitPayment ==
  /\ PayTx \notin pool \/ Timeouts
  /\ Step("paying", "idle")
  /\ UNCHANGED <<chain, permit, expired, pool, client, told>>

-------------------------------------------------------------------------------
Claim(h) ==
  \/ \E c \in Cards : ReadFunding(h, c)
  \/ SendPermit(h) \/ AwaitPermit(h) \/ RereadAllowance(h)
  \/ SendOpen(h) \/ AwaitOpen(h)

Pay == StartPayment \/ Approve \/ AwaitApproval \/ SendPayment \/ AwaitPayment

FundingNext ==
  \/ \E c \in Cards : IssueCard(c) \/ Expire(c) \/ RelayClaim(c)
  \/ \E tx \in pool : Mine(tx)
  \/ \E h \in Holders : Claim(h)
  \/ Pay

FundingSpec == FundingInit /\ [][FundingNext]_fundingVars

(* Blocks are mined; a client goes on with what it has begun, and a holder *)
(* of a link tries again until the card is opened.                         *)
FairFundingSpec ==
  /\ FundingSpec
  /\ WF_fundingVars(\E tx \in pool : Mine(tx)) /\ WF_fundingVars(flow.stage # "idle" /\ Pay)
  /\ \A h \in Holders :
       /\ WF_fundingVars(client[h].stage # "idle" /\ Claim(h))
       /\ \A c \in Cards : SF_fundingVars(ReadFunding(h, c))

-------------------------------------------------------------------------------
(* The payer's promise stands: it has the tokens, and either the Hub may   *)
(* take them or the card's own permit makes it so.                         *)
Honoured(c) ==
  /\ Amount[c] <= balance
  /\ Amount[c] <= allowance \/ PermitValid(c)

Outstanding(c) == permit[c] # -1 /\ c \notin opened

(* "Stale or already claimed" is the truth: nothing but the claim of a     *)
(* card itself makes its nonce stale, not the claims of other cards nor    *)
(* the payer's payments (selectUnusedRailsCardLane).                       *)
StaleMeansClaimed == \A c \in Cards : c \in told => c \in opened

(* A card whose promise keeps standing is claimed by a holder that keeps   *)
(* trying, although permits are landed by others, waits time out and       *)
(* claims of the same card race (claimRailsCard, relayClaim).              *)
HonouredClaimed == \A c \in Cards : []<>~(Outstanding(c) /\ Honoured(c))

(* Outstanding cards can be redeemed in any order without invalidating one *)
(* another: after one was claimed, a card whose permit has not expired is  *)
(* still funded if the payer holds the tokens (newPayment.ts:3-4).         *)
CardsIndependent ==
  \A c \in Cards :
    opened # {} /\ Outstanding(c) /\ c \notin expired /\ Amount[c] <= balance
      => Honoured(c)
===============================================================================
