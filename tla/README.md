# A verification development of OpenRails

OpenRails escrows a payer's tokens in a Vault contract under an envelope signed
off-chain, drips them to a recipient as block time passes, and returns the
rest. Around the contract run several programs that rebuild its state from its
event log (a gateway, an indexer), settle its streams (a keeper), and authorise
payments before they reach it (the Runtime over its stores, the agent budget
registry), and the cockpit, whose cards fund an envelope with a permit.

This directory holds TLA+ modules that model the contracts and the stateful
programs, TLC configurations that check them on small instances, and theorems
with proofs that TLAPS checks. Paths below are relative to the repository;
`PROJECT.json` maps every definition to the lines it stands for.

## 1. Inventory

### Modelled

| Component | State | Operations | What is hard |
| --- | --- | --- | --- |
| **Vault V1**, `contracts/ArcOpenRailsHubV1.sol` | nonce lanes, paycard registry, one token escrow, owner, pause flag | open, wildcard claim, drip, flush, pause, two-step ownership | competing envelopes; checkpoint, horizon and clamp arithmetic; checked products; one balance behind all cards; an enum whose zero is `Active` |
| **Vault event log** | three event kinds | emitted by open, drip, flush | all readers rebuild balances from it alone |
| **Stream gateway**, `stream-gateway/` | in-memory projection, termination queue, dedupe keys; events file and snapshot file | start, live log, backfill, expiry sweep, stop | handlers interleave at an await; two files written one after the other; unhandled rejections end the process |
| **Indexer**, `workers/indexer-worker/` | events, rows, cursors and watched vaults in D1 | one tick: factory scan, vault scans, ingestion | every statement is awaited; ticks overlap and fail; a chunk budget shared by all scans |
| **Reconciliation worker**, `workers/reconciliation-worker/` | nothing (chain mode) or the `plays` table (d1 mode) | one pass of either settler | overlapping passes; a decision on a value read earlier; batch limits; the failure of one settlement |
| **Agent budget registry**, `contracts/AgentBudgetRegistry.sol` | budgets, bindings, lists | create, halt, bind | deterministic ids, overflow, one list per budget |
| **Runtime**, `packages/openrails-runtime/src/` | workspaces, actors, paths, intents, proposals, decisions, pacts, proofs, usage buckets, replay nonces | `ingestPath` and the ten operations of `execute` | proposals that are submitted or evaluated or both, in different periods; revocation between any two steps; competing signers |
| **Runtime stores**, `packages/openrails-runtime/src/store.ts`, behind `workers/interface-worker/` | one state row and a table of replay nonces in Postgres; in memory, a state, a set of nonces and a chain of promises | `transact`, as the Interface worker's two writing routes call it | every statement is awaited and may reject after the server executed it; a row lock, the first insert of the row, retries with the same signature |
| **Cockpit cards**, `cockpit/src/lib/useRailsActions.ts`, `relayClaim` of the reconciliation worker | the payer's allowance and permit nonce on the token, nonce lanes on the Vault, transactions under way | issue a card, claim it, relay its claim, pay a request | one permit nonce and one allowance behind all cards; somebody else lands the permit; waits that time out |

They interact as follows. A payer's envelope becomes a Vault transaction (by
anybody). The Vault's transactions append to its log. The gateway gets the log
by subscription and by `getLogs`; the indexer by `getLogs` from a stored
cursor. The keeper lists the log's recent provisions, reads the registry and
sends drips, which append to the log in turn. The Runtime and the budget
registry hold records of what was authorised; no code of theirs calls the
Vault, and none of the Vault's reads them. The Interface worker is HTTP in front
of the Runtime: it passes each request to the store's `transact` and reports
what came of it. A cockpit claims a card with two transactions, a permit on the
token and an open on the Vault, and the relay does so for whoever asks.

### What makes each component correct

* Vault: a recipient gets exactly what the clock entitles it to, however often
  and by whomever a card is dripped; every token of a pool is paid, swept or
  held; no card is paid out of another's escrow; a nonce funds one card; a
  closed card stays closed; a pause stops no payout.
* Log: replaying it gives back what the Vault holds.
* Gateway and indexer: no projection shows less than the chain holds or closes
  an open card; each event is applied at most once; each is taken in in the
  end; no cursor passes an event that was not ingested.
* Keeper: what is due is paid; a play is resolved once, and marked settled only
  if its card was dripped, with the exception that overlapping passes make.
* Budget registry: what is committed is what the listed paycards are bound
  with; a paycard is listed once; an inactive budget stays so.
* Runtime: usage is counted once, in the bucket where it was reserved, within
  the limit; a pact stands on one reserved and allowed proposal; a decision is
  final; a revoked path authorises nothing again.
* Runtime stores: each attempt takes effect at one moment, against the state of
  that moment and together with its nonce, or not at all; its client is told
  nothing else; nobody waits for ever.
* Cards: only the claim of a card makes it stale; a card that stays funded is
  claimed; outstanding cards do not invalidate one another.

### Not modelled, and why

* **Vault V2, Factory** (`contracts/v2-factory/`). The payment engine of V2 is V1's
  line by line; the payer is a signed field in place of the address that the
  signature recovers, which is how `Envelopes` has it already, and
  `SignatureChecker` also admits contract wallets, whose answer is not the
  Vault's code. The factory clones and initialises in one transaction, so no
  state lies between the two. A module of it would be `OpenRailsHub` again, with
  nothing shared between clones. The deployments that readers depend on are
  actions of `IndexerScan`.
* **Workflow NFT**: a prototype; no contract reads what it stores.
* **Relay endpoints of the reconciliation worker**: `relayClaim` is modelled as far
  as it gets, in `CardFunding`: it lands the permit and then refers to
  `nonceChannel` and `nonceValue` (`index.ts:276-277`), which it does not declare.
  `relayOpen` refers to `payer` and `allocation`, undeclared as well, before its first
  transaction (`index.ts:341` with a permit, `357-369` without), and changes nothing.
* **Interface worker**: the two writing routes are attempts of `RuntimeStore`; the
  read routes change nothing.
* **Cockpit**: the sponsored forms of a payment end at the relay; `reserveRailsCardAllowance`
  of the SDK (`wallet.ts:364-392`), a fourth way to set the allowance, is not
  called by the cockpit; pages only display.
* **Faucet worker**: it reads its cooldowns before it awaits a transfer and writes
  them after it. What one would want of it (one payout per address and
  cooldown, a daily cap) is false of this code by construction, and the code
  does not claim to be exact; the hazard is listed.
* **SDK nonce engine, relayer server**: `nextNonce` is exported and used by tests
  only; nothing in the repository composes it with an open. The relayer's token
  bucket is a sequential function of the time, and its one retry submits the
  same signed envelope, which the Vault admits once (`NonceFundsOneCard`).
* **x402 worker and access middleware, SDK clients, links, receipts, MCP
  server**: keep no state between calls.
* **Scrobble worker**: its inserts are an action of `PlaysReconciliation`; the
  rest is HTTP and session cryptography.
* **Webhooks and micro-accrual timer of the gateway**: fire-and-forget fan-out
  and a projection that the code calls non-authoritative.
* **Schemas, registries, generated code, cockpit pages, dashboard, scripts,
  experiments, examples, mock tokens**: data, user interfaces and prototypes.
  They are the greater part of the repository's lines: generated schemas
  (twice 13,000 lines), user interfaces, and stateless client code.

## 2. Modules

```
EscrowPromise <--refines-- OpenRailsHub --emits--> LoggedHub --refines--> HubLog
                                                                          |    |
                                                              StreamGateway    IndexerIngest
IndexerScan
RailsSettler + PlaysReconciliation --> ReconciliationWorker
AgentBudgetRegistry
Runtime
AtomicStore <--refines-- RuntimeStore
CardFunding

OpenRailsHubProofs           the Vault, its promise and its log
StreamGatewayProofs          the gateway
IndexerIngestProofs          ingestion
IndexerScanProofs            discovery and scans
ReconciliationWorkerProofs   the plays of d1 mode
GrantProofs                  the budget registry and the cards
RuntimeProofs                the Runtime and its stores
FiniteSums                   sums over finite sets, for the proofs that need them
```

* **OpenRailsHub**: one action per external function of the Vault. A transaction
  is atomic and `nonReentrant`, so it is one step; a revert changes nothing, so
  it is an action that is not enabled. Signature recovery is the set
  `Envelopes` of intents that payers signed: submitted fields that differ from
  what was signed recover an address that approved nothing, and the token
  refuses the transfer. The token is a standard one. `intent`, `paid` and
  `swept` are history variables.
* **EscrowPromise**: the abstract specification of a card: a closed form of what
  the clock entitles the recipient to, without checkpoints and balances. A
  settlement pays exactly the difference, a flush returns exactly the rest.
* **HubLog**: the Vault as its readers see it, a log of provisions, settlements and
  reclaims with what is available after each. **LoggedHub** is `OpenRailsHub` with
  its `emit` statements. Cards only meet in the order of the log, so it keeps a
  log per card, and the log of each card implements the `HubLog` of that card
  alone (`Reader(c)`); the `HubLog` of all cards, which the gateway and the indexer
  read, is their interleaving.
* **StreamGateway**: the gateway over `HubLog`. `handleLog` has two steps, before
  and after the awaited `getBlock`; the second writes the events file, changes
  the store and writes the snapshot, and may crash between any two writes; the line
  of the events file is appended whole or not at all. `Stores`
  picks the durable or the in-memory store. Wall-clock time is the set of
  streams whose lifespan has elapsed.
* **IndexerIngest**: `runTick` on one vault, a step per awaited statement; the
  log it reads is `HubLog`, from the block of the vault's first scan on. A block holds
  one log, which only adds places where a chunk may end.
* **IndexerScan**: the factory scan and the vault scans, their cursors and the
  chunk budget; a chunk is a set of blocks.
* **RailsSettler**, **PlaysReconciliation**: the two settlers of the
  reconciliation worker, a step per awaited call. Of the Vault they keep what
  the keeper reads: active or not, streaming or one-time, and what has accrued.
  Plays are the row ids of the table. `dripped` and `late` are history variables: the
  plays a drip came after, and those that a pass locked while another had dripped
  their card and not yet marked it. **ReconciliationWorker** composes them by `SETTLER_MODE`.
* **AgentBudgetRegistry**: the contract's three functions with the two views that
  guard them.
* **Runtime**: `execute` runs a request in one store transaction that the stores
  serialise and roll back on an error, so a request is one step and a refused
  request none. `Requests` is the set of requests that were signed, which may
  arrive at any time and in any order; documents are constants, because their
  ids are hashes of their content. The answer of the path attestor is awaited
  before the transaction, so `IngestPath` may happen at any time. The
  canonical records that `pact.sign` binds, schema validation and the
  verification of signatures are left out.

* **AtomicStore**, **RuntimeStore**: what `Runtime` takes for granted, that a request is
  one step, and the two stores that owe it. `RuntimeStore` has a step per awaited
  statement of the Postgres store and per turn of the memory store; what the
  Runtime makes of a state is the constant `Transition`. Replaying a nonce that
  another transaction inserted and did not commit waits in Postgres for that
  transaction; the row lock, taken first, keeps any from getting that far.
* **CardFunding**: a payer's token and lanes, the cards it issued, the clients that
  claim them and the relay. A wallet estimates a transaction before it sends it,
  and a call that is sent twice is one transaction, because the second of two
  reverts. A card may be issued for more than the payer has: the balance it is compared
  with may be stale. Blocks order transactions arbitrarily.

Every `MC*` module gives its component's constants values; every `.cfg` is one
run. Definitions whose comment begins with "Mutant" are the faults that
`PROJECT.json` pairs with the properties they break.

## 3. Runs

All numbers of states are distinct states.

| Run | What it asks | Instance |
| --- | --- | --- |
| `hub` | Is the escrow sound, are streams paid out, do the events implement `HubLog`? | 2 accounts that pay each other, 3 ids, 7 competing envelopes, 5 seconds, `MaxUint` 10; 49,000 states |
| `gateway` | Does the projection stay correct when handlers interleave and crash, over either store? | one stream and one one-time payment, 3 logs, 1 crash; 149,000 states |
| `gateway_restart` | violated: does a restart rebuild the state? | in-order delivery, 1 crash |
| `indexer` | Do overlapping and failing ticks keep rows and cursor right? | one card, 4 logs, 2 ticks, window 2, 1 failure; 136,000 states |
| `indexer_overlap` | violated: do two overlapping ticks leave the rows that one would? | one card, 3 logs, no failure |
| `indexer_scan` | Do discovery, windows and budget leave no block behind? | canonical hub and 2 clones, 4 blocks, window 2, 4 chunks, 1 failure; 95,000 states |
| `reconciliation` | Does either settler pay what is due, once? | 2 cards, a stream and a one-time payment, and 2 passes; 4 plays of 3 ids, one of them invalid, and 2 passes; 1 failure; 200,000 states |
| `agent_budget` | Are commitments backed by the list? | 2 budgets, 3 paycards, `MaxUint` 3; 35,000 states |
| `runtime` | Are usage, pacts, decisions and revocations right under competing requests? | 22 signed requests over 2 paths, 3 intents, 3 proposal ids, 2 pacts, 4 seconds; 62,000 states |
| `runtime_store` | Does either store do what `Runtime` takes for granted? | 4 attempts, one the retry of another, over either store; any await may reject; 31,000 states |
| `card_funding` | Are cards claimed, and stale only when claimed? | 2 cards of amounts 1 and 2, a holder, the relay, 1 payment of 2, 4 tokens; 54,000 states |
| `cards_independent` | violated: can outstanding cards be redeemed in any order? | 2 cards, 2 holders, no payment, no timeout |

### Why the instances are large enough

* `hub`: the envelopes were chosen so that each guard decides something: a stream
  that starts late and ends in a partial second, a wildcard with a buffer that
  its lifespan cannot use up and a residual that goes to the Vault itself, a
  velocity whose product overflows `MaxUint` after two seconds, the same id from
  two payers, the same nonce in two envelopes, two malformed terms. Five seconds
  let every stream begin, end and be settled late.
* `gateway`: three logs are a provision and two settlements of one stream, or two
  cards that interleave: enough for a late settlement, a repeated one, and one
  before its card is known. One crash is enough to be before, between or inside
  each pair of writes; a second one only restarts again.
* `indexer`: four logs of one card are two chunks; two ticks are what cron and
  one POST can do to each other. Cards do not share rows, so that one suffices.
* `indexer_scan`: two clones can be discovered in one chunk or in two, and the
  second depends on a budget that the first uses as well.
* `reconciliation`: two cards are one in front of the other, in either order; an
  accrual of up to 3 steps with a threshold of 2 is below, at and above it. Of the
  four plays the first and the last share a card, so that the last may be inserted
  and locked at any point of a pass that settles the first; one between them has
  an invalid id, and a batch of two ids leaves one out. Two passes are cron and one
  POST. Plays arrive in the order of their ids, which is that of the inserts.
* `agent_budget`: allocations 0, 1 and 3 of at most 3 fit, fill and overflow.
* `runtime`: the two limits of a path have periods of 2 and 3 seconds, so that a
  proposal submitted in one bucket is evaluated in the next of one limit and the
  same of the other; two intents name the same pact; one proposal id is signed
  with two contents; one nonce is signed twice; one path comes from an older
  state row without an attestation.

* `runtime_store`: two attempts are enough for each pair of statements to interleave;
  the others are a retry that must conflict, one that consumes no nonce, and one
  that is refused in the state the first leaves and admitted in the state before.
* `card_funding`: the allowance is below, at and above what each card needs, by
  permits, by the approval of the payment and by what is left of either; the
  tokens do not suffice for both cards and two payments.

A run that says `CHECK_DEADLOCK FALSE` has behaviours that end: the clock, the
log or the set of envelopes and requests is bounded, and after that the system
has nothing to do. `agent_budget` checks for deadlock: a budget may
always be created or halted once more.

### Fairness

* `hub`: weak fairness of the clock and of a drip of every card. Blocks keep
  coming, and `processDripSettle` is open to anybody: the recipient who wants
  to be paid, or the keeper. Nobody is assumed to open, flush or unpause.
* `gateway`: weak fairness of what the event loop and the providers do (deliver a
  log, answer `getBlock`, run the loop of a backfill, run the timer) and of
  starting a gateway that is down. Crashes are not fair, but bounded. Without a
  supervisor `EveryEventTakenIn` fails, because the code never restarts itself.
* `indexer`, `indexer_scan`, `reconciliation`: cron keeps starting ticks or passes,
  and one under way goes on until an await rejects. Failures are bounded. In
  `indexer_scan` a second tick does not overlap the first.
* `runtime_store`: weak fairness of each attempt: its statements are executed,
  answered or rejected, a free lock is granted, and the server ends what a closed
  connection left open.
* `card_funding`: transactions are mined; a client, and a payer, go on with what they
  have begun; a holder tries again (strongly fair, because a card may lapse and
  be funded again in between). Nobody is assumed to issue a card, to land a
  permit for somebody else or to pay a request.
* `runtime`, `agent_budget`: none; they check safety.

## 4. Where the code does not do what is said of it

Three runs are expected to find a violation; `findings` in `PROJECT.json` quote
the sentences.

1. `gateway_restart`: `handleLog` records the event key before it applies the
   event. After a crash between the two writes, every replay skips the event.
2. `indexer_overlap`: of two overlapping ticks, the first has inserted a provision
   (`index.ts:227`) and not yet upserted its row (`238`). The second skips the
   provision as already recorded (`234`), inserts the settlement after it, finds no
   row (`265`) and drops its effect (`269`) as one of a paycard "this indexer hasn't
   seen provisioned yet". The first upserts the full pool, which the row then shows
   for good: the settlement is recorded, and no tick applies it again.
3. `cards_independent`: all outstanding cards carry a permit for the same token nonce
   (`newPayment.ts:272`), so the first that lands makes the others worthless.

Further deviations, met while modelling. They have no run of their own; the
properties exclude them by name, or their instance stays clear of them:

* *Gateway, order*: a live settlement that is handled before the backfilled
  provision of its card is dropped (`index.ts:337, 344, 386`), so the card's
  projection overstates. `ExactUnlessOvertaken` excepts the cards in `overtaken`.
* *Gateway, snapshot*: a snapshot that a crash left half-written is discarded at
  load (`state-store.ts:319`), and nothing rebuilds it from the events file.
  History `corrupted`.
* *Indexer, read and write*: the balance is read (`index.ts:265`) and written (`272`) in
  two statements; a tick that writes between them with the effect of a later event is
  overwritten. History `raced`, of which `indexer_overlap` is a case as well.
* *Indexer, failure*: a tick that fails between the insert (`index.ts:227`) and the
  effect (`238-289`) leaves the row without the effect. History `torn`.
* *Indexer, budget*: every scan starts again at the block of its cursor, so that a
  scan that is up to date costs a chunk per tick; with as many scans as chunks
  the next vault is never scanned, although "Remaining backfill continues on the
  next tick" (`workers/indexer-worker/wrangler.toml:18`). The run has a chunk for
  every scan.
* *Keeper, failing drip*: the catch clause of the settle loop calls `safeRpcError`,
  which the module does not import (`index.ts:450-453`), so one drip that reverts
  ends the pass, and a card that always reverts starves those behind it. The run
  has no such card (`Faulty` is empty); drips still revert when another pass or
  the payer came first.
* *Keeper, window*: a stream provisioned before `SETTLER_WINDOW_BLOCKS` is not
  listed (`index.ts:413`). The run keeps `Window` as large as the chain.
* *Keeper, batch*: the batch counts from the front of a list that each pass begins
  anew (`index.ts:421`). The run has a batch with room for all cards.
* *d1 mode, stuck plays*: for the same missing import the plays of a failed pass are
  not unlocked (`index.ts:531`) and stay in progress. `PendingTakenUp` speaks of
  the plays that are pending.
* *d1 mode, overlap*: the final update names the paycard alone (`index.ts:527`), so
  that a pass marks the plays settled that another one, cron's or a POST's, has
  locked since the drip; if the other's drip then fails or reverts, they stay
  "Settled successfully" (`workers/schema.sql:12`) and no drip came after them.
  `SettledMeansDripped` excepts these plays by the history `late`. Without the
  exception TLC finds it violated in the same instance, in twelve states. The
  update of a skipped card (`514`) names the paycard alone as well, so that a play
  whose drip exhausted the card may be marked skipped by the other pass.
* *Runtime, period*: a pact may be signed in a later period than the one in which
  its usage was reserved; nothing in the code says otherwise.
* *Runtime store, lost answer*: an attempt that is answered with a retryable internal
  error may have been committed; its retry is then answered with a replay
  conflict. `AtomicStore` lets an error say nothing.
* *Cards, lapsed*: a card whose allowance a later `approve` overwrote, and whose
  permit nonce is gone, stays unclaimable until its payer allows it again.
  `HonouredClaimed` speaks of cards that stay funded.

## 5. Proofs

Each theorem holds for every value of the constants that satisfies the module's
named assumption, which only says what kind of thing each constant is and which
values differ. TLC evaluates the assumptions in every run. Every invariant that a passing
run checks is also proved; so is every action property, and every refinement.

Two assumptions deserve a word. `FiniteCards` (`OpenRailsHub`): paycard ids are
`bytes32`, so there are finitely many, and the escrow is a sum over them.
`GatewayAssumption` has pools that are positive, which is the Vault's own guard
(a provision of zero reverts).

**FiniteSums.** Half of what one wants of an escrow is an equation between sums, and
a sum over a set is defined by recursion. The library's induction theorems take
a predicate as a parameter, which the provers cannot instantiate. This module
goes round them: if a set of finite sets lacks one of its subsets, the
cardinalities of what it lacks are a set of naturals, and that has a least
element; the set of that cardinality contradicts the step (`SubsetInduction`,
which is about a set of sets, not a predicate). From it: what
`SumFunctionOnSet` computes (`SumEmpty`, `SumJoin`), its type (`SumNat`), that
equal values have equal sums (`SumSame`), and that a part sums to no more than
the whole (`SumPart`).

**OpenRailsHubProofs.** A card's balances cannot be proved conserved alone: a
drip pays `elapsed * velocity`, and that this is what the recipient is owed
depends on the checkpoint. The inductive invariant `IInv` (which is
`TypeOK`, `CardsRecorded`, `PoolConserved`, `StreamsOnSchedule`) says that a registry entry
keeps the terms that were signed and a spent nonce, that paid, swept and
available add up to the pool, and that the checkpoint of an active stream lies
between genesis and horizon with everything before it paid. A drip or a flush
moves both sides of the last equation alike, also when it is clamped by the
balance. From it follow `TypeCorrect`, `PoolsConserved`, `NonceSpentOnce`,
`NeverAheadOfClock`, `TerminatedForGood`, and `VaultKeepsPromise`: every transaction
is a step of `EscrowPromise` or a stutter.
`StreamsKeepSchedule` is the part of `IInv` about the checkpoint, as the runs have it.

`HubSolvent`: the Vault's token balance covers the sum of what its cards have
available. A drip lowers one card's share and the balance alike, and one that pays the Vault
itself lowers the share only. `SettlementsDoNotRevert` joins this to `IInv`: no card has more
available than the Vault holds, so no transfer fails, and the checked product is
representable whenever the whole lifespan's is.

`LogReplayable` is the second refinement, of `HubLog` by the Vault with its log: the
transaction of a card is a step of that card's reader, and a stutter of every
other. The reader's log is bounded, so the proof needs `LogInv`: every settlement
that pays moves the checkpoint on, so that the log of an active card is no longer
than one entry more than the seconds from genesis to checkpoint.

**StreamGatewayProofs.** Three parts. `LogInv` says what a log can be: each event of a
card continues from the balance the one before it left (`Follows`), the last leaves
what the Vault holds, and an open card has one provision, equal to its balance and
everything settled. `CallInv` says what a `handleLog` call can be: a log waits at most once, is known from
the moment its call is made, and a durable store has recorded every log whose
call is over; so what is *taken in* (recorded, or noted and not waiting) is
taken in once per life of the store. `FileInv`: the snapshot is what is in
memory, unless a crash truncated it. `Steps` reduces every action to one of four
things that can happen to the projection that survives: the Vault moves, it
stays (or expired streams are flagged, or it starts from nothing), the process
dies, or it takes in one log. `GatewayInvariant`, `GatewayTypeCorrect`.

`ProjectionNeverUnderstates` then needs `Backed`: for an open card, what the projection
has available and the settlements taken in cover the pool. It is an inequality
because a settlement that was taken in before its provision was dropped and never
subtracted. A settlement in hand is one of those not taken in, so if the card is open the projection has
more than its amount: it neither falls short nor terminates
(`NoFalseTermination`). Death and an empty start only lose what was subtracted.
`ProjectionExact` is about the cards of which nothing was overtaken: the log that a
call takes in is then the next of its card, its predecessor is the last one
shown, and `Follows` leads from the balance shown to the balance it leaves.

**IndexerIngestProofs.** For any number of ticks, windows and failures: the inserted
events are a prefix of the log, and the position of every tick is at most one
past it, so that a cursor a tick writes names inserted events only:
`IngestTypeCorrect`, `CursorSafe`. `RowsNeverUnderstate` adds that each event is in the
hand of at most one tick, the one whose insert won, and that what a row shows, what
a tick read from it and what it is about to provision are each at least the
balance after the log plus everything settled and not yet applied; a failed tick
drops an event and can only make a row show more. That sum is over a sequence; the
invariant says that a function of partial sums exists, and each step names the new one.
`RowsAreExact` is about the cards of which no event was lost or raced: the log is a
chain of balances, and the row shows the end of the chain, or, while one tick has the
last event in hand, the link before it, which is also what that tick read.

**IndexerScanProofs.** For any number of clones, blocks and chunks: a chunk that was
fetched and not saved adjoins the cursor of its scan, everything from a scan's
floor to its cursor was fetched, a clone's floor is its deployment, and the
chunk in hand of the factory's scan has its deployments watched. The last is why a tick that
fails between discovery and cursor does no harm: `CursorsLeaveNoGap`.

**ReconciliationWorkerProofs.** All three theorems hold for any number of overlapping
passes. `PlaysTypeCorrect`, `ResolvedForGood`: only pending plays are locked, and only
in-progress plays of the card are marked. `SettledAreDripped`: between its drip and
its mark, a pass has every in-progress play of the card covered by the drip
(`Covered`), except those that another pass locked meanwhile. `Covered` is the
strengthening: the plays that a mark is about to settle are not settled yet, so
`SettledMeansDripped` alone says nothing of them. A lock is the only step that can break it,
and it puts what it locks into `late` just when some pass is between drip and mark.

**GrantProofs.** Of the budget registry: the types, and for each budget that its list
is injective and names exactly the paycards bound to it: `RegistryTypeCorrect`,
`PaycardsListedOnce`, `InactiveStays`. `CommitmentsBacked`: what a budget has committed is
the sum of the allocations of the paycards it lists, and at most what its owner allowed; a
binding joins one paycard to the list and its allocation to the sum, and
`isSpendAllowed` guards the sum that results. Of cards: transactions that open name a card, payments use lane 0, and the
lane of a card is nobody else's: `StaleIsTrue`.

**RuntimeProofs.** `IInv` adds to the types that a revoked path is attested (so no
ingestion replaces it), that a stored proposal is undecided exactly while it is
being evaluated, that an undecided or allowed one has its usage reserved, that a
pact's proposal is allowed and names it, and that no bucket exceeds its limit.
`ReserveFits` is the lemma about one reservation; `EvaluateBooks` reduces the three
ways an evaluation can end to what they have in common. Theorems:
`RuntimeTypeCorrect`, `LimitsKept`, `PactsBacked`, `DecisionsFinal`, `RevocationsFinal`.
`UsageIsExact`: a bucket's count and amount are the number and the sum of the proposals
reserved in it. Its invariant `SumsInv` needs that only stored proposals are
reserved, so that the one being reserved joins every bucket it is booked in anew.

Of its stores, `Holding(a)` says of each attempt that the state it works on is
the committed one as long as it holds the lock, and that its nonce is unused. It
yields `StoreIsAtomic` (every statement is a step of `AtomicStore` or a stutter) and
`NoncesConsumedOnce`, for every set of attempts, states and transitions.

**Model-checked only.** Liveness (`StreamsPaidOut`, `LapsedFlagged`,
`EveryEventTakenIn`, `EveryEventInserted`, `EveryBlockScanned`, `DuePaid`,
`PendingTakenUp`, `EveryAttemptAnswered`, `HonouredClaimed`), which is out of the prover's
reach, and the three expected violations, which are counterexamples. `RailsSettler!TypeOK` is a statement about `SelectSeq`,
a recursive operator of the library. The type invariants of
`IndexerScan` and `RailsSettler` are stated in their modules and were checked while
these were written; no run lists them, since a run's properties are kept for what
could go wrong.

## 6. Plan

Done: Vault and its promise; its log; gateway; indexer ingestion and scan;
reconciliation; budget registry; Runtime and its stores; cards; their proofs as
above.

What is left, most important first:

1. **Proofs**: the type invariant of the scan, and, if the log's two forms are to be
   joined formally, that an interleaving of per-card logs is a `HubLog` of all cards.
2. **Nonce engine**, composed with the Vault's lanes, once something in the repository
   opens what it issues.
3. **Vault V2**, if its engine departs from V1's.
