---------------------------- MODULE IndexerIngest -----------------------------
(***************************************************************************)
(* The indexer worker's ingestion of one vault's log.  A tick, started by  *)
(* cron or by POST /tick, reads the head and the scan cursor, then goes    *)
(* chunk by chunk: each event is inserted if it is new, and only then      *)
(* applied to its paycard's row, with every database statement awaited.    *)
(* Ticks overlap, and an await that rejects ends its tick.  Block i holds  *)
(* log i: a chunk may then end between two logs of one transaction, which  *)
(* only adds behaviours.                                                   *)
(***************************************************************************)
EXTENDS Integers, Sequences, FiniteSets, FiniteSetsExt

CONSTANTS
  Cards, Pools, MaxLog,  \* of the log, see HubLog
  Ticks,      \* invocations of runTick that may be under way at once
  Window,     \* SCAN_WINDOW_BLOCKS
  MaxFails    \* bound on the number of rejected awaits

ASSUME IngestAssumption ==
  /\ Window \in Nat \ {0} /\ MaxFails \in Nat
  /\ Pools \subseteq Nat \ {0} /\ MaxLog \in Nat

VARIABLES
  phase, avail, log,  \* the Vault and its log, see HubLog
  events,    \* logs with a row in idx_stream_events
  rows,      \* idx_paycard_state
  cursor,    \* last_scanned_block of the vault, 0 while it has no row
  tick,      \* tick[t] : what invocation t is doing
  fails,     \* number of awaits that have rejected
  torn,      \* history: cards with an event inserted but never applied
  raced      \* history: cards whose events two ticks applied at once

chainVars == <<phase, avail, log>>
history   == <<torn, raced>>
vars == <<chainVars, events, rows, cursor, tick, fails, history>>

Vault == INSTANCE HubLog

NoRow == [status |-> "None", available |-> 0]

(* next is the log to ingest, to the end of the chunk, and read the        *)
(* available_balance a settlement has selected.                            *)
NoTick == [at |-> "idle", head |-> 0, next |-> 0, to |-> 0, read |-> 0]

Logs == 1 .. MaxLog

TickType ==
  [ at : {"idle", "started", "ingesting", "applying", "updating"},
    head : 0 .. MaxLog, next : 0 .. MaxLog + 1, to : 0 .. MaxLog, read : Nat ]

TypeOK ==
  /\ Vault!TypeOK
  /\ events \subseteq Logs
  /\ rows \in [Cards -> [status : {"None", "Active", "Terminated"}, available : Nat]]
  /\ cursor \in 0 .. MaxLog
  /\ tick \in [Ticks -> TickType]
  /\ fails \in 0 .. MaxFails
  /\ torn \subseteq Cards /\ raced \subseteq Cards

Init ==
  /\ Vault!Init
  /\ events = {} /\ rows = [c \in Cards |-> NoRow] /\ cursor = 0
  /\ tick = [t \in Ticks |-> NoTick]
  /\ fails = 0 /\ torn = {} /\ raced = {}

-------------------------------------------------------------------------------
VaultStep ==
  /\ Vault!Next
  /\ UNCHANGED <<events, rows, cursor, tick, fails, history>>

(* The card whose event tick t has inserted and not yet applied.           *)
InHand(t) ==
  IF tick[t].at \in {"applying", "updating"} THEN {log[tick[t].next].card} ELSE {}

StartTick(t) ==
  /\ tick[t].at = "idle"
  /\ tick' = [tick EXCEPT ![t] = [NoTick EXCEPT !.at = "started", !.head = Len(log)]]
  /\ UNCHANGED <<chainVars, events, rows, cursor, fails, history>>

(* The first block to scan: the scan starts again at the cursor's block.   *)
(* Block 1 is the vault's first scan: a clone's deployment, or for the     *)
(* canonical Vault INITIAL_BACKFILL_BLOCKS before the head of that day.    *)
ScanFrom == IF cursor = 0 THEN 1 ELSE cursor

(* The next chunk of a tick, which is over when it has passed its head.    *)
NextChunk(t, from) ==
  IF from > tick[t].head THEN NoTick
  ELSE [tick[t] EXCEPT !.at = "ingesting", !.next = from,
                       !.to = Min({from + Window - 1, tick[t].head})]

(* The tick reads the cursor, which another tick may have moved since this *)
(* one read its head.                                                      *)
ReadCursor(t) ==
  /\ tick[t].at = "started"
  /\ tick' = [tick EXCEPT ![t] = NextChunk(t, ScanFrom)]
  /\ UNCHANGED <<chainVars, events, rows, cursor, fails, history>>

(* Mutant: the insert is not gated on the unique index.                    *)
NeverInserted(i) == FALSE

AlreadyInserted(i) == i \in events

Done(t) == [tick EXCEPT ![t].at = "ingesting", ![t].next = @ + 1, ![t].read = 0]

(* INSERT OR IGNORE: an event that is already there changes nothing more.  *)
InsertEvent(t) ==
  LET i == tick[t].next
  IN  /\ tick[t].at = "ingesting" /\ i <= tick[t].to
      /\ events' = events \cup {i}
      /\ IF AlreadyInserted(i) THEN tick' = Done(t) /\ UNCHANGED raced
         ELSE /\ tick' = [tick EXCEPT ![t].at = "applying"]
              /\ raced' = IF \E u \in Ticks : log[i].card \in InHand(u)
                          THEN raced \cup {log[i].card} ELSE raced
      /\ UNCHANGED <<chainVars, rows, cursor, fails, torn>>

-------------------------------------------------------------------------------
(* An inserted event is applied to its row, statement by statement.        *)

Event(t) == log[tick[t].next]
Applying(t, kind) == tick[t].at = "applying" /\ Event(t).kind = kind

ProvisionedRow(e) == [status |-> "Active", available |-> e.amount]

Upsert(t) ==
  /\ Applying(t, "PaycardProvisioned")
  /\ rows' = [rows EXCEPT ![Event(t).card] = ProvisionedRow(Event(t))]
  /\ tick' = Done(t)
  /\ UNCHANGED <<chainVars, events, cursor, fails, history>>

(* The SELECT of a settlement, which is dropped when there is no row.      *)
ReadBalance(t) ==
  LET row == rows[Event(t).card]
  IN  /\ Applying(t, "SettlementFlushed")
      /\ tick' = IF row = NoRow THEN Done(t)
                 ELSE [tick EXCEPT ![t].at = "updating", ![t].read = row.available]
      /\ UNCHANGED <<chainVars, events, rows, cursor, fails, history>>

(* Mutant: the status is left Active when the balance runs out.            *)
SettledRowStillActive(read, amount) ==
  [status |-> "Active", available |-> Max({read - amount, 0})]

SettledRow(read, amount) ==
  [status |-> IF read > amount THEN "Active" ELSE "Terminated",
   available |-> Max({read - amount, 0})]

(* The UPDATE, from the balance read before.                               *)
WriteBalance(t) ==
  /\ tick[t].at = "updating"
  /\ rows' = [rows EXCEPT ![Event(t).card] =
                SettledRow(tick[t].read, Event(t).amount)]
  /\ tick' = Done(t)
  /\ UNCHANGED <<chainVars, events, cursor, fails, history>>

WriteReclaim(t) ==
  /\ Applying(t, "ResidualDeltaReclaimed")
  /\ rows' = [rows EXCEPT ![Event(t).card] =
                IF @ = NoRow THEN @ ELSE [status |-> "Terminated", available |-> 0]]
  /\ tick' = Done(t)
  /\ UNCHANGED <<chainVars, events, cursor, fails, history>>

-------------------------------------------------------------------------------
(* Mutants: the cursor moves to the head instead of the end of the chunk,  *)
(* or names the next block to scan.                                        *)
CursorAtHead(t) == tick[t].head
CursorNext(t)   == tick[t].to + 1

CursorAfter(t) == tick[t].to

(* The chunk is done.  The tick goes on with the next one, or the chunk    *)
(* budget it shares with the other scans is used up.                       *)
AdvanceCursor(t) ==
  /\ tick[t].at = "ingesting" /\ tick[t].next > tick[t].to
  /\ cursor' = CursorAfter(t)
  /\ tick' \in {[tick EXCEPT ![t] = NextChunk(t, tick[t].to + 1)],
                [tick EXCEPT ![t] = NoTick]}
  /\ UNCHANGED <<chainVars, events, rows, fails, history>>

(* An await rejects, or the platform ends the invocation.                  *)
FailTick(t) ==
  /\ tick[t].at # "idle" /\ fails < MaxFails
  /\ fails' = fails + 1
  /\ tick' = [tick EXCEPT ![t] = NoTick]
  /\ torn' = torn \cup InHand(t)
  /\ UNCHANGED <<chainVars, events, rows, cursor, raced>>

RunTick(t) ==
  \/ StartTick(t) \/ ReadCursor(t) \/ InsertEvent(t)
  \/ Upsert(t) \/ ReadBalance(t) \/ WriteBalance(t) \/ WriteReclaim(t)
  \/ AdvanceCursor(t)

Next == VaultStep \/ \E t \in Ticks : RunTick(t) \/ FailTick(t)

Spec == Init /\ [][Next]_vars

(* Cron keeps starting ticks, and the statements of a tick are executed    *)
(* until one rejects, which happens at most MaxFails times.                *)
FairSpec ==
  /\ Spec
  /\ WF_vars(\E t \in Ticks : StartTick(t))
  /\ \A t \in Ticks : WF_vars(tick[t].at # "idle" /\ RunTick(t))

-------------------------------------------------------------------------------
(* Properties.                                                             *)

(* However many ticks overlap or fail, a row never shows less than the     *)
(* Vault holds and is Terminated only when the card is: the insert lets    *)
(* one tick apply each event, at most once (runTick).                      *)
NeverUnderstates ==
  \A c \in Cards : rows[c] # NoRow =>
    /\ rows[c].available >= avail[c]
    /\ rows[c].status = "Terminated" => phase[c] = "closed"

(* Events are inserted in log order without a gap, and the cursor never    *)
(* moves past one that is not there, also when two ticks write it and it   *)
(* moves back (setCursor).                                                 *)
CursorNeverSkips ==
  /\ events = 1 .. Cardinality(events)
  /\ cursor <= Cardinality(events)

LastInserted(c) == Max({i \in events : log[i].card = c})

(* A row is what the inserted events of its card add up to, while none of  *)
(* them is in hand, none was lost with its tick and no two ticks met on    *)
(* the card (runTick).                                                     *)
RowsExact ==
  \A c \in Cards \ (torn \cup raced \cup UNION {InHand(t) : t \in Ticks}) :
    IF \E i \in events : log[i].card = c
    THEN /\ rows[c].available = log[LastInserted(c)].left
         /\ rows[c].status = "Terminated" <=> rows[c].available = 0
    ELSE rows[c] = NoRow

(* Every event is inserted in the end, although ticks fail and overlap     *)
(* (scheduled, runTick).                                                   *)
EveryEventInserted == \A i \in Logs : i <= Len(log) ~> i \in events

ScannedToHead == cursor = Len(log) /\ \A t \in Ticks : tick[t].at = "idle"

(* "already recorded - idempotent skip" and "state mutation is safely      *)
(* skipped" (index.ts:234, 279-281), of two ticks at once: what one skips, *)
(* because the other has recorded it or has yet to write the row, leaves   *)
(* the rows that a single tick would (runTick).                            *)
OverlapIdempotent ==
  ScannedToHead /\ torn = {} => \A c \in Cards :
    phase[c] # "none" => rows[c] # NoRow /\ rows[c].available = avail[c]
===============================================================================
