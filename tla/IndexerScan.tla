----------------------------- MODULE IndexerScan ------------------------------
(***************************************************************************)
(* The scans of the indexer worker: the factory's, which discovers vaults, *)
(* then one per watched vault, each with a cursor of its own, all sharing  *)
(* one budget of chunks per tick.  What a vault's scan does with the logs  *)
(* it fetches is IndexerIngest; here a chunk is the set of its blocks.     *)
(* Ticks do not overlap here.                                              *)
(***************************************************************************)
EXTENDS Integers, Sequences, FiniteSets, FiniteSetsExt, SequencesExt

CONSTANTS
  Canonical,  \* the canonical hub
  Clones,     \* vaults the factory may deploy
  Factory,    \* the factory, a scan key of its own
  MaxHead,    \* bound on the chain's head
  Window,     \* SCAN_WINDOW_BLOCKS
  Budget,     \* MAX_CHUNKS_PER_TICK
  Backfill,   \* INITIAL_BACKFILL_BLOCKS
  MaxFails    \* bound on the number of rejected awaits

ASSUME ScanAssumption ==
  /\ {Window, Budget, Backfill} \subseteq Nat \ {0}
  /\ MaxHead \in Nat /\ MaxFails \in Nat /\ IsFiniteSet(Clones)
  /\ Canonical \notin Clones /\ Factory \notin Clones \cup {Canonical}

VARIABLES
  head,      \* the chain's head
  deployed,  \* deployed[v] : block of v's deployment, 0 while there is none
  watched,   \* idx_watched_vaults, in the order of its rows
  cursor,    \* cursor[k] : last_scanned_block of scan k, or NoCursor
  tick,      \* the tick under way
  fails,     \* number of awaits that have rejected
  fetched,   \* history: blocks of scan k whose logs were ingested
  floor      \* history: first block of the chunk that made scan k's cursor

chainVars == <<head, deployed>>
vars == <<chainVars, watched, cursor, tick, fails, fetched, floor>>

Scans    == {Factory, Canonical} \cup Clones
Blocks   == 0 .. MaxHead
NoCursor == -1

(* todo lists the scans still to do, the current one first.                *)
NoTick == [at |-> "idle", head |-> 0, used |-> 0, todo |-> <<>>, from |-> 0]

TickType ==
  [ at : {"idle", "opening", "fetching", "fetched"}, head : Blocks,
    used : 0 .. Budget, todo : Seq(Scans), from : 0 .. MaxHead + 1 ]

TypeOK ==
  /\ head \in Blocks
  /\ deployed \in [Clones -> Blocks]
  /\ watched \in Seq(Scans \ {Factory}) /\ IsInjective(watched)
  /\ cursor \in [Scans -> Blocks \cup {NoCursor}]
  /\ tick \in TickType
  /\ fails \in 0 .. MaxFails
  /\ fetched \in [Scans -> SUBSET Blocks]
  /\ floor \in [Scans -> Blocks]

Init ==
  /\ head = 0 /\ deployed = [v \in Clones |-> 0]
  /\ watched = <<>>
  /\ cursor = [k \in Scans |-> NoCursor]
  /\ tick = NoTick /\ fails = 0
  /\ fetched = [k \in Scans |-> {}] /\ floor = [k \in Scans |-> 0]

-------------------------------------------------------------------------------
(* A block, which may deploy clones.                                       *)
NewBlock ==
  /\ head < MaxHead /\ head' = head + 1
  /\ \E new \in SUBSET {v \in Clones : deployed[v] = 0} :
       deployed' = [v \in Clones |-> IF v \in new THEN head' ELSE deployed[v]]
  /\ UNCHANGED <<watched, cursor, tick, fails, fetched, floor>>

(* INSERT OR IGNORE.                                                       *)
Watch(rows, new) == rows \o SetToSeq(new \ ToSet(rows))

StartTick ==
  /\ tick.at = "idle"
  /\ watched' = Watch(watched, {Canonical})
  /\ tick' = [NoTick EXCEPT !.at = "opening", !.head = head, !.todo = <<Factory>>]
  /\ UNCHANGED <<chainVars, cursor, fails, fetched, floor>>

BackfillStart == Max({0, tick.head - Backfill})

(* Mutant: a clone is scanned from the head it was discovered at.          *)
LateStart(k) == IF k \in Clones THEN tick.head ELSE BackfillStart

(* Where a scan without a cursor starts.                                   *)
DefaultStart(k) == IF k \in Clones THEN deployed[k] ELSE BackfillStart

Spent == tick.used >= Budget

(* The scan starts again at the block its cursor names.                    *)
FirstBlock(k) == IF cursor[k] = NoCursor THEN DefaultStart(k) ELSE cursor[k]

(* The next scan begins, unless the budget is spent.                       *)
OpenScan ==
  /\ tick.at = "opening"
  /\ tick' = IF Spent \/ tick.todo = <<>> THEN NoTick
             ELSE [tick EXCEPT !.at = "fetching", !.from = FirstBlock(Head(tick.todo))]
  /\ UNCHANGED <<chainVars, watched, cursor, fails, fetched, floor>>

(* The scans after scan k: the vaults are read when the factory's is over. *)
ScansAfter(todo) ==
  IF Head(todo) = Factory THEN watched ELSE Tail(todo)

EndScan ==
  /\ tick.at = "fetching" /\ (tick.from > tick.head \/ Spent)
  /\ tick' = [tick EXCEPT !.at = "opening", !.todo = ScansAfter(@)]
  /\ UNCHANGED <<chainVars, watched, cursor, fails, fetched, floor>>

ChunkEnd == Min({tick.from + Window - 1, tick.head})

(* getLogs, and the inserts its logs lead to.                              *)
FetchChunk ==
  LET k == Head(tick.todo)
      chunk == tick.from .. ChunkEnd
      found == {v \in Clones : deployed[v] # 0 /\ deployed[v] \in chunk}
  IN  /\ tick.at = "fetching" /\ tick.from <= tick.head /\ ~Spent
      /\ tick' = [tick EXCEPT !.at = "fetched", !.used = @ + 1]
      /\ fetched' = [fetched EXCEPT ![k] = @ \cup chunk]
      /\ watched' = IF k = Factory THEN Watch(watched, found) ELSE watched
      /\ UNCHANGED <<chainVars, cursor, fails, floor>>

(* Mutant: the cursor moves to the head instead of the end of the chunk.   *)
CursorAtHead == tick.head

CursorAfter == ChunkEnd

SaveCursor ==
  LET k == Head(tick.todo)
  IN  /\ tick.at = "fetched"
      /\ cursor' = [cursor EXCEPT ![k] = CursorAfter]
      /\ floor' = [floor EXCEPT ![k] = IF cursor[k] = NoCursor THEN tick.from ELSE @]
      /\ tick' = [tick EXCEPT !.at = "fetching", !.from = ChunkEnd + 1]
      /\ UNCHANGED <<chainVars, watched, fails, fetched>>

(* An await rejects; a chunk without its cursor is fetched again.          *)
FailTick ==
  /\ tick.at # "idle" /\ fails < MaxFails /\ fails' = fails + 1
  /\ tick' = NoTick
  /\ UNCHANGED <<chainVars, watched, cursor, fetched, floor>>

RunTick == StartTick \/ OpenScan \/ EndScan \/ FetchChunk \/ SaveCursor

Next == NewBlock \/ RunTick \/ FailTick

Spec == Init /\ [][Next]_vars

(* Cron keeps starting ticks, and a tick goes on until an await rejects.   *)
FairSpec == Spec /\ WF_vars(RunTick)

-------------------------------------------------------------------------------
(* Properties.                                                             *)

(* What lies behind a cursor has been ingested, from the block its scan    *)
(* started at, which for a clone is its deployment: failed ticks, windows  *)
(* and a spent budget leave no gap, and no deployment behind the factory's *)
(* cursor goes unwatched (runTick).                                        *)
NoGapBehindCursor ==
  \A k \in Scans : cursor[k] # NoCursor =>
    /\ floor[k] .. cursor[k] \subseteq fetched[k]
    /\ k \in Clones => floor[k] = deployed[k]
    /\ k = Factory => \A v \in Clones :
         deployed[v] # 0 /\ deployed[v] \in floor[k] .. cursor[k] =>
           v \in ToSet(watched)

(* Every block of a vault that was deployed where the factory's scan       *)
(* looks, from INITIAL_BACKFILL_BLOCKS before its first tick on, is        *)
(* ingested in the end: "Remaining backfill continues on the next tick"    *)
(* (wrangler.toml, runTick).                                               *)
EveryBlockScanned ==
  \A v \in Clones, b \in Blocks :
    /\ cursor[Factory] # NoCursor /\ deployed[v] # 0
    /\ deployed[v] >= floor[Factory] /\ b \in deployed[v] .. head
    ~> b \in fetched[v]
===============================================================================
