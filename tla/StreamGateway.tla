---------------------------- MODULE StreamGateway -----------------------------
(***************************************************************************)
(* The stream gateway: a process that subscribes to the Vault's log,       *)
(* backfills what it missed, and keeps a projection of every paycard.  A   *)
(* handleLog call checks for a duplicate, awaits the log's block, and only *)
(* then records and applies the event; several calls are in flight at      *)
(* once.  The durable store is an append-only events file and a snapshot   *)
(* file, written one after the other by the same call.                     *)
(***************************************************************************)
EXTENDS Integers, Sequences, FiniteSets, FiniteSetsExt, SequencesExt

CONSTANTS
  Cards, Pools, MaxLog,  \* of the log, see HubLog
  Streams,        \* cards with a lifespan; the others are one-time payments
  Stores,         \* whether stores are durable: PersistentFileStateStore is,
                  \* MemoryCacheStateStore is not
  Backfill,       \* backfillOnStart with a startBlock before every log
  InOrder,        \* one provider: logs are delivered, and getBlock calls are
                  \* answered, in order
  MaxCrashes      \* bound on the number of crashes and stops

ASSUME GatewayAssumption ==
  /\ Streams \subseteq Cards
  /\ Stores \subseteq BOOLEAN /\ Backfill \in BOOLEAN /\ InOrder \in BOOLEAN
  /\ Pools \subseteq Nat \ {0} /\ MaxLog \in Nat
  /\ MaxCrashes \in Nat

VARIABLES
  phase, avail, log,  \* the Vault and its log, see HubLog
  durable,    \* the store the gateway was configured with is durable
  lapsed,     \* cards whose lifespan has elapsed on the wall clock
  stage,      \* "down", "listing" and "replaying" a backfill, or "started"
  crashes,    \* number of crashes so far
  head,       \* length of the log when the live subscription was made
  seen,       \* processedLogKeys
  awaiting,   \* logs whose handleLog call awaits its block, oldest first
  todo,       \* logs the backfill loop has still to hand to handleLog
  blocked,    \* the loop awaits the handleLog call of the first of them
  store,      \* the projection held in memory
  queue,      \* cards in the StreamTerminationQueue
  snapshot,   \* stream-state.json, or Corrupt
  eventKeys,  \* keys in stream-events.jsonl
  applied,    \* history: logs the surviving projection has taken in
  overtaken,  \* history: cards whose logs were taken in out of order
  torn,       \* history: cards with a log recorded but never applied
  corrupted   \* history: a snapshot was lost

envVars   == <<phase, avail, log, durable>>
diskVars  == <<snapshot, eventKeys>>
history   == <<applied, overtaken, torn, corrupted>>
volatile  == <<head, seen, awaiting, todo, blocked, store, queue>>
vars == <<envVars, lapsed, stage, crashes, volatile, diskVars, history>>

Vault == INSTANCE HubLog

NoStream == [status |-> "None", available |-> 0]
NoStore  == [c \in Cards |-> NoStream]
Corrupt  == [c \in Cards |-> [status |-> "Unreadable", available |-> 0]]

Logs == 1 .. MaxLog

StreamType ==
  [ status : {"None", "Active", "PendingSettlement", "Terminated"},
    available : Nat ]

TypeOK ==
  /\ Vault!TypeOK
  /\ durable \in Stores
  /\ lapsed \subseteq Streams
  /\ stage \in {"down", "listing", "replaying", "started"}
  /\ crashes \in 0 .. MaxCrashes
  /\ head \in 0 .. MaxLog
  /\ seen \subseteq Logs /\ eventKeys \subseteq Logs
  /\ awaiting \in Seq(Logs) /\ todo \in Seq(Logs) /\ blocked \in BOOLEAN
  /\ store \in [Cards -> StreamType]
  /\ queue \subseteq Streams
  /\ snapshot = Corrupt \/ snapshot \in [Cards -> StreamType]
  /\ applied \subseteq Logs
  /\ overtaken \subseteq Cards /\ torn \subseteq Cards /\ corrupted \in BOOLEAN

Init ==
  /\ Vault!Init
  /\ durable \in Stores
  /\ lapsed = {}
  /\ stage = "down" /\ crashes = 0
  /\ head = 0 /\ seen = {} /\ awaiting = <<>> /\ todo = <<>> /\ blocked = FALSE
  /\ store = NoStore /\ queue = {}
  /\ snapshot = NoStore /\ eventKeys = {}
  /\ applied = {} /\ overtaken = {} /\ torn = {} /\ corrupted = FALSE

-------------------------------------------------------------------------------
(* The environment.                                                        *)

VaultStep ==
  /\ Vault!Next
  /\ UNCHANGED <<durable, lapsed, stage, crashes, volatile, diskVars, history>>

LapseOf(c) ==
  /\ phase[c] # "none" /\ c \notin lapsed
  /\ lapsed' = lapsed \cup {c}
  /\ UNCHANGED <<envVars, stage, crashes, volatile, diskVars, history>>

-------------------------------------------------------------------------------
(* The store.                                                              *)

(* store.set on the durable store writes the whole snapshot; a call that   *)
(* sets nothing writes nothing.                                            *)
Save(image) ==
  snapshot' = IF durable /\ image # store THEN image ELSE snapshot

(* Mutant: only events of this run are scheduled.                          *)
ScheduledNothing(image) == {}

(* The queue a start builds from the active streams of the loaded store.   *)
Scheduled(image) == {c \in Streams : image[c].status = "Active"}

(* start: load the snapshot, reschedule, subscribe, then maybe backfill.   *)
(* The timer starts when the backfill is done.                             *)
Start ==
  LET image == IF durable /\ snapshot # Corrupt THEN snapshot ELSE NoStore
  IN  /\ stage = "down"
      /\ store' = image
      /\ queue' = Scheduled(image)
      /\ head' = Len(log)
      /\ stage' = IF Backfill THEN "listing" ELSE "started"
      /\ applied' = IF durable /\ snapshot # Corrupt THEN applied ELSE {}
      /\ overtaken' = IF durable THEN overtaken ELSE {}
      /\ UNCHANGED <<envVars, lapsed, crashes, seen, awaiting, todo, blocked,
                     diskVars, torn, corrupted>>

(* Everything in memory is gone; the files stay.  A stop counts as this    *)
(* too: it keeps the object, but nothing starts that object again.         *)
LoseMemory ==
  /\ crashes < MaxCrashes /\ crashes' = crashes + 1
  /\ stage' = "down"
  /\ head' = 0 /\ seen' = {} /\ awaiting' = <<>> /\ todo' = <<>> /\ blocked' = FALSE
  /\ store' = NoStore /\ queue' = {}
  /\ UNCHANGED <<envVars, lapsed>>

(* A crash, a stop, or a getBlock call that rejects: nothing handles the   *)
(* rejection of a live handleLog, and start rethrows that of a backfill.   *)
Crash ==
  /\ stage # "down"
  /\ LoseMemory
  /\ UNCHANGED <<diskVars, history>>

-------------------------------------------------------------------------------
(* handleLog up to its first await.                                        *)

(* Mutant: only the calls in flight.                                       *)
KnownInFlight(i)  == i \in ToSet(awaiting)

Known(i) == i \in seen \/ i \in eventKeys

HandleLog(i) ==
  /\ seen' = seen \cup {i}
  /\ awaiting' = IF Known(i) THEN awaiting ELSE Append(awaiting, i)

(* A provider delivers a log emitted since the subscription, and a second  *)
(* provider may deliver it again.                                          *)
Deliver(i) ==
  /\ stage # "down" /\ i \in head + 1 .. Len(log)
  /\ InOrder => head + 1 .. i - 1 \subseteq seen
  /\ HandleLog(i)
  /\ UNCHANGED <<envVars, lapsed, stage, crashes, head, todo, blocked, store,
                 queue, diskVars, history>>

(* Mutant: the backfill resumes after the newest recorded event.           *)
LogsAfterRecorded == [k \in 1 .. Len(log) - Max(eventKeys \cup {0}) |->
                        k + Max(eventKeys \cup {0})]

LogsToReplay == [k \in 1 .. Len(log) |-> k]

(* backfill: the head is read, then every log up to it is fetched.         *)
ListLogs ==
  /\ stage = "listing"
  /\ todo' = LogsToReplay
  /\ stage' = "replaying"
  /\ UNCHANGED <<envVars, lapsed, crashes, head, seen, awaiting, blocked, store,
                 queue, diskVars, history>>

(* The loop awaits each handleLog call it makes.  The call for a log whose *)
(* key is known returns at once, even if the live call that noted the key  *)
(* is still waiting for its block.                                         *)
ReplayLog ==
  /\ stage = "replaying" /\ ~blocked /\ todo # <<>>
  /\ HandleLog(Head(todo))
  /\ IF Known(Head(todo)) THEN todo' = Tail(todo) /\ UNCHANGED blocked
                          ELSE blocked' = TRUE /\ UNCHANGED todo
  /\ UNCHANGED <<envVars, lapsed, stage, crashes, head, store, queue, diskVars,
                 history>>

(* The loop is over: the timer starts.                                     *)
FinishBackfill ==
  /\ stage = "replaying" /\ todo = <<>>
  /\ stage' = "started"
  /\ UNCHANGED <<envVars, lapsed, crashes, volatile, diskVars, history>>

-------------------------------------------------------------------------------
(* handleLog after its await: record the event, then apply it.             *)

Answerable(i) ==
  IF InOrder THEN awaiting # <<>> /\ i = Head(awaiting)
  ELSE i \in ToSet(awaiting)

Provisioned(e) == [status |-> "Active", available |-> e.amount]

(* Mutant: an exhausting settlement leaves the stream Active.              *)
SettledStillActive(stream, e) ==
  [stream EXCEPT !.available = IF @ > e.amount THEN @ - e.amount ELSE 0]

SettledStream(stream, e) ==
  [stream EXCEPT
     !.available = IF @ > e.amount THEN @ - e.amount ELSE 0,
     !.status = IF stream.available <= e.amount THEN "Terminated" ELSE @]

ReclaimedStream(stream) ==
  [stream EXCEPT !.available = 0, !.status = "Terminated"]

(* The switch of handleLog; a settlement or a reclaim of a card the store  *)
(* does not have is dropped.                                               *)
ApplyEvent(e) ==
  CASE e.kind = "PaycardProvisioned" ->
         [store EXCEPT ![e.card] = Provisioned(e)]
    [] e.kind = "SettlementFlushed" /\ store[e.card] # NoStream ->
         [store EXCEPT ![e.card] = SettledStream(@, e)]
    [] e.kind = "ResidualDeltaReclaimed" /\ store[e.card] # NoStream ->
         [store EXCEPT ![e.card] = ReclaimedStream(@)]
    [] OTHER -> store

(* recordEvent exists on the durable store only.  The line it appends is   *)
(* there or not: a torn last line is not modelled.                         *)
RecordEvent(i) == eventKeys' = IF durable THEN eventKeys \cup {i} ELSE eventKeys

EarlierOfCard(i) == {j \in 1 .. i - 1 : log[j].card = log[i].card}
LaterOfCard(i)   == {j \in i + 1 .. Len(log) : log[j].card = log[i].card}

TakeIn(i) ==
  /\ applied' = applied \cup {i}
  /\ overtaken' = IF /\ EarlierOfCard(i) \subseteq applied
                     /\ LaterOfCard(i) \cap applied = {}
                  THEN overtaken ELSE overtaken \cup {log[i].card}

(* The call for log i is over.                                             *)
Return(i) ==
  \E k \in DOMAIN awaiting : awaiting[k] = i /\ awaiting' = RemoveAt(awaiting, k)

(* A handleLog call resumes and runs to its end.                           *)
Resume(i) ==
  LET e == log[i]
  IN  /\ Answerable(i)
      /\ Return(i)
      /\ IF blocked /\ Head(todo) = i
           THEN todo' = Tail(todo) /\ blocked' = FALSE
           ELSE UNCHANGED <<todo, blocked>>
      /\ RecordEvent(i)
      /\ store' = ApplyEvent(e)
      /\ Save(store')
      /\ queue' = IF e.kind = "PaycardProvisioned" /\ e.card \in Streams
                  THEN queue \cup {e.card} ELSE queue
      /\ TakeIn(i)
      /\ UNCHANGED <<envVars, lapsed, stage, crashes, head, seen, torn,
                     corrupted>>

(* The process dies between appendFileSync and writeFileSync.              *)
DieAfterRecord(i) ==
  /\ durable /\ Answerable(i)
  /\ RecordEvent(i)
  /\ torn' = torn \cup {log[i].card}
  /\ LoseMemory
  /\ UNCHANGED <<snapshot, applied, overtaken, corrupted>>

(* The process dies inside writeFileSync, which truncates and rewrites.    *)
DieInSave(i) ==
  /\ durable /\ Answerable(i) /\ ApplyEvent(log[i]) # store
  /\ RecordEvent(i)
  /\ snapshot' = Corrupt
  /\ corrupted' = TRUE
  /\ LoseMemory
  /\ UNCHANGED <<applied, overtaken, torn>>

-------------------------------------------------------------------------------
(* The timer tick: expired streams wait for their on-chain settlement.     *)

(* Mutant: local expiry terminates the stream.                             *)
ExpiredTerminated(stream) ==
  IF stream.status = "Active" THEN [stream EXCEPT !.status = "Terminated"]
  ELSE stream

Expired(stream) ==
  IF stream.status = "Active" THEN [stream EXCEPT !.status = "PendingSettlement"]
  ELSE stream

SweepExpired ==
  LET due == queue \cap lapsed
  IN  /\ stage = "started" /\ due # {}
      /\ queue' = queue \ due
      /\ store' = [c \in Cards |-> IF c \in due THEN Expired(store[c]) ELSE store[c]]
      /\ Save(store')
      /\ UNCHANGED <<envVars, lapsed, stage, crashes, head, seen, awaiting, todo,
                     blocked, eventKeys, history>>

(* The same death in a sweep's save.                                       *)
DieInSweep ==
  /\ durable /\ stage = "started"
  /\ \E c \in queue \cap lapsed : Expired(store[c]) # store[c]
  /\ snapshot' = Corrupt /\ corrupted' = TRUE
  /\ LoseMemory
  /\ UNCHANGED <<eventKeys, applied, overtaken, torn>>

Gateway ==
  \/ Start \/ ListLogs \/ ReplayLog \/ FinishBackfill \/ SweepExpired
  \/ \E i \in 1 .. Len(log) : Deliver(i) \/ Resume(i)

Next ==
  \/ VaultStep
  \/ \E c \in Streams : LapseOf(c)
  \/ Gateway
  \/ Crash \/ DieInSweep
  \/ \E i \in 1 .. Len(log) : DieAfterRecord(i) \/ DieInSave(i)

Spec == Init /\ [][Next]_vars

(* The event loop and the providers go on, and an operator or supervisor   *)
(* starts a gateway that is down; the Vault and the crashes are free.      *)
FairSpec ==
  /\ Spec
  /\ WF_vars(Start) /\ WF_vars(ListLogs) /\ WF_vars(ReplayLog)
  /\ WF_vars(FinishBackfill) /\ WF_vars(SweepExpired)
  /\ \A i \in Logs :
       /\ WF_vars(i <= Len(log) /\ Deliver(i))
       /\ WF_vars(i <= Len(log) /\ Resume(i))

-------------------------------------------------------------------------------
(* Properties.                                                             *)

Tracked(c) == store[c].status # "None"

(* The projection never shows a recipient less than the Vault holds: no    *)
(* settlement is applied twice, by a second provider, by a backfill that   *)
(* overlaps the subscription, or after a restart (handleLog).              *)
NeverUnderstates ==
  \A c \in Cards : Tracked(c) => store[c].available >= avail[c]

(* Only the Vault terminates a card: neither local expiry nor an           *)
(* interleaving of handlers shows an open card as Terminated               *)
(* (sweepExpired, onSettlementFlushed).                                    *)
NeverFalselyTerminated ==
  \A c \in Cards : store[c].status = "Terminated" => phase[c] = "closed"

(* The last log of card c the projection has taken in.                     *)
LastApplied(c) == Max({i \in applied : log[i].card = c})

Matches(c) ==
  IF \E i \in applied : log[i].card = c
  THEN /\ store[c].available = log[LastApplied(c)].left
       /\ store[c].status = "Terminated" <=> store[c].available = 0
  ELSE ~Tracked(c)

(* The projection of a card is exactly what its logs so far add up to,     *)
(* unless one of them was taken in out of order, or a crash fell between   *)
(* the write of the event and that of the snapshot (handleLog).            *)
ExactUnlessOvertaken ==
  stage # "down" /\ ~corrupted =>
    \A c \in Cards \ (overtaken \cup torn) : Matches(c)

Running(c) == stage = "started" /\ store[c].status = "Active" /\ c \in lapsed
Flagged(c) == stage = "down" \/ store[c].status # "Active"

(* An elapsed stream does not stay Active: the timer flags it, unless the  *)
(* process goes down first (sweepExpired).                                 *)
LapsedFlagged == \A c \in Streams : Running(c) ~> Flagged(c)

Emitted(i) == i <= Len(log)
TakenIn(i) ==
  i \in applied \/ corrupted \/ (i <= Len(log) /\ log[i].card \in torn)

(* With a backfill no event is lost to downtime: every log is taken in     *)
(* once the gateway stays up, unless a crash tore its handler in two       *)
(* (backfill).                                                             *)
EveryEventTakenIn == \A i \in Logs : Emitted(i) ~> TakenIn(i)

(* Nothing in flight and nothing missed.                                   *)
Quiescent ==
  /\ stage = "started" /\ awaiting = <<>>
  /\ \A i \in 1 .. Len(log) : Known(i)

Rebuilt == \A c \in Cards :
  phase[c] # "none" => Tracked(c) /\ store[c].available = avail[c]

(* "Replays historical contract logs [...] so a freshly started gateway    *)
(* rebuilds state from chain": also when the previous run crashed between  *)
(* its two writes.                                                         *)
RestartRebuilds == Quiescent /\ ~corrupted /\ overtaken = {} => Rebuilt
===============================================================================
