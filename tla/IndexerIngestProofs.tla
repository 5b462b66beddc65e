-------------------------- MODULE IndexerIngestProofs -------------------------
(***************************************************************************)
(* Theorems about the indexer worker's ingestion, for every number of      *)
(* overlapping ticks, every window and every number of failures.           *)
(***************************************************************************)
EXTENDS IndexerIngest, FiniteSetTheorems, TLAPS

(* What tick t may rely on when the first k logs are inserted: everything  *)
(* before the log it is about to ingest is there, and its chunk lies       *)
(* within the log.                                                         *)
Behind(t, k) ==
  /\ tick[t].head <= Len(log) /\ tick[t].to <= Len(log)
  /\ tick[t].at = "ingesting" => tick[t].next \in 1 .. k + 1
  /\ tick[t].at \in {"applying", "updating"} => tick[t].next \in 1 .. k

(* The inserted logs are a prefix that covers the cursor.                  *)
PrefixInserted ==
  \E k \in 0 .. Len(log) :
    events = 1 .. k /\ cursor <= k /\ \A t \in Ticks : Behind(t, k)

IInv == TypeOK /\ Len(log) <= MaxLog /\ PrefixInserted

-------------------------------------------------------------------------------
(* The greater of two integers.                                            *)
LEMMA MaxPair ==
  ASSUME NEW a \in Int, NEW b \in Int
  PROVE  Max({a, b}) = IF a >= b THEN a ELSE b
<1>1. CASE a >= b
  BY <1>1 DEF Max
<1>2. CASE ~(a >= b)
  BY <1>2 DEF Max
<1> QED  BY <1>1, <1>2

(* The same for the smaller.                                               *)
LEMMA MinPair ==
  ASSUME NEW a \in Int, NEW b \in Int
  PROVE  Min({a, b}) = IF a <= b THEN a ELSE b
<1>1. CASE a <= b
  BY <1>1 DEF Min
<1>2. CASE ~(a <= b)
  BY <1>2 DEF Min
<1> QED  BY <1>1, <1>2

(* A transaction appends well-typed events and stays within the bound.     *)
LEMMA EmitTypes ==
  ASSUME Vault!TypeOK, NEW c \in Cards, NEW left \in Nat,
         NEW e \in Seq([kind : Vault!Kinds, card : Cards, amount : Nat, left : Nat]),
         Vault!Emit(c, e, left)
  PROVE  /\ Vault!TypeOK'
         /\ Len(log) \in Nat /\ Len(log') \in Nat
         /\ Len(log) <= Len(log') /\ Len(log') <= MaxLog
<1>1. log' = log \o e /\ Len(log) + Len(e) <= MaxLog
  BY DEF Vault!Emit
<1>2. /\ log' \in Seq([kind : Vault!Kinds, card : Cards, amount : Nat, left : Nat])
      /\ Len(log') = Len(log) + Len(e) /\ Len(log) \in Nat /\ Len(e) \in Nat
  BY <1>1 DEF Vault!TypeOK
<1>3. avail' \in [Cards -> Nat] /\ phase' \in [Cards -> {"none", "open", "closed"}]
  BY DEF Vault!Emit, Vault!TypeOK
<1> QED  BY <1>1, <1>2, <1>3 DEF Vault!TypeOK

(* So does every transaction of the Vault.                                 *)
LEMMA VaultTypes ==
  ASSUME Vault!TypeOK, Vault!Next
  PROVE  /\ Vault!TypeOK'
         /\ Len(log) \in Nat /\ Len(log') \in Nat
         /\ Len(log) <= Len(log') /\ Len(log') <= MaxLog
<1> USE IngestAssumption
<1> DEFINE EventType == [kind : Vault!Kinds, card : Cards, amount : Nat, left : Nat]
<1>1. ASSUME NEW kind \in Vault!Kinds, NEW c \in Cards, NEW amount \in Nat, NEW left \in Nat
      PROVE  Vault!Event(kind, c, amount, left) \in EventType
  BY <1>1 DEF Vault!Event
<1>2. PICK c \in Cards : Vault!Provision(c) \/ Vault!Settle(c) \/ Vault!Flush(c)
  BY DEF Vault!Next
<1>3. avail[c] \in Nat
  BY DEF Vault!TypeOK
<1>4. CASE Vault!Provision(c)
  <2>1. PICK pool \in Pools :
          Vault!Emit(c, <<Vault!Event("PaycardProvisioned", c, pool, pool)>>, pool)
    BY <1>4 DEF Vault!Provision
  <2>2. Vault!Event("PaycardProvisioned", c, pool, pool) \in EventType
    BY <1>1 DEF Vault!Kinds
  <2> HIDE DEF EventType
  <2>3. <<Vault!Event("PaycardProvisioned", c, pool, pool)>> \in Seq(EventType)
    BY <2>2
  <2> QED  BY <2>1, <2>3, EmitTypes DEF EventType
<1>5. CASE Vault!Settle(c)
  <2>1. PICK amount \in 1 .. avail[c] :
          Vault!Emit(c, <<Vault!Event("SettlementFlushed", c, amount, avail[c] - amount)>>,
                     avail[c] - amount)
    BY <1>5 DEF Vault!Settle
  <2>2. avail[c] - amount \in Nat /\ amount \in Nat
    BY <1>3
  <2>3. Vault!Event("SettlementFlushed", c, amount, avail[c] - amount) \in EventType
    BY <1>1, <2>2 DEF Vault!Kinds
  <2> HIDE DEF EventType
  <2>4. <<Vault!Event("SettlementFlushed", c, amount, avail[c] - amount)>> \in Seq(EventType)
    BY <2>3
  <2> QED  BY <2>1, <2>2, <2>4, EmitTypes DEF EventType
<1>6. CASE Vault!Flush(c)
  <2> DEFINE rest(amount) == avail[c] - amount
             settled(amount) == Vault!Event("SettlementFlushed", c, amount, rest(amount))
             reclaimed(amount) == Vault!Event("ResidualDeltaReclaimed", c, rest(amount), 0)
             emitted(amount) == IF amount = 0 THEN <<reclaimed(amount)>>
                                ELSE <<settled(amount), reclaimed(amount)>>
  <2>1. PICK amount \in 0 .. avail[c] - 1 : Vault!Emit(c, emitted(amount), 0)
    BY <1>6 DEF Vault!Flush
  <2>2. rest(amount) \in Nat /\ amount \in Nat
    BY <1>3
  <2>3. settled(amount) \in EventType /\ reclaimed(amount) \in EventType
    BY <1>1, <2>2 DEF Vault!Kinds
  <2> HIDE DEF EventType, settled, reclaimed
  <2>4. emitted(amount) \in Seq(EventType)
    BY <2>3
  <2> HIDE DEF emitted
  <2> QED  BY <2>1, <2>4, EmitTypes DEF EventType
<1> QED  BY <1>2, <1>4, <1>5, <1>6

-------------------------------------------------------------------------------
(* The invariant.                                                          *)

(* Nothing is inserted at first.                                           *)
LEMMA InitIInv == Init => IInv
<1> SUFFICES ASSUME Init PROVE IInv
  OBVIOUS
<1> USE IngestAssumption
<1>1. Vault!TypeOK /\ log = <<>> /\ Len(log) = 0
  BY DEF Init, Vault!Init, Vault!TypeOK
<1>2. TypeOK
  BY <1>1 DEF Init, TypeOK, NoRow, NoTick, TickType
<1>3. PrefixInserted
  <2>1. events = 1 .. 0 /\ cursor <= 0
    BY DEF Init
  <2>2. \A t \in Ticks : Behind(t, 0)
    BY <1>1 DEF Init, Behind, NoTick
  <2> QED  BY <2>1, <2>2, <1>1 DEF PrefixInserted
<1> QED  BY <1>1, <1>2, <1>3 DEF IInv

(* A chunk is a part of the log that starts at its first block.            *)
LEMMA ChunkTyped ==
  ASSUME TypeOK, NEW t \in Ticks, NEW from \in 1 .. MaxLog + 1
  PROVE  /\ NextChunk(t, from) \in TickType
         /\ NextChunk(t, from).head <= tick[t].head
         /\ NextChunk(t, from).to <= tick[t].head
         /\ NextChunk(t, from).at \in {"idle", "ingesting"}
         /\ NextChunk(t, from).at = "ingesting" => NextChunk(t, from).next = from
<1> USE IngestAssumption
<1>1. tick[t] \in TickType
  BY DEF TypeOK
<1> DEFINE to == Min({from + Window - 1, tick[t].head})
<1>2. CASE from > tick[t].head
  BY <1>1, <1>2 DEF NextChunk, NoTick, TickType
<1>3. CASE ~(from > tick[t].head)
  <2>1. to \in 0 .. MaxLog /\ to <= tick[t].head
    <3>1. to = IF from + Window - 1 <= tick[t].head THEN from + Window - 1
               ELSE tick[t].head
      BY <1>1, MinPair DEF TickType
    <3> QED  BY <3>1, <1>1 DEF TickType
  <2> HIDE DEF to
  <2>2. NextChunk(t, from) =
          [tick[t] EXCEPT !.at = "ingesting", !.next = from, !.to = to]
    BY <1>3 DEF NextChunk, to
  <2>3. /\ NextChunk(t, from).at = "ingesting" /\ NextChunk(t, from).next = from
        /\ NextChunk(t, from).to = to
        /\ NextChunk(t, from).head = tick[t].head
    BY <2>2, <1>1 DEF TickType
  <2>4. NextChunk(t, from) \in TickType
    <3>1. NextChunk(t, from) =
            [ at |-> "ingesting", head |-> tick[t].head, next |-> from, to |-> to,
              read |-> tick[t].read ]
      BY <2>2, <1>1 DEF TickType
    <3>2. /\ from \in 0 .. MaxLog + 1
          /\ tick[t].head \in 0 .. MaxLog /\ tick[t].read \in Nat
      BY <1>1 DEF TickType
    <3> QED  BY <3>1, <3>2, <2>1 DEF TickType
  <2>5. tick[t].head <= tick[t].head
    BY <1>1 DEF TickType
  <2> QED  BY <2>1, <2>3, <2>4, <2>5
<1> QED  BY <1>2, <1>3

(* What a tick relies on stays true when more logs are inserted or emitted *)
(* and the tick does not move.                                             *)
LEMMA BehindStays ==
  ASSUME NEW t \in Ticks, NEW k \in Nat, NEW n \in Nat, k <= n,
         tick[t] \in TickType, Len(log) \in Nat, Len(log') \in Nat,
         Behind(t, k), tick'[t] = tick[t], Len(log) <= Len(log')
  PROVE  Behind(t, n)'
BY DEF Behind, TickType

(* One tick moves, and the inserted prefix may grow.                       *)
LEMMA TickMoves ==
  ASSUME TypeOK, NEW t \in Ticks, NEW new \in TickType,
         NEW k \in 0 .. Len(log), NEW n \in 0 .. Len(log), k <= n,
         \A u \in Ticks : Behind(u, k),
         events' = 1 .. n, cursor' <= n, log' = log,
         tick' = [tick EXCEPT ![t] = new],
         new.head <= Len(log), new.to <= Len(log),
         new.at = "ingesting" => new.next \in 1 .. n + 1,
         new.at \in {"applying", "updating"} => new.next \in 1 .. n
  PROVE  tick' \in [Ticks -> TickType] /\ PrefixInserted'
<1>1. tick \in [Ticks -> TickType] /\ Len(log) \in Nat
  BY DEF TypeOK, Vault!TypeOK
<1>2. tick' \in [Ticks -> TickType] /\ tick'[t] = new
  BY <1>1
<1>3. ASSUME NEW u \in Ticks PROVE Behind(u, n)'
  <2>1. CASE u = t
    BY <2>1, <1>2 DEF Behind
  <2>2. CASE u # t
    <3>1. tick'[u] = tick[u]
      BY <2>2, <1>1
    <3> QED  BY <3>1, <1>1, BehindStays
  <2> QED  BY <2>1, <2>2
<1>4. n \in 0 .. Len(log') /\ events' = 1 .. n /\ cursor' <= n
  OBVIOUS
<1> QED  BY <1>2, <1>3, <1>4 DEF PrefixInserted

(* An element of a sequence over S is in S.                                *)
LEMMA SeqElement ==
  ASSUME NEW S, NEW s \in Seq(S), NEW i \in 1 .. Len(s)
  PROVE  s[i] \in S
OBVIOUS

(* A card in the log is a card.                                            *)
LEMMA CardsInHand ==
  ASSUME IInv, NEW t \in Ticks
  PROVE  /\ InHand(t) \subseteq Cards
         /\ tick[t].next \in 1 .. Len(log) =>
              log[tick[t].next] \in
                [kind : Vault!Kinds, card : Cards, amount : Nat, left : Nat]
<1>1. tick[t].next \in 1 .. Len(log) =>
        log[tick[t].next] \in
          [kind : Vault!Kinds, card : Cards, amount : Nat, left : Nat]
  <2>1. log \in Seq([kind : Vault!Kinds, card : Cards, amount : Nat, left : Nat])
    BY DEF IInv, TypeOK, Vault!TypeOK
  <2> QED  BY <2>1, SeqElement
<1>2. tick[t].at \in {"applying", "updating"} => tick[t].next \in 1 .. Len(log)
  <2>1. PICK k \in 0 .. Len(log) : Behind(t, k)
    BY DEF IInv, PrefixInserted
  <2>2. Len(log) \in Nat
    BY DEF IInv, TypeOK, Vault!TypeOK
  <2>3. 1 .. k \subseteq 1 .. Len(log)
    BY <2>2
  <2> QED  BY <2>1, <2>3 DEF Behind
<1> QED  BY <1>1, <1>2 DEF InHand

(* The log of a tick is ingested: the tick goes on to the next one.        *)
LEMMA DoneMoves ==
  ASSUME IInv, NEW t \in Ticks, NEW k \in 0 .. Len(log), NEW n \in 0 .. Len(log),
         k <= n, \A u \in Ticks : Behind(u, k),
         events' = 1 .. n, cursor' <= n, log' = log,
         tick' = Done(t), tick[t].next \in 1 .. n
  PROVE  tick' \in [Ticks -> TickType] /\ PrefixInserted'
<1> DEFINE new == [tick[t] EXCEPT !.at = "ingesting", !.next = @ + 1, !.read = 0]
<1>1. tick[t] \in TickType /\ tick \in [Ticks -> TickType] /\ Len(log) \in Nat
  <2>1. tick \in [Ticks -> TickType]
    BY DEF IInv, TypeOK
  <2>2. Len(log) \in Nat
    BY DEF IInv, TypeOK, Vault!TypeOK
  <2> QED  BY <2>1, <2>2
<1>2. tick[t].next + 1 \in 0 .. MaxLog + 1
  BY <1>1, IngestAssumption DEF IInv
<1>3. new \in TickType /\ new.at = "ingesting" /\ new.next = tick[t].next + 1
      /\ new.head = tick[t].head /\ new.to = tick[t].to
  BY <1>1, <1>2 DEF TickType
<1>4. tick' = [tick EXCEPT ![t] = new]
  BY <1>1 DEF Done, TickType
<1> HIDE DEF new
<1>5. new.head <= Len(log) /\ new.to <= Len(log)
  BY <1>3 DEF Behind
<1>6. new.next \in 1 .. n + 1
  BY <1>3
<1> QED  BY <1>1, <1>3, <1>4, <1>5, <1>6, TickMoves DEF IInv

-------------------------------------------------------------------------------
(* Every step keeps the invariant.                                         *)

(* The Vault only makes the log longer.                                    *)
LEMMA VaultKeepsIInv == IInv /\ VaultStep => IInv'
<1> SUFFICES ASSUME IInv, VaultStep PROVE IInv'
  OBVIOUS
<1>1. /\ Vault!TypeOK' /\ Len(log') <= MaxLog
      /\ Len(log) \in Nat /\ Len(log') \in Nat /\ Len(log) <= Len(log')
  BY VaultTypes DEF IInv, TypeOK, VaultStep
<1>2. TypeOK'
  BY <1>1 DEF IInv, TypeOK, VaultStep, history
<1>3. PrefixInserted'
  <2>1. PICK k \in 0 .. Len(log) :
          events = 1 .. k /\ cursor <= k /\ \A t \in Ticks : Behind(t, k)
    BY DEF IInv, PrefixInserted
  <2>2. ASSUME NEW t \in Ticks PROVE Behind(t, k)'
    <3>1. tick[t] \in TickType /\ tick'[t] = tick[t]
      BY DEF IInv, TypeOK, VaultStep
    <3>2. k \in Nat /\ k <= k
      BY <1>1
    <3> QED  BY <2>1, <3>1, <3>2, <1>1, BehindStays
  <2>3. k \in 0 .. Len(log')
    BY <1>1
  <2> QED  BY <2>1, <2>2, <2>3 DEF PrefixInserted, VaultStep
<1> QED  BY <1>1, <1>2, <1>3 DEF IInv

(* Starting, reading the cursor and moving it: no log is ingested.         *)
LEMMA ScanKeepsIInv ==
  ASSUME IInv, NEW t \in Ticks, StartTick(t) \/ ReadCursor(t) \/ AdvanceCursor(t)
  PROVE  IInv'
<1> USE IngestAssumption
<1>1. PICK k \in 0 .. Len(log) :
        events = 1 .. k /\ cursor <= k /\ \A u \in Ticks : Behind(u, k)
  BY DEF IInv, PrefixInserted
<1>2. /\ TypeOK /\ Vault!TypeOK /\ Len(log) <= MaxLog
      /\ tick \in [Ticks -> TickType] /\ tick[t] \in TickType
      /\ cursor \in 0 .. MaxLog
  BY DEF IInv, TypeOK
<1>3. Len(log) \in Nat /\ k \in Nat /\ k <= k
  BY <1>2 DEF Vault!TypeOK
<1>4. /\ NoTick \in TickType /\ NoTick.at = "idle"
      /\ NoTick.head <= Len(log) /\ NoTick.to <= Len(log)
  BY <1>3 DEF NoTick, TickType
<1>5. ASSUME UNCHANGED <<chainVars, events, rows, fails, history>>,
             cursor' \in 0 .. MaxLog, cursor' <= k,
             NEW new \in TickType, tick' = [tick EXCEPT ![t] = new],
             new.head <= Len(log), new.to <= Len(log),
             new.at \in {"idle", "started", "ingesting"},
             new.at = "ingesting" => new.next \in 1 .. k + 1
      PROVE  IInv'
  <2>1. log' = log /\ events' = 1 .. k
    BY <1>1, <1>5 DEF chainVars
  <2>2. tick' \in [Ticks -> TickType] /\ PrefixInserted'
    BY <1>1, <1>2, <1>3, <1>5, <2>1, TickMoves
  <2>3. TypeOK'
    BY <1>2, <1>5, <2>2 DEF TypeOK, chainVars, history, Vault!TypeOK
  <2> QED  BY <1>2, <2>1, <2>2, <2>3 DEF IInv
<1>6. CASE StartTick(t)
  <2> DEFINE new == [NoTick EXCEPT !.at = "started", !.head = Len(log)]
  <2>1. Len(log) \in 0 .. MaxLog
    BY <1>2, <1>3
  <2>2. /\ new \in TickType /\ new.at = "started"
        /\ new.head = Len(log) /\ new.to = NoTick.to
    BY <2>1, <1>4 DEF TickType
  <2>3. new.head <= Len(log) /\ new.to <= Len(log)
    BY <2>2, <1>3, <1>4
  <2> HIDE DEF new
  <2>4. tick' = [tick EXCEPT ![t] = new]
    BY <1>6 DEF StartTick, new
  <2> QED  BY <1>1, <1>2, <1>5, <1>6, <2>2, <2>3, <2>4 DEF StartTick
<1>7. ASSUME NEW from \in 1 .. k + 1
      PROVE  LET new == NextChunk(t, from)
             IN  /\ new \in TickType /\ new.head <= Len(log) /\ new.to <= Len(log)
                 /\ new.at \in {"idle", "started", "ingesting"}
                 /\ new.at = "ingesting" => new.next \in 1 .. k + 1
  <2>1. from \in 1 .. MaxLog + 1
    BY <1>2, <1>3
  <2>2. tick[t].head \in Nat /\ tick[t].head <= Len(log)
    BY <1>1, <1>2 DEF Behind, TickType
  <2>3. NextChunk(t, from).head \in Nat /\ NextChunk(t, from).to \in Nat
    BY <2>1, <1>2, ChunkTyped DEF TickType
  <2> QED  BY <1>2, <1>3, <2>1, <2>2, <2>3, ChunkTyped
<1>8. CASE ReadCursor(t)
  <2>1. ScanFrom \in 1 .. k + 1
    BY <1>1, <1>2, <1>3 DEF ScanFrom
  <2> QED  BY <1>1, <1>2, <1>5, <1>7, <1>8, <2>1 DEF ReadCursor
<1>9. CASE AdvanceCursor(t)
  <2>1. tick[t].next \in 1 .. k + 1 /\ tick[t].to < tick[t].next
    BY <1>1, <1>2, <1>9 DEF AdvanceCursor, Behind, TickType
  <2>2. tick[t].to \in 0 .. MaxLog /\ tick[t].to <= k /\ tick[t].to + 1 \in 1 .. k + 1
    BY <1>2, <1>3, <2>1 DEF TickType
  <2>3. cursor' \in 0 .. MaxLog /\ cursor' <= k
    BY <1>9, <2>2 DEF AdvanceCursor, CursorAfter
  <2>4. CASE tick' = [tick EXCEPT ![t] = NextChunk(t, tick[t].to + 1)]
    BY <1>5, <1>7, <1>9, <2>2, <2>3, <2>4 DEF AdvanceCursor
  <2>5. CASE tick' = [tick EXCEPT ![t] = NoTick]
    BY <1>4, <1>5, <1>9, <2>3, <2>5 DEF AdvanceCursor
  <2> QED  BY <1>9, <2>4, <2>5 DEF AdvanceCursor
<1> QED  BY <1>6, <1>8, <1>9

(* An insert extends the prefix by the very next log, or by nothing.       *)
LEMMA InsertKeepsIInv ==
  ASSUME IInv, NEW t \in Ticks, InsertEvent(t)
  PROVE  IInv'
<1> DEFINE i == tick[t].next
<1>1. PICK k \in 0 .. Len(log) :
        events = 1 .. k /\ cursor <= k /\ \A u \in Ticks : Behind(u, k)
  BY DEF IInv, PrefixInserted
<1>2. /\ TypeOK /\ Vault!TypeOK /\ Len(log) <= MaxLog
      /\ tick \in [Ticks -> TickType] /\ tick[t] \in TickType
      /\ cursor \in 0 .. MaxLog
  BY DEF IInv, TypeOK
<1>3. Len(log) \in Nat /\ k \in Nat /\ MaxLog \in Nat
  BY <1>2, IngestAssumption DEF Vault!TypeOK
<1>4. /\ i \in 1 .. k + 1 /\ i \in 1 .. Len(log)
      /\ tick[t].head <= Len(log) /\ tick[t].to <= Len(log)
  <2>1. Behind(t, k) /\ tick[t].at = "ingesting" /\ i <= tick[t].to
    BY <1>1 DEF InsertEvent
  <2>2. i \in 1 .. k + 1 /\ tick[t].head <= Len(log) /\ tick[t].to <= Len(log)
    BY <2>1 DEF Behind
  <2>3. i \in Nat /\ tick[t].to \in Nat
    BY <1>2 DEF TickType
  <2> QED  BY <2>1, <2>2, <2>3, <1>3
<1>5. /\ log' = log /\ cursor' = cursor /\ events' = events \cup {i}
      /\ UNCHANGED <<phase, avail, rows, fails, torn>>
  BY DEF InsertEvent, chainVars
<1>6. raced' \subseteq Cards
  <2>1. log[i].card \in Cards
    BY <1>4, CardsInHand
  <2> QED  BY <2>1, <1>2 DEF InsertEvent, TypeOK
<1>7. tick' \in [Ticks -> TickType] /\ PrefixInserted'
  <2>1. CASE AlreadyInserted(i)
    <3>1. i \in 1 .. k /\ events' = 1 .. k
      BY <2>1, <1>1, <1>5 DEF AlreadyInserted
    <3>2. tick' = Done(t)
      BY <2>1 DEF InsertEvent
    <3>3. cursor' <= k /\ k <= k
      BY <1>1, <1>3, <1>5
    <3> QED  BY <1>1, <1>5, <3>1, <3>2, <3>3, DoneMoves
  <2>2. CASE ~AlreadyInserted(i)
    <3> DEFINE new == [tick[t] EXCEPT !.at = "applying"]
    <3>1. i = k + 1 /\ k + 1 \in 0 .. Len(log) /\ k <= k + 1
      BY <2>2, <1>1, <1>3, <1>4 DEF AlreadyInserted
    <3>2. events' = 1 .. k + 1 /\ cursor' <= k + 1
      BY <1>1, <1>2, <1>3, <1>5, <3>1
    <3>3. /\ new \in TickType /\ new.at = "applying" /\ new.next = i
          /\ new.head = tick[t].head /\ new.to = tick[t].to
      BY <1>2 DEF TickType
    <3>4. tick' = [tick EXCEPT ![t] = new]
      BY <2>2, <1>2 DEF InsertEvent
    <3> HIDE DEF new
    <3>5. /\ new.head <= Len(log) /\ new.to <= Len(log)
          /\ new.at # "ingesting" /\ new.next \in 1 .. k + 1
      BY <3>1, <3>3, <1>3, <1>4
    <3> QED  BY <1>1, <1>2, <1>5, <3>1, <3>2, <3>3, <3>4, <3>5, TickMoves
  <2> QED  BY <2>1, <2>2
<1>8. events' \subseteq Logs
  <2>1. i \in Logs
    BY <1>2, <1>3, <1>4, IngestAssumption DEF Logs
  <2>2. events \subseteq Logs
    BY <1>2 DEF TypeOK
  <2> HIDE DEF i
  <2> QED  BY <2>1, <2>2, <1>5
<1>9. TypeOK'
  BY <1>2, <1>5, <1>6, <1>7, <1>8 DEF TypeOK, Vault!TypeOK
<1> QED  BY <1>2, <1>5, <1>7, <1>9 DEF IInv

(* Applying an inserted event writes a typed row and inserts nothing.      *)
LEMMA ApplyKeepsIInv ==
  ASSUME IInv, NEW t \in Ticks,
         Upsert(t) \/ ReadBalance(t) \/ WriteBalance(t) \/ WriteReclaim(t)
  PROVE  IInv'
<1> DEFINE e == log[tick[t].next]
           RowType == [status : {"None", "Active", "Terminated"}, available : Nat]
<1>1. PICK k \in 0 .. Len(log) :
        events = 1 .. k /\ cursor <= k /\ \A u \in Ticks : Behind(u, k)
  BY DEF IInv, PrefixInserted
<1>2. /\ TypeOK /\ Vault!TypeOK /\ Len(log) <= MaxLog
      /\ tick \in [Ticks -> TickType] /\ tick[t] \in TickType
      /\ rows \in [Cards -> RowType]
  BY DEF IInv, TypeOK
<1>3. Len(log) \in Nat /\ k \in Nat /\ k <= k
  BY <1>2 DEF Vault!TypeOK
<1>4. tick[t].at \in {"applying", "updating"}
  BY DEF Upsert, ReadBalance, WriteBalance, WriteReclaim, Applying
<1>5. /\ tick[t].next \in 1 .. k
      /\ tick[t].head <= Len(log) /\ tick[t].to <= Len(log)
  BY <1>1, <1>4 DEF Behind
<1>6. e \in [kind : Vault!Kinds, card : Cards, amount : Nat, left : Nat]
  BY <1>3, <1>5, CardsInHand
<1>7. e.card \in Cards /\ e.amount \in Nat
  BY <1>6
<1>8. ASSUME UNCHANGED <<chainVars, events, cursor, fails, history>>,
             rows' \in [Cards -> RowType], tick' = Done(t)
      PROVE  IInv'
  <2>1. log' = log /\ events' = 1 .. k /\ cursor' <= k
    BY <1>1, <1>8 DEF chainVars
  <2>2. tick' \in [Ticks -> TickType] /\ PrefixInserted'
    BY <1>1, <1>3, <1>5, <1>8, <2>1, DoneMoves
  <2>3. TypeOK'
    BY <1>2, <1>8, <2>2 DEF TypeOK, chainVars, history, Vault!TypeOK
  <2> QED  BY <1>2, <2>1, <2>2, <2>3 DEF IInv
<1> HIDE DEF e
<1>9. CASE Upsert(t)
  <2>1. ProvisionedRow(e) \in RowType
    BY <1>7 DEF ProvisionedRow
  <2>2. rows' = [rows EXCEPT ![e.card] = ProvisionedRow(e)]
    BY <1>9 DEF Upsert, Event, e
  <2>3. rows' \in [Cards -> RowType]
    BY <1>2, <2>1, <2>2
  <2> QED  BY <1>8, <1>9, <2>3 DEF Upsert
<1>10. CASE ReadBalance(t)
  <2>1. CASE tick' = Done(t)
    BY <1>2, <1>8, <1>10, <2>1 DEF ReadBalance
  <2>2. CASE tick' = [tick EXCEPT ![t].at = "updating",
                                  ![t].read = rows[e.card].available]
    <3> DEFINE new == [tick[t] EXCEPT !.at = "updating", !.read = rows[e.card].available]
    <3>1. rows[e.card].available \in Nat
      BY <1>2, <1>7
    <3>2. /\ new \in TickType /\ new.at = "updating" /\ new.next = tick[t].next
          /\ new.head = tick[t].head /\ new.to = tick[t].to
      BY <3>1, <1>2 DEF TickType
    <3>3. tick' = [tick EXCEPT ![t] = new]
      BY <2>2, <1>2
    <3> HIDE DEF new
    <3>4. /\ new.head <= Len(log) /\ new.to <= Len(log)
          /\ new.at # "ingesting" /\ new.next \in 1 .. k
      BY <3>2, <1>5
    <3>5. /\ UNCHANGED <<chainVars, events, rows, cursor, fails, history>>
          /\ log' = log /\ events' = 1 .. k /\ cursor' <= k
      BY <1>1, <1>10 DEF ReadBalance, chainVars
    <3>6. tick' \in [Ticks -> TickType] /\ PrefixInserted'
      BY <1>1, <1>2, <1>3, <3>2, <3>3, <3>4, <3>5, TickMoves
    <3>7. TypeOK'
      BY <1>2, <3>5, <3>6 DEF TypeOK, chainVars, history, Vault!TypeOK
    <3> QED  BY <1>2, <3>5, <3>6, <3>7 DEF IInv
  <2> QED  BY <1>10, <2>1, <2>2 DEF ReadBalance, Event, e
<1>11. CASE WriteBalance(t)
  <2>1. tick[t].read \in Nat
    BY <1>2 DEF TickType
  <2>2. Max({tick[t].read - e.amount, 0}) \in Nat
    BY <2>1, <1>7, MaxPair
  <2>3. SettledRow(tick[t].read, e.amount) \in RowType
    BY <2>2 DEF SettledRow
  <2>4. rows' = [rows EXCEPT ![e.card] = SettledRow(tick[t].read, e.amount)]
    BY <1>11 DEF WriteBalance, Event, e
  <2>5. rows' \in [Cards -> RowType]
    BY <1>2, <2>3, <2>4
  <2> QED  BY <1>8, <1>11, <2>5 DEF WriteBalance
<1>12. CASE WriteReclaim(t)
  <2>1. rows' \in [Cards -> RowType]
    BY <1>2, <1>12 DEF WriteReclaim
  <2> QED  BY <1>8, <1>12, <2>1 DEF WriteReclaim
<1> QED  BY <1>9, <1>10, <1>11, <1>12

(* A tick that fails leaves what it inserted.                              *)
LEMMA FailKeepsIInv ==
  ASSUME IInv, NEW t \in Ticks, FailTick(t)
  PROVE  IInv'
<1>1. PICK k \in 0 .. Len(log) :
        events = 1 .. k /\ cursor <= k /\ \A u \in Ticks : Behind(u, k)
  BY DEF IInv, PrefixInserted
<1>2. TypeOK /\ Len(log) <= MaxLog /\ Len(log) \in Nat /\ k \in Nat /\ k <= k
  BY DEF IInv, TypeOK, Vault!TypeOK
<1>3. /\ NoTick \in TickType /\ NoTick.at = "idle"
      /\ NoTick.head <= Len(log) /\ NoTick.to <= Len(log)
  BY <1>2, IngestAssumption DEF NoTick, TickType
<1>4. log' = log /\ events' = 1 .. k /\ cursor' <= k
  BY <1>1 DEF FailTick, chainVars
<1>5. tick' = [tick EXCEPT ![t] = NoTick]
  BY DEF FailTick
<1>6. tick' \in [Ticks -> TickType] /\ PrefixInserted'
  BY <1>1, <1>2, <1>3, <1>4, <1>5, TickMoves
<1>7. torn' \subseteq Cards /\ fails' \in 0 .. MaxFails
  BY <1>2, CardsInHand, IngestAssumption DEF FailTick, TypeOK
<1>8. TypeOK'
  BY <1>2, <1>6, <1>7 DEF FailTick, TypeOK, chainVars, Vault!TypeOK
<1> QED  BY <1>2, <1>4, <1>6, <1>8 DEF IInv

(* The invariant is inductive.                                             *)
LEMMA StepIInv == IInv /\ [Next]_vars => IInv'
<1> SUFFICES ASSUME IInv, [Next]_vars PROVE IInv'
  OBVIOUS
<1>1. CASE VaultStep
  BY <1>1, VaultKeepsIInv
<1>2. ASSUME NEW t \in Ticks, RunTick(t) PROVE IInv'
  BY <1>2, ScanKeepsIInv, InsertKeepsIInv, ApplyKeepsIInv DEF RunTick
<1>3. ASSUME NEW t \in Ticks, FailTick(t) PROVE IInv'
  BY <1>3, FailKeepsIInv
<1>4. CASE UNCHANGED vars
  BY <1>4 DEF vars, chainVars, history, IInv, TypeOK, Vault!TypeOK,
              PrefixInserted, Behind
<1> QED  BY <1>1, <1>2, <1>3, <1>4 DEF Next

(* The invariant holds of every run (runTick).                             *)
THEOREM IngestInvariant == Spec => []IInv
<1> QED  BY InitIInv, StepIInv, PTL DEF Spec

(* No row goes negative and no cursor passes the head (runTick).           *)
THEOREM IngestTypeCorrect == Spec => []TypeOK
<1>1. IInv => TypeOK
  BY DEF IInv
<1> QED  BY <1>1, IngestInvariant, PTL

(* However many ticks overlap and fail, the events behind the cursor are   *)
(* all there and were inserted in log order (setCursor, runTick).          *)
THEOREM CursorSafe == Spec => []CursorNeverSkips
<1>1. IInv => CursorNeverSkips
  <2> SUFFICES ASSUME IInv PROVE CursorNeverSkips
    OBVIOUS
  <2>1. PICK k \in 0 .. Len(log) : events = 1 .. k /\ cursor <= k
    BY DEF IInv, PrefixInserted
  <2>2. k \in Nat
    BY DEF IInv, TypeOK, Vault!TypeOK
  <2>3. Cardinality(1 .. k) = k
    BY <2>2, FS_Interval
  <2> QED  BY <2>1, <2>3 DEF CursorNeverSkips
<1> QED  BY <1>1, IngestInvariant, PTL
-------------------------------------------------------------------------------
(* Partial sums.  f[i] is the sum of the weights w[1], ..., w[i], which are*)
(* zero after the n-th.                                                    *)
Sums(w, n, f) ==
  /\ f \in [Nat -> Nat]
  /\ \A i \in Nat : f[i + 1] = f[i] + w[i + 1]
  /\ \A i, j \in Nat : i <= j => f[i] <= f[j]
  /\ \A i \in Nat : i >= n => f[i] = f[n]

(* Weights of zero add up to zero.                                         *)
LEMMA SumsZero ==
  ASSUME NEW w \in [Nat -> Nat], NEW n \in Nat, \A i \in Nat : w[i] = 0
  PROVE  Sums(w, n, [i \in Nat |-> 0]) /\ [i \in Nat |-> 0][n] = 0
BY DEF Sums

(* A longer run of the same weights.                                       *)
LEMMA SumsGrow ==
  ASSUME NEW w, NEW n \in Nat, NEW m \in Nat, n <= m, NEW f, Sums(w, n, f)
  PROVE  Sums(w, m, f) /\ f[m] = f[n]
BY DEF Sums

(* The weights v are w, but for the j-th, which is a.                      *)
Changed(v, w, j, a) == \A i \in Nat : v[i] = IF i = j THEN a ELSE w[i]

(* The whole of the weights v is s.                                        *)
Whole(v, m, s) == \E g : Sums(v, m, g) /\ g[m] = s

(* A weight after the last one is added to the whole.                      *)
LEMMA SumsAdd ==
  ASSUME NEW w \in [Nat -> Nat], NEW n \in Nat, NEW m \in Nat, NEW f, Sums(w, n, f),
         NEW j \in Nat, n < j, j <= m, NEW a \in Nat,
         NEW v \in [Nat -> Nat], Changed(v, w, j, a)
  PROVE  Whole(v, m, f[n] + a)
<1> DEFINE g == [i \in Nat |-> IF i >= j THEN f[i] + a ELSE f[i]]
<1>1. f \in [Nat -> Nat]
  BY DEF Sums
<1>2. \A i \in Nat : f[i + 1] = f[i] + w[i + 1]
  BY DEF Sums
<1>3. \A i, k \in Nat : i <= k => f[i] <= f[k]
  BY DEF Sums
<1>4. \A i \in Nat : i >= n => f[i] = f[n]
  BY DEF Sums
<1>5. \A i \in Nat : f[i] \in Nat /\ f[i] + a \in Nat
  BY <1>1
<1>6. g \in [Nat -> Nat] /\ \A i \in Nat : g[i] = IF i >= j THEN f[i] + a ELSE f[i]
  BY <1>5
<1>7. \A i \in Nat : v[i] = IF i = j THEN a ELSE w[i]
  BY DEF Changed
<1> HIDE DEF g
<1>8. ASSUME NEW i \in Nat PROVE g[i + 1] = g[i] + v[i + 1]
  <2>1. i + 1 \in Nat /\ f[i] \in Nat /\ f[i + 1] \in Nat
    BY <1>1
  <2>2. CASE i + 1 = j
    <3>1. f[i + 1] = f[n] /\ f[i] = f[n]
      BY <1>4, <2>1, <2>2
    <3>2. g[i + 1] = f[i + 1] + a /\ g[i] = f[i]
      BY <1>6, <2>1, <2>2
    <3>3. v[i + 1] = a
      BY <1>7, <2>1, <2>2
    <3> QED  BY <2>1, <3>1, <3>2, <3>3
  <2>3. CASE i + 1 # j
    <3>1. i >= j <=> i + 1 >= j
      BY <2>3
    <3>2. f[i + 1] = f[i] + w[i + 1]
      BY <1>2
    <3>3. v[i + 1] = w[i + 1] /\ w[i + 1] \in Nat
      BY <1>7, <2>1, <2>3
    <3>4. /\ g[i + 1] = IF i + 1 >= j THEN f[i + 1] + a ELSE f[i + 1]
          /\ g[i] = IF i >= j THEN f[i] + a ELSE f[i]
      BY <1>6, <2>1
    <3> QED  BY <2>1, <3>1, <3>2, <3>3, <3>4
  <2> QED  BY <2>2, <2>3
<1>9. ASSUME NEW i \in Nat, NEW k \in Nat, i <= k PROVE g[i] <= g[k]
  <2>1. f[i] <= f[k] /\ f[i] \in Nat /\ f[k] \in Nat
    BY <1>1, <1>3, <1>9
  <2>2. /\ g[k] = IF k >= j THEN f[k] + a ELSE f[k]
        /\ g[i] = IF i >= j THEN f[i] + a ELSE f[i]
    BY <1>6
  <2> QED  BY <1>9, <2>1, <2>2
<1>10. \A i \in Nat : i >= m => g[i] = f[n] + a
  BY <1>4, <1>6
<1>11. g[m] = f[n] + a /\ \A i \in Nat : i >= m => g[i] = g[m]
  BY <1>10
<1>12. Sums(v, m, g)
  BY <1>6, <1>8, <1>9, <1>11 DEF Sums
<1> QED  BY <1>11, <1>12 DEF Whole

(* A weight that becomes zero is taken from the whole.                     *)
LEMMA SumsDrop ==
  ASSUME NEW w \in [Nat -> Nat], NEW n \in Nat, NEW f, Sums(w, n, f),
         NEW j \in 1 .. n,
         NEW v \in [Nat -> Nat], \A i \in Nat : v[i] = IF i = j THEN 0 ELSE w[i]
  PROVE  \E g : Sums(v, n, g) /\ g[n] = f[n] - w[j]
<1> DEFINE g == [i \in Nat |-> IF i >= j THEN f[i] - w[j] ELSE f[i]]
<1>1. f \in [Nat -> Nat]
  BY DEF Sums
<1>2. \A i \in Nat : f[i + 1] = f[i] + w[i + 1]
  BY DEF Sums
<1>3. \A i, k \in Nat : i <= k => f[i] <= f[k]
  BY DEF Sums
<1>4. \A i \in Nat : i >= n => f[i] = f[n]
  BY DEF Sums
<1>5. j - 1 \in Nat /\ j \in Nat /\ w[j] \in Nat /\ f[j] \in Nat /\ f[j - 1] \in Nat
  BY <1>1
<1>6. f[j] = f[j - 1] + w[j]
  <2>1. f[(j - 1) + 1] = f[j - 1] + w[(j - 1) + 1]
    BY <1>2, <1>5
  <2>2. (j - 1) + 1 = j
    BY <1>5
  <2> QED  BY <2>1, <2>2
<1>7. ASSUME NEW i \in Nat, i >= j PROVE f[i] \in Nat /\ f[i] - w[j] >= f[j - 1]
  <2>1. f[j] <= f[i] /\ f[i] \in Nat
    BY <1>1, <1>3, <1>5, <1>7
  <2> QED  BY <1>5, <1>6, <2>1
<1>8. \A i \in Nat : f[i] \in Nat /\ (i >= j => f[i] - w[j] \in Nat)
  BY <1>1, <1>5, <1>7
<1>9. g \in [Nat -> Nat] /\ \A i \in Nat : g[i] = IF i >= j THEN f[i] - w[j] ELSE f[i]
  BY <1>8
<1>10. \A i \in Nat : v[i] = IF i = j THEN 0 ELSE w[i]
  BY <1>5
<1> HIDE DEF g
<1>11. ASSUME NEW i \in Nat PROVE g[i + 1] = g[i] + v[i + 1]
  <2>1. /\ i + 1 \in Nat /\ f[i] \in Nat /\ f[i + 1] \in Nat
        /\ f[i + 1] = f[i] + w[i + 1] /\ w[i + 1] \in Nat
    BY <1>1, <1>2
  <2>2. /\ g[i + 1] = IF i + 1 >= j THEN f[i + 1] - w[j] ELSE f[i + 1]
        /\ g[i] = IF i >= j THEN f[i] - w[j] ELSE f[i]
        /\ v[i + 1] = IF i + 1 = j THEN 0 ELSE w[i + 1]
    BY <1>9, <1>10, <2>1
  <2>3. CASE i + 1 = j
    BY <1>5, <2>1, <2>2, <2>3
  <2>4. CASE i + 1 # j
    BY <1>5, <2>1, <2>2, <2>4
  <2> QED  BY <2>3, <2>4
<1>12. ASSUME NEW i \in Nat, NEW k \in Nat, i <= k PROVE g[i] <= g[k]
  <2>1. f[i] <= f[k] /\ f[i] \in Nat /\ f[k] \in Nat
    BY <1>1, <1>3, <1>12
  <2>2. /\ g[k] = IF k >= j THEN f[k] - w[j] ELSE f[k]
        /\ g[i] = IF i >= j THEN f[i] - w[j] ELSE f[i]
    BY <1>9
  <2>3. CASE ~(i >= j) /\ k >= j
    <3>1. f[i] <= f[j - 1]
      BY <1>3, <1>5, <2>3
    <3>2. f[k] - w[j] >= f[j - 1]
      BY <1>7, <2>3
    <3> QED  BY <1>5, <2>1, <2>2, <2>3, <3>1, <3>2
  <2>4. CASE (i >= j /\ k >= j) \/ ~(k >= j)
    BY <1>5, <1>12, <2>1, <2>2, <2>4
  <2> QED  BY <1>5, <1>12, <2>3, <2>4
<1>13. ASSUME NEW i \in Nat, i >= n PROVE g[i] = f[n] - w[j]
  <2>1. i >= j
    BY <1>5, <1>13
  <2>2. f[i] = f[n]
    BY <1>4, <1>13
  <2> QED  BY <1>9, <2>1, <2>2
<1>14. g[n] = f[n] - w[j] /\ \A i \in Nat : i >= n => g[i] = g[n]
  BY <1>13
<1>15. Sums(v, n, g)
  BY <1>9, <1>11, <1>12, <1>14 DEF Sums
<1> QED  BY <1>14, <1>15

(* The weights v are w, but for one at most, d, that became zero.          *)
Lessened(v, w, n, d) ==
  /\ v \in [Nat -> Nat]
  /\ \/ v = w /\ d = 0
     \/ \E j \in 1 .. n :
          d = w[j] /\ \A i \in Nat : v[i] = IF i = j THEN 0 ELSE w[i]

(* The whole of v is less by d than that of f.                             *)
AddsUpTo(v, n, f, d) == \E g : Sums(v, n, g) /\ g[n] = f[n] - d

(* Lessened weights add up to less.                                        *)
LEMMA SumsLess ==
  ASSUME NEW w \in [Nat -> Nat], NEW v, NEW n \in Nat, NEW f, Sums(w, n, f), NEW d \in Nat,
         Lessened(v, w, n, d)
  PROVE  AddsUpTo(v, n, f, d)
<1>1. CASE v = w /\ d = 0
  <2>1. f[n] = f[n] - 0
    BY DEF Sums
  <2> QED  BY <1>1, <2>1 DEF AddsUpTo
<1>2. ASSUME NEW j \in 1 .. n, d = w[j], \A i \in Nat : v[i] = IF i = j THEN 0 ELSE w[i]
      PROVE  AddsUpTo(v, n, f, d)
  <2>1. v \in [Nat -> Nat]
    BY DEF Lessened
  <2>2. \E g : Sums(v, n, g) /\ g[n] = f[n] - w[j]
    BY <1>2, <2>1, SumsDrop
  <2> QED  BY <1>2, <2>2 DEF AddsUpTo
<1> QED  BY <1>1, <1>2 DEF Lessened

(* No sum is less than one of its weights.                                 *)
LEMMA SumsBound ==
  ASSUME NEW w \in [Nat -> Nat], NEW n \in Nat, NEW f, Sums(w, n, f), NEW j \in 1 .. n
  PROVE  f[n] \in Nat /\ f[n] >= w[j]
<1> DEFINE v == [i \in Nat |-> IF i = j THEN 0 ELSE w[i]]
<1>1. v \in [Nat -> Nat] /\ \A i \in Nat : v[i] = IF i = j THEN 0 ELSE w[i]
  OBVIOUS
<1> HIDE DEF v
<1>2. PICK g : Sums(v, n, g) /\ g[n] = f[n] - w[j]
  BY <1>1, SumsDrop
<1>3. f[n] \in Nat /\ g[n] \in Nat /\ w[j] \in Nat
  BY <1>2 DEF Sums
<1> QED  BY <1>2, <1>3

-------------------------------------------------------------------------------
(* Why no row shows less than the Vault holds: it shows no less than the   *)
(* balance and the settlements together that were not applied to it yet.   *)

Holds(t, i) == tick[t].at \in {"applying", "updating"} /\ tick[t].next = i

(* No tick has applied log i, nor lost it by failing.                      *)
Unapplied(i) == i \notin events \/ \E t \in Ticks : Holds(t, i)

(* The amounts of c's settlements that are not applied.                    *)
Weights(c) ==
  [ i \in Nat |->
      IF /\ i \in 1 .. Len(log) /\ log[i].card = c
         /\ log[i].kind = "SettlementFlushed" /\ Unapplied(i)
      THEN log[i].amount ELSE 0 ]

(* What c's row, the balances read from it and its provision promise.      *)
Covers(c, due) ==
  /\ rows[c] # NoRow => rows[c].available >= due
  /\ \A t \in Ticks :
       tick[t].at = "updating" /\ Event(t).card = c => tick[t].read >= due
  /\ \A i \in 1 .. Len(log) :
       log[i].card = c /\ log[i].kind = "PaycardProvisioned" => log[i].amount >= due

Covered(c) ==
  \E f : /\ Sums(Weights(c), Len(log), f)
         /\ phase[c] = "open" => Covers(c, avail[c] + f[Len(log)])

(* How the phases of a card show in the log and in its row.                *)
PhaseFacts(c) ==
  /\ phase[c] = "none" =>
       /\ rows[c] = NoRow /\ avail[c] = 0
       /\ \A i \in 1 .. Len(log) : log[i].card # c
  /\ phase[c] = "open" =>
       /\ avail[c] > 0
       /\ \A i \in 1 .. Len(log) :
            log[i].card = c => log[i].kind # "ResidualDeltaReclaimed"
  /\ phase[c] = "closed" => avail[c] = 0
  /\ rows[c].status = "Terminated" => phase[c] = "closed"

(* One tick applies an event, and only settlements are applied in two      *)
(* statements.                                                             *)
AppliedOnce ==
  /\ \A t, u \in Ticks : \A i \in Nat : Holds(t, i) /\ Holds(u, i) => t = u
  /\ \A t \in Ticks : tick[t].at = "updating" => Event(t).kind = "SettlementFlushed"

RowInv == AppliedOnce /\ \A c \in Cards : PhaseFacts(c) /\ Covered(c)

(* What IInv says in the terms of this section.                            *)
LEMMA Typed ==
  ASSUME IInv
  PROVE  /\ Len(log) \in Nat
         /\ \A i \in 1 .. Len(log) :
              log[i].card \in Cards /\ log[i].kind \in Vault!Kinds /\ log[i].amount \in Nat
         /\ avail \in [Cards -> Nat] /\ phase \in [Cards -> {"none", "open", "closed"}]
         /\ tick \in [Ticks -> TickType]
         /\ \A t \in Ticks, i \in Nat : Holds(t, i) => i \in events /\ i \in 1 .. Len(log)
         /\ rows \in [Cards -> [status : {"None", "Active", "Terminated"}, available : Nat]]
<1>1. Len(log) \in Nat
  BY DEF IInv, TypeOK, Vault!TypeOK
<1>2. ASSUME NEW i \in 1 .. Len(log)
      PROVE  log[i].card \in Cards /\ log[i].kind \in Vault!Kinds /\ log[i].amount \in Nat
  <2>1. log \in Seq([kind : Vault!Kinds, card : Cards, amount : Nat, left : Nat])
    BY DEF IInv, TypeOK, Vault!TypeOK
  <2>2. log[i] \in [kind : Vault!Kinds, card : Cards, amount : Nat, left : Nat]
    BY <2>1, SeqElement
  <2> QED  BY <2>2
<1>3. avail \in [Cards -> Nat] /\ phase \in [Cards -> {"none", "open", "closed"}]
  BY DEF IInv, TypeOK, Vault!TypeOK
<1>4. /\ tick \in [Ticks -> TickType]
      /\ rows \in [Cards -> [status : {"None", "Active", "Terminated"}, available : Nat]]
  BY DEF IInv, TypeOK
<1>5. ASSUME NEW t \in Ticks, NEW i \in Nat, Holds(t, i)
      PROVE  i \in events /\ i \in 1 .. Len(log)
  <2>1. PICK k \in 0 .. Len(log) : events = 1 .. k /\ Behind(t, k)
    BY DEF IInv, PrefixInserted
  <2>2. i \in 1 .. k
    BY <1>5, <2>1 DEF Behind, Holds
  <2> QED  BY <1>1, <2>1, <2>2
<1> QED  BY <1>1, <1>2, <1>3, <1>4, <1>5

(* Weights are numbers.                                                    *)
LEMMA WeightsTyped ==
  ASSUME IInv, NEW c \in Cards
  PROVE  Weights(c) \in [Nat -> Nat]
<1>1. \A i \in 1 .. Len(log) : log[i].amount \in Nat
  BY Typed
<1> QED  BY <1>1 DEF Weights

(* The log stays, and so does what is not applied of it.                   *)
LEMMA WeightsStay ==
  ASSUME log' = log, \A i \in 1 .. Len(log) : Unapplied(i)' <=> Unapplied(i),
         NEW c \in Cards
  PROVE  Weights(c)' = Weights(c)
<1> DEFINE w(i) == IF /\ i \in 1 .. Len(log) /\ log[i].card = c
                      /\ log[i].kind = "SettlementFlushed" /\ Unapplied(i)
                   THEN log[i].amount ELSE 0
<1>1. ASSUME NEW i \in Nat PROVE w(i)' = w(i)
  <2>1. CASE i \in 1 .. Len(log)
    <3>1. Unapplied(i)' <=> Unapplied(i)
      BY <2>1
    <3> HIDE DEF Unapplied
    <3> QED  BY <3>1
  <2>2. CASE i \notin 1 .. Len(log)
    BY <2>2
  <2> QED  BY <2>1, <2>2
<1>2. Weights(c) = [i \in Nat |-> w(i)] /\ Weights(c)' = [i \in Nat |-> w(i)']
  BY DEF Weights
<1> HIDE DEF w
<1> QED  BY <1>1, <1>2

(* Tick t is done with log j, whether it applied it or not.                *)
LEMMA WeightsDrop ==
  ASSUME IInv, AppliedOnce, NEW t \in Ticks, NEW j \in Nat, Holds(t, j),
         NEW new, new.at \notin {"applying", "updating"},
         tick' = [tick EXCEPT ![t] = new], log' = log, events' = events
  PROVE  /\ \A c \in Cards :
              /\ Weights(c)' \in [Nat -> Nat]
              /\ \A i \in Nat : Weights(c)'[i] = IF i = j THEN 0 ELSE Weights(c)[i]
         /\ AppliedOnce'
<1>1. tick \in [Ticks -> TickType] /\ j \in events /\ Len(log) \in Nat
  BY Typed
<1>2. tick'[t] = new /\ \A u \in Ticks : u # t => tick'[u] = tick[u]
  BY <1>1
<1>3. /\ \A i \in Nat : ~Holds(t, i)'
      /\ \A u \in Ticks, i \in Nat : u # t => (Holds(u, i)' <=> Holds(u, i))
  BY <1>2 DEF Holds
<1>4. \A u \in Ticks : Holds(u, j) => u = t
  BY DEF AppliedOnce
<1>5. ASSUME NEW i \in Nat PROVE Unapplied(i)' <=> i # j /\ Unapplied(i)
  <2>1. CASE i = j
    BY <1>1, <1>3, <1>4, <2>1 DEF Unapplied
  <2>2. CASE i # j
    <3>1. ~Holds(t, i)
      BY <2>2 DEF Holds
    <3> QED  BY <1>3, <2>2, <3>1 DEF Unapplied
  <2> QED  BY <2>1, <2>2
<1>6. ASSUME NEW c \in Cards
      PROVE  /\ Weights(c)' \in [Nat -> Nat]
             /\ \A i \in Nat : Weights(c)'[i] = IF i = j THEN 0 ELSE Weights(c)[i]
  <2> DEFINE w(i) == IF /\ i \in 1 .. Len(log) /\ log[i].card = c
                        /\ log[i].kind = "SettlementFlushed" /\ Unapplied(i)
                     THEN log[i].amount ELSE 0
  <2>1. ASSUME NEW i \in Nat PROVE w(i)' = IF i = j THEN 0 ELSE w(i)
    <3>1. Unapplied(i)' <=> i # j /\ Unapplied(i)
      BY <1>5
    <3> HIDE DEF Unapplied
    <3> QED  BY <3>1
  <2>2. Weights(c) = [i \in Nat |-> w(i)] /\ Weights(c)' = [i \in Nat |-> w(i)']
    BY DEF Weights
  <2>3. Weights(c) \in [Nat -> Nat]
    BY WeightsTyped
  <2> HIDE DEF w
  <2> QED  BY <2>1, <2>2, <2>3
<1>7. AppliedOnce'
  <2>1. ASSUME NEW u \in Ticks, NEW v \in Ticks, NEW i \in Nat, Holds(u, i)', Holds(v, i)'
        PROVE  u = v
    BY <1>3, <2>1 DEF AppliedOnce
  <2>2. ASSUME NEW u \in Ticks, tick'[u].at = "updating"
        PROVE  Event(u)'.kind = "SettlementFlushed"
    BY <1>2, <2>2 DEF AppliedOnce, Event
  <2> QED  BY <2>1, <2>2 DEF AppliedOnce
<1> QED  BY <1>6, <1>7

(* A step takes no more than d from c's row and from what was read of it.  *)
TakesAtMost(c, d) ==
  \A due \in Nat : phase[c] = "open" /\ Covers(c, due) =>
    /\ rows'[c] # NoRow => rows'[c].available >= due - d
    /\ \A u \in Ticks : tick'[u].at = "updating" /\ log[tick'[u].next].card = c =>
         tick'[u].read >= due - d

(* A card stays covered if the step also applies d of its weights.         *)
LEMMA CoveredStep ==
  ASSUME IInv, NEW c \in Cards, Covered(c), NEW d \in Nat,
         Lessened(Weights(c)', Weights(c), Len(log), d),
         UNCHANGED <<log, phase, avail>>, TakesAtMost(c, d)
  PROVE  Covered(c)'
<1>1. PICK f : /\ Sums(Weights(c), Len(log), f)
               /\ phase[c] = "open" => Covers(c, avail[c] + f[Len(log)])
  BY DEF Covered
<1>2. Len(log) \in Nat /\ avail[c] \in Nat /\ Weights(c) \in [Nat -> Nat]
      /\ \A i \in 1 .. Len(log) : log[i].amount \in Nat
  BY Typed, WeightsTyped
<1>3. f[Len(log)] \in Nat
  BY <1>1, <1>2 DEF Sums
<1>4. \E g : Sums(Weights(c)', Len(log), g) /\ g[Len(log)] = f[Len(log)] - d
  <2>1. AddsUpTo(Weights(c)', Len(log), f, d)
    BY <1>1, <1>2, SumsLess
  <2> QED  BY <2>1 DEF AddsUpTo
<1>5. PICK g : Sums(Weights(c)', Len(log), g) /\ g[Len(log)] = f[Len(log)] - d
  BY <1>4
<1>6. ASSUME phase[c] = "open" PROVE Covers(c, avail[c] + g[Len(log)])'
  <2> DEFINE a == avail[c]
             s == f[Len(log)]
             due == a + s
  <2>0. a \in Nat /\ s \in Nat
    BY <1>2, <1>3
  <2>1. due \in Nat /\ Covers(c, due)
    <3>1. Covers(c, due)
      BY <1>1, <1>6
    <3> HIDE DEF a, s
    <3> QED  BY <2>0, <3>1
  <2>6. avail[c] + g[Len(log)] = due - d
    <3>1. avail[c] = a /\ g[Len(log)] = s - d
      BY <1>5
    <3> HIDE DEF a, s
    <3> QED  BY <2>0, <3>1
  <2> HIDE DEF due
  <2>2. rows'[c] # NoRow => rows'[c].available >= due - d
    BY <1>6, <2>1 DEF TakesAtMost
  <2>3. \A u \in Ticks : tick'[u].at = "updating" /\ log[tick'[u].next].card = c =>
          tick'[u].read >= due - d
    BY <1>6, <2>1 DEF TakesAtMost
  <2>4. \A i \in 1 .. Len(log) :
          log[i].card = c /\ log[i].kind = "PaycardProvisioned" => log[i].amount >= due - d
    <3> TAKE i \in 1 .. Len(log)
    <3>1. log[i].card = c /\ log[i].kind = "PaycardProvisioned" => log[i].amount >= due
      BY <2>1 DEF Covers
    <3>2. log[i].amount \in Nat
      BY <1>2
    <3> QED  BY <2>1, <3>1, <3>2
  <2>7. log' = log /\ avail' = avail
    OBVIOUS
  <2> DEFINE rest == due - d
  <2> HIDE DEF rest
  <2>8. \A u \in Ticks : tick'[u].at = "updating" /\ Event(u)'.card = c => tick'[u].read >= rest
    BY <2>3, <2>7 DEF Event, rest
  <2>9. /\ rows'[c] # NoRow => rows'[c].available >= rest
        /\ \A i \in 1 .. Len(log) :
             log[i].card = c /\ log[i].kind = "PaycardProvisioned" => log[i].amount >= rest
    BY <2>2, <2>4 DEF rest
  <2>10. (avail[c] + g[Len(log)])' = rest
    BY <2>6, <2>7 DEF rest
  <2> QED  BY <2>7, <2>8, <2>9, <2>10 DEF Covers, NoRow
<1> QED  BY <1>5, <1>6 DEF Covered

(* Nothing is taken in hand or put down.                                   *)
LEMMA QuietKeepsRows ==
  ASSUME IInv, RowInv, NEW t \in Ticks, NEW new,
         tick[t].at \notin {"applying", "updating"},
         new.at \notin {"applying", "updating"},
         tick' = [tick EXCEPT ![t] = new], UNCHANGED <<chainVars, events, rows>>
  PROVE  RowInv'
<1>1. tick \in [Ticks -> TickType]
  BY Typed
<1>2. tick'[t] = new /\ \A u \in Ticks : u # t => tick'[u] = tick[u]
  BY <1>1
<1>3. log' = log /\ avail' = avail /\ phase' = phase /\ events' = events /\ rows' = rows
  BY DEF chainVars
<1>4. \A u \in Ticks, i \in Nat : Holds(u, i)' <=> Holds(u, i)
  BY <1>2 DEF Holds
<1>5. \A i \in 1 .. Len(log) : Unapplied(i)' <=> Unapplied(i)
  <2>1. 1 .. Len(log) \subseteq Nat
    BY Typed
  <2> QED  BY <1>3, <1>4, <2>1 DEF Unapplied
<1>6. \A u \in Ticks : tick'[u].at = "updating" => tick'[u] = tick[u]
  BY <1>2
<1>7. AppliedOnce'
  BY <1>3, <1>4, <1>6 DEF RowInv, AppliedOnce, Event
<1>8. ASSUME NEW c \in Cards PROVE Covered(c)'
  <2>1. Lessened(Weights(c)', Weights(c), Len(log), 0)
    BY <1>3, <1>5, WeightsStay, WeightsTyped DEF Lessened
  <2>2. ASSUME NEW due \in Nat, Covers(c, due)
        PROVE  /\ rows'[c] # NoRow => rows'[c].available >= due - 0
               /\ \A u \in Ticks : tick'[u].at = "updating" /\ log[tick'[u].next].card = c =>
                    tick'[u].read >= due - 0
    <3>1. due - 0 = due
      OBVIOUS
    <3>2. rows'[c] # NoRow => rows'[c].available >= due
      BY <1>3, <2>2 DEF Covers
    <3>3. \A u \in Ticks : tick'[u].at = "updating" /\ log[tick'[u].next].card = c =>
            tick'[u].read >= due
      BY <1>6, <2>2 DEF Covers, Event
    <3> QED  BY <3>1, <3>2, <3>3
  <2>3. Covered(c) /\ UNCHANGED <<log, phase, avail>>
    BY <1>3 DEF RowInv
  <2>4. TakesAtMost(c, 0)
    BY <2>2 DEF TakesAtMost
  <2> QED  BY <2>1, <2>3, <2>4, CoveredStep
<1>9. \A c \in Cards : PhaseFacts(c)'
  BY <1>3 DEF RowInv, PhaseFacts, NoRow
<1> QED  BY <1>7, <1>8, <1>9 DEF RowInv

(* Tick t puts down log j, and changes its card's row at most.             *)
LEMMA DownKeepsRows ==
  ASSUME IInv, RowInv, NEW t \in Ticks, NEW j \in Nat, Holds(t, j), NEW new,
         new.at \notin {"applying", "updating"},
         tick' = [tick EXCEPT ![t] = new], UNCHANGED <<chainVars, events>>,
         NEW c \in Cards, c = log[j].card,
         \A b \in Cards : b # c => rows'[b] = rows[b],
         rows'[c].status = "Terminated" => phase[c] = "closed",
         \A due \in Nat : phase[c] = "open" /\ Covers(c, due) =>
           (rows'[c] # NoRow => rows'[c].available >= due - Weights(c)[j])
  PROVE  RowInv'
<1>1. tick \in [Ticks -> TickType] /\ j \in 1 .. Len(log)
  BY Typed
<1>2. tick'[t] = new /\ \A u \in Ticks : u # t => tick'[u] = tick[u]
  BY <1>1
<1>3. log' = log /\ avail' = avail /\ phase' = phase /\ events' = events
  BY DEF chainVars
<1>4. AppliedOnce
  BY DEF RowInv
<1>5. /\ \A b \in Cards : /\ Weights(b)' \in [Nat -> Nat]
                             /\ \A i \in Nat : Weights(b)'[i] = IF i = j THEN 0 ELSE Weights(b)[i]
      /\ AppliedOnce'
  BY <1>3, <1>4, WeightsDrop
<1>6. ASSUME NEW b \in Cards PROVE Covered(b)'
  <2> DEFINE d == Weights(b)[j]
  <2>1. d \in Nat
    BY WeightsTyped
  <2>2. d = Weights(b)[j]
    OBVIOUS
  <2>5. Lessened(Weights(b)', Weights(b), Len(log), d)
    BY <1>1, <1>5 DEF Lessened
  <2> HIDE DEF d
  <2>3. ASSUME NEW due \in Nat, phase[b] = "open", Covers(b, due)
        PROVE  /\ rows'[b] # NoRow => rows'[b].available >= due - d
               /\ \A u \in Ticks : tick'[u].at = "updating" /\ log[tick'[u].next].card = b =>
                    tick'[u].read >= due - d
    <3>1. ASSUME NEW x \in Nat, x >= due PROVE x >= due - d
      BY <2>1, <3>1
    <3>2. \A u \in Ticks : tick'[u].at = "updating" /\ log[tick'[u].next].card = b =>
            tick'[u].read >= due - d
      <4> TAKE u \in Ticks
      <4> HAVE tick'[u].at = "updating" /\ log[tick'[u].next].card = b
      <4>1. tick'[u] = tick[u] /\ tick[u].read \in Nat
        BY <1>1, <1>2 DEF TickType
      <4>2. tick[u].read >= due
        BY <2>3, <4>1 DEF Covers, Event
      <4> QED  BY <3>1, <4>1, <4>2
    <3>3. rows'[b] # NoRow => rows'[b].available >= due - d
      <4>1. CASE b = c
        BY <2>2, <2>3, <4>1
      <4>2. CASE b # c
        <5>1. rows'[b] = rows[b] /\ rows[b].available \in Nat
          BY <4>2, Typed
        <5>2. rows[b] # NoRow => rows[b].available >= due
          BY <2>3 DEF Covers
        <5> QED  BY <3>1, <5>1, <5>2
      <4> QED  BY <4>1, <4>2
    <3> QED  BY <3>2, <3>3
  <2>4. Covered(b) /\ UNCHANGED <<log, phase, avail>>
    BY <1>3 DEF RowInv
  <2>6. TakesAtMost(b, d)
    BY <2>3 DEF TakesAtMost
  <2> QED  BY <2>1, <2>4, <2>5, <2>6, CoveredStep
<1>7. ASSUME NEW b \in Cards PROVE PhaseFacts(b)'
  <2>1. PhaseFacts(b)
    BY DEF RowInv
  <2>2. CASE b = c
    <3>1. phase[b] # "none"
      BY <1>1, <2>1, <2>2 DEF PhaseFacts
    <3> QED  BY <1>3, <2>1, <2>2, <3>1 DEF PhaseFacts
  <2>3. CASE b # c
    <3>1. rows'[b] = rows[b]
      BY <2>3
    <3> QED  BY <1>3, <2>1, <3>1 DEF PhaseFacts, NoRow
  <2> QED  BY <2>2, <2>3
<1> QED  BY <1>5, <1>6, <1>7 DEF RowInv

(* Done leaves a tick with nothing in hand.                                *)
LEMMA DoneRecord ==
  ASSUME IInv, NEW t \in Ticks
  PROVE  \E new : Done(t) = [tick EXCEPT ![t] = new] /\ new.at = "ingesting"
<1> DEFINE new == [tick[t] EXCEPT !.at = "ingesting", !.next = @ + 1, !.read = 0]
<1>1. tick[t] \in TickType /\ tick \in [Ticks -> TickType]
  BY Typed
<1>2. new.at = "ingesting"
  BY <1>1 DEF TickType
<1>3. Done(t) = [tick EXCEPT ![t] = new]
  BY <1>1 DEF Done, TickType
<1> QED  BY <1>2, <1>3

(* Starting, reading the cursor and moving it, and passing over an event   *)
(* that is already inserted.                                               *)
LEMMA ScanKeepsRows ==
  ASSUME IInv, RowInv, NEW t \in Ticks,
         \/ StartTick(t) \/ ReadCursor(t) \/ AdvanceCursor(t)
         \/ InsertEvent(t) /\ AlreadyInserted(tick[t].next)
  PROVE  RowInv'
<1>1. NoTick.at = "idle" /\ [NoTick EXCEPT !.at = "started", !.head = Len(log)].at = "started"
  BY DEF NoTick
<1>2. ASSUME NEW from PROVE NextChunk(t, from).at \in {"idle", "ingesting"}
  <2>1. tick[t] \in TickType
    BY Typed
  <2> QED  BY <1>1, <2>1 DEF NextChunk, TickType
<1>3. CASE StartTick(t)
  BY <1>1, <1>3, QuietKeepsRows DEF StartTick
<1>4. CASE ReadCursor(t)
  <2> DEFINE new == NextChunk(t, ScanFrom)
  <2>1. new.at \in {"idle", "ingesting"}
    BY <1>2
  <2> HIDE DEF new
  <2>2. tick' = [tick EXCEPT ![t] = new]
    BY <1>4 DEF ReadCursor, new
  <2> QED  BY <1>4, <2>1, <2>2, QuietKeepsRows DEF ReadCursor
<1>5. CASE AdvanceCursor(t)
  <2> DEFINE new == NextChunk(t, tick[t].to + 1)
  <2>1. new.at \in {"idle", "ingesting"}
    BY <1>2
  <2> HIDE DEF new
  <2>2. \E r \in {new, NoTick} : tick' = [tick EXCEPT ![t] = r]
    BY <1>5 DEF AdvanceCursor, new
  <2> QED  BY <1>1, <1>5, <2>1, <2>2, QuietKeepsRows DEF AdvanceCursor
<1>6. CASE InsertEvent(t) /\ AlreadyInserted(tick[t].next)
  <2>1. PICK new : Done(t) = [tick EXCEPT ![t] = new] /\ new.at = "ingesting"
    BY DoneRecord
  <2>2. tick' = Done(t) /\ events' = events
    BY <1>6 DEF InsertEvent, AlreadyInserted
  <2> QED  BY <1>6, <2>1, <2>2, QuietKeepsRows DEF InsertEvent
<1> QED  BY <1>3, <1>4, <1>5, <1>6

(* An event that was not there is inserted, and is in one tick's hand.     *)
LEMMA InsertKeepsRows ==
  ASSUME IInv, RowInv, NEW t \in Ticks, InsertEvent(t),
         ~AlreadyInserted(tick[t].next)
  PROVE  RowInv'
<1> DEFINE j == tick[t].next
           new == [tick[t] EXCEPT !.at = "applying"]
<1>1. tick \in [Ticks -> TickType] /\ tick[t] \in TickType
  BY Typed
<1>2. new.at = "applying" /\ new.next = j
  BY <1>1 DEF TickType
<1>3. tick' = [tick EXCEPT ![t] = new]
  BY <1>1 DEF InsertEvent
<1>4. /\ tick[t].at = "ingesting" /\ j \notin events /\ events' = events \cup {j}
      /\ log' = log /\ avail' = avail /\ phase' = phase /\ rows' = rows
  BY DEF InsertEvent, AlreadyInserted, chainVars
<1> HIDE DEF new, j
<1>5. tick'[t] = new /\ \A u \in Ticks : u # t => tick'[u] = tick[u]
  BY <1>1, <1>3
<1>6. /\ \A i \in Nat : ~Holds(t, i) /\ (Holds(t, i)' <=> i = j)
      /\ \A u \in Ticks, i \in Nat : u # t => (Holds(u, i)' <=> Holds(u, i))
  BY <1>2, <1>4, <1>5 DEF Holds
<1>7. \A u \in Ticks : ~(j \in Nat /\ Holds(u, j))
  BY <1>4, Typed
<1>8. ASSUME NEW i \in 1 .. Len(log) PROVE Unapplied(i)' <=> Unapplied(i)
  <2>1. i \in Nat
    BY Typed
  <2>2. CASE i = j
    <3>1. Unapplied(i)
      BY <1>4, <2>2 DEF Unapplied
    <3>2. Holds(t, i)'
      BY <1>6, <2>1, <2>2
    <3>3. Unapplied(i)'
      BY <3>2 DEF Unapplied
    <3> QED  BY <3>1, <3>3
  <2>3. CASE i # j
    <3>1. i \in events' <=> i \in events
      BY <1>4, <2>3
    <3>2. \A u \in Ticks : Holds(u, i)' <=> Holds(u, i)
      BY <1>6, <2>1, <2>3
    <3> QED  BY <3>1, <3>2 DEF Unapplied
  <2> QED  BY <2>2, <2>3
<1>9. AppliedOnce'
  <2>1. ASSUME NEW u \in Ticks, NEW v \in Ticks, NEW i \in Nat, Holds(u, i)', Holds(v, i)'
        PROVE  u = v
    <3>1. AppliedOnce
      BY DEF RowInv
    <3>2. CASE u # t /\ v # t
      BY <1>6, <2>1, <3>1, <3>2 DEF AppliedOnce
    <3>3. CASE u = t \/ v = t
      <4>1. i = j
        BY <1>6, <2>1, <3>3
      <4>2. \A s \in Ticks : s # t => ~Holds(s, i)'
        BY <1>6, <1>7, <4>1
      <4> QED  BY <2>1, <4>2
    <3> QED  BY <3>2, <3>3
  <2>2. ASSUME NEW u \in Ticks, tick'[u].at = "updating"
        PROVE  Event(u)'.kind = "SettlementFlushed"
    <3>1. tick'[u] = tick[u]
      BY <1>2, <1>5, <2>2
    <3> QED  BY <1>4, <2>2, <3>1 DEF RowInv, AppliedOnce, Event
  <2> QED  BY <2>1, <2>2 DEF AppliedOnce
<1>10. ASSUME NEW c \in Cards PROVE Covered(c)'
  <2>1. Lessened(Weights(c)', Weights(c), Len(log), 0)
    BY <1>4, <1>8, WeightsStay, WeightsTyped DEF Lessened
  <2>2. ASSUME NEW due \in Nat, Covers(c, due)
        PROVE  /\ rows'[c] # NoRow => rows'[c].available >= due - 0
               /\ \A u \in Ticks : tick'[u].at = "updating" /\ log[tick'[u].next].card = c =>
                    tick'[u].read >= due - 0
    <3>1. due - 0 = due
      OBVIOUS
    <3>2. rows'[c] # NoRow => rows'[c].available >= due
      BY <1>4, <2>2 DEF Covers
    <3>3. \A u \in Ticks : tick'[u].at = "updating" => tick'[u] = tick[u]
      BY <1>2, <1>5
    <3>4. \A u \in Ticks : tick'[u].at = "updating" /\ log[tick'[u].next].card = c =>
            tick'[u].read >= due
      BY <2>2, <3>3 DEF Covers, Event
    <3> QED  BY <3>1, <3>2, <3>4
  <2>3. Covered(c) /\ UNCHANGED <<log, phase, avail>>
    BY <1>4 DEF RowInv
  <2>4. TakesAtMost(c, 0)
    BY <2>2 DEF TakesAtMost
  <2> QED  BY <2>1, <2>3, <2>4, CoveredStep
<1>11. \A c \in Cards : PhaseFacts(c)'
  BY <1>4 DEF RowInv, PhaseFacts, NoRow
<1> QED  BY <1>9, <1>10, <1>11 DEF RowInv

(* The balance of a row is read, and is no less than the row's.            *)
LEMMA ReadKeepsRows ==
  ASSUME IInv, RowInv, NEW t \in Ticks, ReadBalance(t),
         rows[Event(t).card] # NoRow
  PROVE  RowInv'
<1> DEFINE j == tick[t].next
           e == Event(t)
           new == [tick[t] EXCEPT !.at = "updating", !.read = rows[e.card].available]
<1>1. tick \in [Ticks -> TickType] /\ tick[t] \in TickType
  BY Typed
<1>2. new.at = "updating" /\ new.next = j /\ new.read = rows[e.card].available
  BY <1>1 DEF TickType
<1>3. tick' = [tick EXCEPT ![t] = new]
  BY <1>1 DEF ReadBalance
<1>4. /\ tick[t].at = "applying" /\ e = log[j] /\ e.kind = "SettlementFlushed"
      /\ log' = log /\ avail' = avail /\ phase' = phase /\ rows' = rows /\ events' = events
      /\ rows[e.card] # NoRow
  BY DEF ReadBalance, Applying, Event, chainVars
<1> HIDE DEF new, j, e
<1>5. tick'[t] = new /\ \A u \in Ticks : u # t => tick'[u] = tick[u]
  BY <1>1, <1>3
<1>6. \A u \in Ticks, i \in Nat : Holds(u, i)' <=> Holds(u, i)
  BY <1>2, <1>4, <1>5 DEF Holds, j
<1>7. \A i \in 1 .. Len(log) : Unapplied(i)' <=> Unapplied(i)
  <2>1. 1 .. Len(log) \subseteq Nat
    BY Typed
  <2> QED  BY <1>4, <1>6, <2>1 DEF Unapplied
<1>8. AppliedOnce'
  <2>1. \A u, v \in Ticks : \A i \in Nat : Holds(u, i)' /\ Holds(v, i)' => u = v
    BY <1>6 DEF RowInv, AppliedOnce
  <2>2. ASSUME NEW u \in Ticks, tick'[u].at = "updating"
        PROVE  Event(u)'.kind = "SettlementFlushed"
    <3>1. CASE u = t
      BY <1>2, <1>4, <1>5, <3>1 DEF Event
    <3>2. CASE u # t
      <4>1. tick'[u] = tick[u]
        BY <1>5, <3>2
      <4> QED  BY <1>4, <2>2, <4>1 DEF RowInv, AppliedOnce, Event
    <3> QED  BY <3>1, <3>2
  <2> QED  BY <2>1, <2>2 DEF AppliedOnce
<1>9. ASSUME NEW c \in Cards PROVE Covered(c)'
  <2>1. Lessened(Weights(c)', Weights(c), Len(log), 0)
    BY <1>4, <1>7, WeightsStay, WeightsTyped DEF Lessened
  <2>2. ASSUME NEW due \in Nat, Covers(c, due)
        PROVE  /\ rows'[c] # NoRow => rows'[c].available >= due - 0
               /\ \A u \in Ticks : tick'[u].at = "updating" /\ log[tick'[u].next].card = c =>
                    tick'[u].read >= due - 0
    <3>1. due - 0 = due
      OBVIOUS
    <3>2. rows[c] # NoRow => rows[c].available >= due
      BY <2>2 DEF Covers
    <3>3. ASSUME NEW u \in Ticks, tick'[u].at = "updating", log[tick'[u].next].card = c
          PROVE  tick'[u].read >= due
      <4>1. CASE u = t
        <5>1. log[j].card = c
          BY <1>2, <1>5, <3>3, <4>1
        <5>2. tick'[u].read = rows[c].available /\ rows[c] # NoRow
          BY <1>2, <1>4, <1>5, <4>1, <5>1
        <5> QED  BY <3>2, <5>2
      <4>2. CASE u # t
        <5>1. tick'[u] = tick[u]
          BY <1>5, <4>2
        <5> QED  BY <2>2, <3>3, <5>1 DEF Covers, Event
      <4> QED  BY <4>1, <4>2
    <3> QED  BY <1>4, <3>1, <3>2, <3>3
  <2>3. Covered(c) /\ UNCHANGED <<log, phase, avail>>
    BY <1>4 DEF RowInv
  <2>4. TakesAtMost(c, 0)
    BY <2>2 DEF TakesAtMost
  <2> QED  BY <2>1, <2>3, <2>4, CoveredStep
<1>10. \A c \in Cards : PhaseFacts(c)'
  BY <1>4 DEF RowInv, PhaseFacts, NoRow
<1> QED  BY <1>8, <1>9, <1>10 DEF RowInv

(* An event is applied to its row in one statement, or dropped.            *)
OneStatement(t) ==
  \/ Upsert(t) \/ WriteReclaim(t)
  \/ ReadBalance(t) /\ rows[Event(t).card] = NoRow

(* Such a step is covered by the event that is put down.                   *)
LEMMA WriteKeepsRows ==
  ASSUME IInv, RowInv, NEW t \in Ticks, OneStatement(t)
  PROVE  RowInv'
<1> DEFINE j == tick[t].next
           c == log[j].card
           w == Weights(c)[j]
<1>1. tick[t].at = "applying" /\ j \in Nat /\ Event(t) = log[j]
  <2>1. tick[t] \in TickType /\ MaxLog \in Nat
    BY Typed, IngestAssumption
  <2>2. tick[t].next \in Nat
    BY <2>1 DEF TickType
  <2> QED  BY <2>2 DEF OneStatement, Upsert, WriteReclaim, ReadBalance, Applying, Event
<1>2. Holds(t, j)
  BY <1>1 DEF Holds
<1>3. j \in 1 .. Len(log)
  BY <1>1, <1>2, Typed
<1>4. c \in Cards /\ log[j].amount \in Nat
  BY <1>3, Typed
<1>5. w \in Nat
  BY <1>1, <1>4, WeightsTyped
<1>6. PhaseFacts(c)
  BY <1>4 DEF RowInv
<1>7. rows \in [Cards -> [status : {"None", "Active", "Terminated"}, available : Nat]]
  BY Typed
<1>8. PICK new : Done(t) = [tick EXCEPT ![t] = new] /\ new.at = "ingesting"
  BY DoneRecord
<1>9. tick' = Done(t) /\ UNCHANGED <<chainVars, events>>
  BY DEF OneStatement, Upsert, WriteReclaim, ReadBalance
<1>10. /\ \A b \in Cards : b # c => rows'[b] = rows[b]
       /\ rows'[c].status = "Terminated" => phase[c] = "closed"
       /\ \A due \in Nat : phase[c] = "open" /\ Covers(c, due) =>
            (rows'[c] # NoRow => rows'[c].available >= due - w)
  <2>1. CASE Upsert(t)
    <3>1. rows' = [rows EXCEPT ![c] = ProvisionedRow(log[j])]
      BY <1>1, <2>1 DEF Upsert
    <3>2. rows'[c].status = "Active" /\ rows'[c].available = log[j].amount
      BY <1>4, <1>7, <3>1 DEF ProvisionedRow
    <3>3. log[j].kind = "PaycardProvisioned"
      BY <1>1, <2>1 DEF Upsert, Applying
    <3>4. \A b \in Cards : b # c => rows'[b] = rows[b]
      BY <1>7, <3>1
    <3>5. ASSUME NEW due \in Nat, Covers(c, due) PROVE rows'[c].available >= due - w
      <4>1. log[j].amount >= due
        BY <1>3, <3>3, <3>5 DEF Covers
      <4> QED  BY <1>4, <1>5, <3>2, <4>1
    <3> QED  BY <3>2, <3>4, <3>5
  <2>2. CASE WriteReclaim(t)
    <3>1. rows' = [rows EXCEPT ![c] = IF @ = NoRow THEN @
                                      ELSE [status |-> "Terminated", available |-> 0]]
      BY <1>1, <2>2 DEF WriteReclaim
    <3>2. log[j].kind = "ResidualDeltaReclaimed"
      BY <1>1, <2>2 DEF WriteReclaim, Applying
    <3>3. phase[c] \in {"none", "open", "closed"}
      BY <1>4, Typed
    <3>4. phase[c] = "closed"
      BY <1>3, <1>6, <3>2, <3>3 DEF PhaseFacts
    <3>5. \A b \in Cards : b # c => rows'[b] = rows[b]
      BY <1>7, <3>1
    <3> QED  BY <3>4, <3>5
  <2>3. CASE ReadBalance(t) /\ rows[Event(t).card] = NoRow
    <3>1. rows' = rows /\ rows[c] = NoRow
      BY <1>1, <2>3 DEF ReadBalance
    <3> QED  BY <3>1 DEF NoRow
  <2> QED  BY <2>1, <2>2, <2>3 DEF OneStatement
<1>11. \A b \in Cards : b # c => rows'[b] = rows[b]
  BY <1>10
<1>12. rows'[c].status = "Terminated" => phase[c] = "closed"
  BY <1>10
<1>13. \A due \in Nat : phase[c] = "open" /\ Covers(c, due) =>
         (rows'[c] # NoRow => rows'[c].available >= due - w)
  BY <1>10
<1> HIDE DEF j, c
<1>14. c = log[j].card
  BY DEF c, j
<1>15. j \in Nat /\ c \in Cards /\ UNCHANGED <<chainVars, events>>
  BY <1>1, <1>4, <1>9
<1>16. tick' = [tick EXCEPT ![t] = new] /\ new.at \notin {"applying", "updating"}
  BY <1>8, <1>9
<1> QED  BY <1>2, <1>11, <1>12, <1>13, <1>14, <1>15, <1>16, DownKeepsRows

(* The UPDATE of a settlement takes no more from its row than its amount.  *)
LEMMA UpdateKeepsRows ==
  ASSUME IInv, RowInv, NEW t \in Ticks, WriteBalance(t)
  PROVE  RowInv'
<1> DEFINE j == tick[t].next
           c == log[j].card
           amount == log[j].amount
           read == tick[t].read
           w == Weights(c)[j]
<1>1. tick[t].at = "updating" /\ j \in Nat /\ Event(t) = log[j] /\ read \in Nat
  <2>1. tick[t] \in TickType /\ MaxLog \in Nat
    BY Typed, IngestAssumption
  <2>2. tick[t].next \in Nat /\ read \in Nat
    BY <2>1 DEF TickType
  <2> QED  BY <2>2 DEF WriteBalance, Event
<1>2. Holds(t, j)
  BY <1>1 DEF Holds
<1>3. j \in 1 .. Len(log) /\ Len(log) \in Nat
  BY <1>1, <1>2, Typed
<1>4. c \in Cards /\ amount \in Nat
  BY <1>3, Typed
<1>5. w = amount
  <2>1. log[j].kind = "SettlementFlushed"
    BY <1>1 DEF RowInv, AppliedOnce
  <2>2. Unapplied(j)
    BY <1>2 DEF Unapplied
  <2> QED  BY <1>1, <1>3, <2>1, <2>2 DEF Weights
<1>6. PhaseFacts(c) /\ Covered(c)
  BY <1>4 DEF RowInv
<1>7. rows \in [Cards -> [status : {"None", "Active", "Terminated"}, available : Nat]]
  BY Typed
<1>8. PICK new : Done(t) = [tick EXCEPT ![t] = new] /\ new.at = "ingesting"
  BY DoneRecord
<1>9. tick' = Done(t) /\ UNCHANGED <<chainVars, events>>
  BY DEF WriteBalance
<1>10. rows' = [rows EXCEPT ![c] = SettledRow(read, amount)]
  BY <1>1 DEF WriteBalance
<1>11. /\ rows'[c].status = IF read > amount THEN "Active" ELSE "Terminated"
       /\ rows'[c].available = Max({read - amount, 0})
       /\ \A b \in Cards : b # c => rows'[b] = rows[b]
  BY <1>4, <1>7, <1>10 DEF SettledRow
<1>12. Max({read - amount, 0}) = IF read - amount >= 0 THEN read - amount ELSE 0
  BY <1>1, <1>4, MaxPair
<1>13. ASSUME NEW due \in Nat, Covers(c, due) PROVE read >= due
  BY <1>1, <1>13 DEF Covers
<1>14. ASSUME NEW due \in Nat, Covers(c, due) PROVE rows'[c].available >= due - w
  BY <1>1, <1>4, <1>5, <1>11, <1>12, <1>13, <1>14
<1>15. ASSUME ~(read > amount) PROVE phase[c] = "closed"
  <2>1. phase[c] \in {"none", "open", "closed"} /\ avail[c] \in Nat
    BY <1>4, Typed
  <2>2. phase[c] # "none"
    BY <1>3, <1>6 DEF PhaseFacts
  <2>3. ASSUME phase[c] = "open" PROVE FALSE
    <3>1. PICK f : Sums(Weights(c), Len(log), f) /\ Covers(c, avail[c] + f[Len(log)])
      BY <1>6, <2>3 DEF Covered
    <3>2. f[Len(log)] \in Nat /\ f[Len(log)] >= w
      BY <1>3, <1>4, <3>1, SumsBound, WeightsTyped
    <3> DEFINE s == f[Len(log)]
               a == avail[c]
    <3>3. avail[c] > 0
      BY <1>6, <2>3 DEF PhaseFacts
    <3>4. s \in Nat /\ s >= w /\ a \in Nat /\ a > 0 /\ Covers(c, a + s)
      BY <2>1, <3>1, <3>2, <3>3
    <3> HIDE DEF s, a
    <3>5. a + s \in Nat
      BY <3>4
    <3>6. read >= a + s
      BY <1>13, <3>4, <3>5
    <3> HIDE DEF w, amount, read
    <3> QED  BY <1>1, <1>4, <1>5, <1>15, <3>4, <3>6
  <2> QED  BY <2>1, <2>2, <2>3
<1>16. rows'[c].status = "Terminated" => phase[c] = "closed"
  BY <1>11, <1>15
<1>17. \A due \in Nat : phase[c] = "open" /\ Covers(c, due) =>
         (rows'[c] # NoRow => rows'[c].available >= due - w)
  BY <1>14
<1> HIDE DEF j, c
<1>18. c = log[j].card
  BY DEF c, j
<1>19. j \in Nat /\ c \in Cards /\ UNCHANGED <<chainVars, events>>
  BY <1>1, <1>4, <1>9
<1>20. tick' = [tick EXCEPT ![t] = new] /\ new.at \notin {"applying", "updating"}
  BY <1>8, <1>9
<1>21. \A b \in Cards : b # c => rows'[b] = rows[b]
  BY <1>11
<1> HIDE DEF w, amount, read
<1> QED  BY <1>2, <1>16, <1>17, <1>18, <1>19, <1>20, <1>21, DownKeepsRows DEF w

(* A tick that fails loses what it has in hand, which only makes the row   *)
(* show more.                                                              *)
LEMMA FailKeepsRows ==
  ASSUME IInv, RowInv, NEW t \in Ticks, FailTick(t)
  PROVE  RowInv'
<1>1. /\ tick' = [tick EXCEPT ![t] = NoTick] /\ NoTick.at = "idle"
      /\ UNCHANGED <<chainVars, events, rows>>
  BY DEF FailTick, NoTick
<1>2. CASE tick[t].at \notin {"applying", "updating"}
  BY <1>1, <1>2, QuietKeepsRows
<1>3. CASE tick[t].at \in {"applying", "updating"}
  <2> DEFINE j == tick[t].next
             c == log[j].card
             w == Weights(c)[j]
  <2>1. tick[t] \in TickType /\ MaxLog \in Nat
    BY Typed, IngestAssumption
  <2>2. j \in Nat
    BY <2>1 DEF TickType
  <2>3. Holds(t, j)
    BY <1>3 DEF Holds
  <2>4. j \in 1 .. Len(log)
    BY <2>2, <2>3, Typed
  <2>5. c \in Cards /\ rows[c].available \in Nat
    BY <2>4, Typed
  <2>6. w \in Nat
    BY <2>2, <2>5, WeightsTyped
  <2>7. rows'[c].status = "Terminated" => phase[c] = "closed"
    BY <1>1, <2>5 DEF RowInv, PhaseFacts
  <2>8. ASSUME NEW due \in Nat, Covers(c, due), rows'[c] # NoRow
        PROVE  rows'[c].available >= due - w
    <3>1. rows[c].available >= due
      BY <1>1, <2>8 DEF Covers, NoRow
    <3> QED  BY <1>1, <2>5, <2>6, <3>1
  <2>9. /\ \A b \in Cards : b # c => rows'[b] = rows[b]
        /\ \A due \in Nat : phase[c] = "open" /\ Covers(c, due) =>
             (rows'[c] # NoRow => rows'[c].available >= due - w)
    BY <1>1, <2>8
  <2>10. c = log[j].card
    OBVIOUS
  <2> HIDE DEF j, c
  <2> QED  BY <1>1, <2>2, <2>3, <2>5, <2>7, <2>9, <2>10, DownKeepsRows
<1> QED  BY <1>2, <1>3

-------------------------------------------------------------------------------
(* The log grows, and a card's new settlements are not applied yet.        *)
EventType == [kind : Vault!Kinds, card : Cards, amount : Nat, left : Nat]

(* A transaction of the Vault emits e for card c.                          *)
Emitted(c, e, left) ==
  /\ c \in Cards /\ left \in Nat
  /\ e \in Seq(EventType) /\ \A i \in 1 .. Len(e) : e[i].card = c
  /\ Vault!Emit(c, e, left)
  /\ UNCHANGED <<events, rows, tick>>

(* The events already in the log stay, and the new ones are not inserted.  *)
LEMMA EmitLog ==
  ASSUME IInv, NEW c, NEW e, NEW left, Emitted(c, e, left)
  PROVE  /\ Len(log) \in Nat /\ Len(e) \in Nat /\ Len(log') = Len(log) + Len(e)
         /\ \A i \in 1 .. Len(log) : log'[i] = log[i]
         /\ \A i \in 1 .. Len(e) : log'[Len(log) + i] = e[i]
         /\ \A i \in Nat : i > Len(log) => Unapplied(i)'
         /\ \A t \in Ticks, i \in Nat : Holds(t, i)' <=> Holds(t, i)
         /\ \A i \in Nat : Unapplied(i)' <=> Unapplied(i)
         /\ \A t \in Ticks : tick[t].at = "updating" => Event(t)' = Event(t)
<1>1. log \in Seq(EventType) /\ e \in Seq(EventType) /\ log' = log \o e
  BY DEF IInv, TypeOK, Vault!TypeOK, EventType, Emitted, Vault!Emit
<1>2. Len(log) \in Nat /\ Len(e) \in Nat /\ Len(log') = Len(log) + Len(e)
  BY <1>1
<1>3. \A i \in 1 .. Len(log) : log'[i] = log[i]
  BY <1>1
<1>4. \A i \in 1 .. Len(e) : log'[Len(log) + i] = e[i]
  BY <1>1
<1>5. \A t \in Ticks, i \in Nat : Holds(t, i)' <=> Holds(t, i)
  BY DEF Holds, Emitted
<1>6. PICK k \in 0 .. Len(log) : events = 1 .. k /\ \A t \in Ticks : Behind(t, k)
  BY DEF IInv, PrefixInserted
<1>7. \A i \in Nat : Unapplied(i)' <=> Unapplied(i)
  BY <1>5 DEF Unapplied, Emitted
<1>8. ASSUME NEW i \in Nat, i > Len(log) PROVE Unapplied(i)'
  <2>1. i \notin events
    BY <1>2, <1>6, <1>8
  <2> QED  BY <1>7, <2>1 DEF Unapplied
<1>9. ASSUME NEW t \in Ticks, tick[t].at = "updating" PROVE Event(t)' = Event(t)
  <2>1. tick[t].next \in 1 .. k /\ tick' = tick
    BY <1>6, <1>9 DEF Behind, Emitted
  <2>2. tick[t].next \in 1 .. Len(log)
    BY <1>2, <2>1
  <2> QED  BY <1>3, <2>1, <2>2 DEF Event
<1> QED  BY <1>2, <1>3, <1>4, <1>5, <1>7, <1>8, <1>9

(* Only the card's own weights change, by its new settlements.             *)
LEMMA EmitWeights ==
  ASSUME IInv, NEW c, NEW e, NEW left, Emitted(c, e, left)
  PROVE  /\ \A b \in Cards : b # c => Weights(b)' = Weights(b)
         /\ Weights(c) \in [Nat -> Nat] /\ Weights(c)' \in [Nat -> Nat]
         /\ \A i \in 1 .. Len(e) :
              Weights(c)'[Len(log) + i] =
                IF e[i].kind = "SettlementFlushed" THEN e[i].amount ELSE 0
         /\ \A i \in Nat : i - Len(log) \notin 1 .. Len(e) => Weights(c)'[i] = Weights(c)[i]
<1> DEFINE n == Len(log)
           m == Len(e)
           wt(b, i) == IF /\ i \in 1 .. Len(log) /\ log[i].card = b
                          /\ log[i].kind = "SettlementFlushed" /\ Unapplied(i)
                       THEN log[i].amount ELSE 0
<1>1. /\ n \in Nat /\ m \in Nat /\ Len(log') = n + m /\ c \in Cards
      /\ \A i \in 1 .. m : e[i].card = c /\ e[i].amount \in Nat
  <2>1. \A i \in 1 .. m : e[i].card = c /\ e[i] \in EventType
    BY DEF Emitted
  <2> QED  BY <2>1, EmitLog DEF Emitted, EventType
<1>2. /\ \A b : Weights(b) = [i \in Nat |-> wt(b, i)]
      /\ \A b : Weights(b)' = [i \in Nat |-> wt(b, i)']
  BY DEF Weights
<1>3. ASSUME NEW b, NEW i \in Nat, i <= n PROVE wt(b, i)' = wt(b, i)
  <2>1. CASE i \in 1 .. n
    <3>1. log'[i] = log[i] /\ (Unapplied(i)' <=> Unapplied(i)) /\ i \in 1 .. Len(log')
      BY <1>1, <2>1, EmitLog
    <3> HIDE DEF Unapplied
    <3> QED  BY <2>1, <3>1
  <2>2. CASE i \notin 1 .. n
    <3>1. i \notin 1 .. Len(log')
      BY <1>1, <1>3, <2>2
    <3> QED  BY <2>2, <3>1
  <2> QED  BY <2>1, <2>2
<1>4. ASSUME NEW b, NEW i \in 1 .. m, NEW k \in Nat, k = n + i
      PROVE  /\ wt(b, k) = 0
             /\ wt(b, k)' = IF b = c /\ e[i].kind = "SettlementFlushed"
                            THEN e[i].amount ELSE 0
  <2>1. k \in 1 .. Len(log') /\ k \notin 1 .. Len(log) /\ k > n
    BY <1>1, <1>4
  <2>2. log'[k] = e[i] /\ Unapplied(k)'
    BY <1>4, <2>1, EmitLog
  <2>3. e[i].card = c
    BY <1>1
  <2> HIDE DEF Unapplied
  <2> QED  BY <2>1, <2>2, <2>3
<1>5. ASSUME NEW b, NEW i \in Nat, i > n + m PROVE wt(b, i)' = 0 /\ wt(b, i) = 0
  <2>1. i \notin 1 .. Len(log') /\ i \notin 1 .. Len(log)
    BY <1>1, <1>5
  <2> QED  BY <2>1
<1> HIDE DEF wt
<1>6. ASSUME NEW b, NEW i \in Nat, b # c \/ i - n \notin 1 .. m PROVE wt(b, i)' = wt(b, i)
  <2>1. CASE i <= n
    BY <1>3, <2>1
  <2>2. CASE i > n + m
    BY <1>5, <2>2
  <2>3. CASE ~(i <= n) /\ ~(i > n + m)
    <3>1. PICK k \in 1 .. m : i = n + k /\ i - n \in 1 .. m
      <4>1. i - n \in 1 .. m /\ i = n + (i - n)
        BY <1>1, <2>3
      <4> QED  BY <4>1
    <3>2. b # c
      BY <1>6, <3>1
    <3> QED  BY <1>4, <3>1, <3>2
  <2> QED  BY <1>1, <2>1, <2>2, <2>3
<1>7. ASSUME NEW b \in Cards, b # c PROVE Weights(b)' = Weights(b)
  BY <1>2, <1>6, <1>7
<1>8. Weights(c) \in [Nat -> Nat]
  BY <1>1, WeightsTyped
<1>9. \A i \in Nat : wt(c, i) \in Nat
  BY <1>2, <1>8
<1>10. \A i \in Nat : wt(c, i)' \in Nat
  <2> TAKE i \in Nat
  <2>1. CASE i - n \in 1 .. m
    <3>1. PICK k \in 1 .. m : i = n + k
      <4>1. i = n + (i - n)
        BY <1>1
      <4> QED  BY <2>1, <4>1
    <3>2. wt(c, i)' = IF e[k].kind = "SettlementFlushed" THEN e[k].amount ELSE 0
      BY <1>4, <3>1
    <3> QED  BY <1>1, <3>2
  <2>2. CASE i - n \notin 1 .. m
    BY <1>6, <1>9, <2>2
  <2> QED  BY <2>1, <2>2
<1>11. Weights(c)' \in [Nat -> Nat]
  BY <1>2, <1>10
<1>12. ASSUME NEW i \in 1 .. m
       PROVE  Weights(c)'[n + i] = IF e[i].kind = "SettlementFlushed" THEN e[i].amount ELSE 0
  <2>1. PICK k \in Nat : k = n + i
    BY <1>1
  <2>2. wt(c, k)' = IF e[i].kind = "SettlementFlushed" THEN e[i].amount ELSE 0
    BY <1>4, <2>1
  <2> QED  BY <1>2, <2>1, <2>2
<1>13. ASSUME NEW i \in Nat, i - n \notin 1 .. m PROVE Weights(c)'[i] = Weights(c)[i]
  BY <1>2, <1>6, <1>13
<1> QED  BY <1>7, <1>8, <1>11, <1>12, <1>13

(* The transaction of one card keeps the invariant of every other one.     *)
LEMMA EmitKeepsRows ==
  ASSUME IInv, RowInv, NEW c, NEW e, NEW left, Emitted(c, e, left),
         PhaseFacts(c)', Covered(c)'
  PROVE  RowInv'
<1>1. /\ Len(log) \in Nat /\ Len(e) \in Nat /\ Len(log') = Len(log) + Len(e)
      /\ \A i \in 1 .. Len(log) : log'[i] = log[i]
      /\ \A i \in 1 .. Len(e) : log'[Len(log) + i] = e[i]
      /\ \A t \in Ticks : tick[t].at = "updating" => Event(t)' = Event(t)
  BY EmitLog
<1>2. \A t \in Ticks, i \in Nat : Holds(t, i)' <=> Holds(t, i)
  BY EmitLog
<1>3. /\ rows' = rows /\ tick' = tick
      /\ avail' = [avail EXCEPT ![c] = left]
      /\ phase' = [phase EXCEPT ![c] = IF left = 0 THEN "closed" ELSE "open"]
      /\ \A i \in 1 .. Len(e) : e[i].card = c
  BY DEF Emitted, Vault!Emit
<1>4. AppliedOnce'
  BY <1>1, <1>2, <1>3 DEF RowInv, AppliedOnce
<1>5. ASSUME NEW b \in Cards, b # c PROVE PhaseFacts(b)' /\ Covered(b)'
  <2>1. avail'[b] = avail[b] /\ phase'[b] = phase[b]
    <3>1. avail \in [Cards -> Nat] /\ phase \in [Cards -> {"none", "open", "closed"}]
      BY Typed
    <3> QED  BY <1>3, <1>5, <3>1
  <2>2. ASSUME NEW i \in 1 .. Len(log'), log'[i].card = b
        PROVE  i \in 1 .. Len(log) /\ log'[i] = log[i]
    <3>1. CASE i \in 1 .. Len(log)
      BY <1>1, <3>1
    <3>2. CASE i \notin 1 .. Len(log)
      <4>1. i - Len(log) \in 1 .. Len(e) /\ i = Len(log) + (i - Len(log))
        BY <1>1, <3>2
      <4>2. log'[i].card = c
        BY <1>1, <1>3, <4>1
      <4> QED  BY <1>5, <2>2, <4>2
    <3> QED  BY <3>1, <3>2
  <2>3. PhaseFacts(b)'
    <3>1. PhaseFacts(b)
      BY DEF RowInv
    <3> QED  BY <1>3, <2>1, <2>2, <3>1 DEF PhaseFacts, NoRow
  <2>4. PICK f : /\ Sums(Weights(b), Len(log), f)
                 /\ phase[b] = "open" => Covers(b, avail[b] + f[Len(log)])
    BY DEF RowInv, Covered
  <2>5. Sums(Weights(b)', Len(log'), f) /\ f[Len(log')] = f[Len(log)]
    <3>1. Weights(b)' = Weights(b)
      BY <1>5, EmitWeights
    <3>2. Len(log') \in Nat /\ Len(log) <= Len(log')
      BY <1>1
    <3> QED  BY <1>1, <2>4, <3>1, <3>2, SumsGrow
  <2>6. ASSUME phase[b] = "open" PROVE Covers(b, avail[b] + f[Len(log)])'
    <3> DEFINE due == avail[b] + f[Len(log)]
    <3>1. due' = due
      BY <2>1, <2>5
    <3>2. Covers(b, due)
      BY <2>4, <2>6
    <3> HIDE DEF due
    <3>3. \A t \in Ticks :
            tick'[t].at = "updating" /\ Event(t)'.card = b => tick'[t].read >= due
      BY <1>1, <1>3, <3>2 DEF Covers
    <3>4. \A i \in 1 .. Len(log') :
            log'[i].card = b /\ log'[i].kind = "PaycardProvisioned" => log'[i].amount >= due
      BY <2>2, <3>2 DEF Covers
    <3>5. rows'[b] # NoRow => rows'[b].available >= due
      BY <1>3, <3>2 DEF Covers
    <3>6. Covers(b, due)'
      BY <3>1, <3>3, <3>4, <3>5 DEF Covers, NoRow
    <3> QED  BY <3>6 DEF due
  <2>7. Covered(b)'
    BY <2>1, <2>5, <2>6 DEF Covered
  <2> QED  BY <2>3, <2>7
<1>6. \A b \in Cards : PhaseFacts(b)' /\ Covered(b)'
  BY <1>5
<1> QED  BY <1>4, <1>6 DEF RowInv

(* A card is provisioned: its pool is all there is, and no row shows less. *)
LEMMA ProvisionKeepsRows ==
  ASSUME IInv, RowInv, NEW c \in Cards, Vault!Provision(c),
         UNCHANGED <<events, rows, tick>>
  PROVE  RowInv'
<1>1. PICK pool \in Pools :
        Vault!Emit(c, <<Vault!Event("PaycardProvisioned", c, pool, pool)>>, pool)
  BY DEF Vault!Provision
<1> DEFINE x == Vault!Event("PaycardProvisioned", c, pool, pool)
           e == <<x>>
<1>2. /\ x \in EventType /\ x.card = c /\ x.kind = "PaycardProvisioned" /\ x.amount = pool
      /\ pool \in Nat /\ pool > 0
  BY IngestAssumption DEF Vault!Event, EventType, Vault!Kinds
<1>3. Vault!Emit(c, e, pool)
  BY <1>1
<1> HIDE DEF x
<1>4. e \in Seq(EventType) /\ Len(e) = 1 /\ e[1] = x
  BY <1>2
<1> HIDE DEF e
<1>5. \A i \in 1 .. Len(e) : i = 1 /\ e[i] = x
  BY <1>4
<1>6. Emitted(c, e, pool)
  BY <1>2, <1>3, <1>4, <1>5 DEF Emitted
<1>7. /\ Len(log) \in Nat /\ Len(log') = Len(log) + 1
      /\ \A i \in 1 .. Len(log) : log'[i] = log[i]
      /\ log'[Len(log) + 1] = x
      /\ \A t \in Ticks : tick[t].at = "updating" => Event(t)' = Event(t)
  <2>1. /\ Len(log) \in Nat /\ Len(log') = Len(log) + Len(e)
        /\ \A i \in 1 .. Len(log) : log'[i] = log[i]
        /\ \A t \in Ticks : tick[t].at = "updating" => Event(t)' = Event(t)
    BY <1>6, EmitLog
  <2>2. \A i \in 1 .. Len(e) : log'[Len(log) + i] = e[i]
    BY <1>6, EmitLog
  <2>3. 1 \in 1 .. Len(e)
    BY <1>4
  <2> QED  BY <1>4, <2>1, <2>2, <2>3
<1>8. /\ phase[c] = "none" /\ phase'[c] = "open" /\ avail'[c] = pool
      /\ rows' = rows /\ tick' = tick
  <2>1. avail \in [Cards -> Nat] /\ phase \in [Cards -> {"none", "open", "closed"}]
    BY Typed
  <2> QED  BY <1>2, <1>3, <2>1 DEF Vault!Provision, Vault!Emit
<1>9. rows[c] = NoRow /\ \A i \in 1 .. Len(log) : log[i].card # c
  BY <1>8 DEF RowInv, PhaseFacts
<1>10. \A i \in 1 .. Len(log') : i \in 1 .. Len(log) \/ i = Len(log) + 1
  BY <1>7
<1>11. \A i \in 1 .. Len(log') : log'[i].card = c => log'[i] = x
  BY <1>7, <1>9, <1>10
<1>12. PhaseFacts(c)'
  <2>1. rows'[c].status # "Terminated"
    BY <1>8, <1>9 DEF NoRow
  <2> QED  BY <1>2, <1>8, <1>11, <2>1 DEF PhaseFacts
<1>13. \A i \in Nat : Weights(c)'[i] = 0
  <2>1. ASSUME NEW i \in Nat, i - Len(log) \notin 1 .. Len(e) PROVE Weights(c)'[i] = 0
    <3>1. Weights(c)'[i] = Weights(c)[i]
      BY <1>6, <2>1, EmitWeights
    <3>2. Weights(c)[i] = 0
      BY <1>9 DEF Weights
    <3> QED  BY <3>1, <3>2
  <2>2. Weights(c)'[Len(log) + 1] = 0
    <3>1. 1 \in 1 .. Len(e) /\ e[1].kind # "SettlementFlushed"
      BY <1>2, <1>4
    <3> QED  BY <1>6, <3>1, EmitWeights
  <2>3. ASSUME NEW i \in Nat, i - Len(log) \in 1 .. Len(e) PROVE i = Len(log) + 1
    BY <1>4, <1>7, <2>3
  <2> QED  BY <2>1, <2>2, <2>3
<1>14. Weights(c)' \in [Nat -> Nat] /\ Len(log') \in Nat
  <2>1. Weights(c)' \in [Nat -> Nat]
    BY <1>6, EmitWeights
  <2>2. Len(log') \in Nat
    <3>1. Len(log) \in Nat /\ Len(log') = Len(log) + 1
      BY <1>7
    <3> HIDE DEF x
    <3> QED  BY <3>1
  <2> QED  BY <2>1, <2>2
<1>15. PICK f : Sums(Weights(c)', Len(log'), f) /\ f[Len(log')] = 0
  BY <1>13, <1>14, SumsZero
<1>16. Covers(c, pool)'
  <2>1. \A t \in Ticks : ~(tick'[t].at = "updating" /\ Event(t)'.card = c)
    <3> TAKE t \in Ticks
    <3> SUFFICES ASSUME tick[t].at = "updating" PROVE Event(t)'.card # c
      BY <1>8
    <3>1. tick[t].next \in 1 .. Len(log)
      <4>1. tick[t].next \in Nat
        <5>1. tick[t] \in TickType /\ MaxLog \in Nat
          BY Typed, IngestAssumption
        <5> QED  BY <5>1 DEF TickType
      <4>2. Holds(t, tick[t].next)
        BY DEF Holds
      <4> QED  BY <4>1, <4>2, Typed
    <3>2. Event(t).card # c
      BY <1>9, <3>1 DEF Event
    <3> QED  BY <1>7, <3>2
  <2>2. \A i \in 1 .. Len(log') : log'[i].card = c => log'[i].amount = pool
    BY <1>2, <1>11
  <2>3. pool >= pool
    BY <1>2
  <2> HIDE DEF x
  <2>4. rows'[c] = NoRow
    BY <1>8, <1>9
  <2> QED  BY <2>1, <2>2, <2>3, <2>4 DEF Covers, NoRow
<1>17. Covered(c)'
  <2>1. pool + 0 = pool
    BY <1>2
  <2>2. avail'[c] + f[Len(log')] = pool
    BY <1>8, <1>15, <2>1
  <2>3. Covers(c, avail[c] + f[Len(log)])'
    BY <1>16, <2>2
  <2> QED  BY <1>15, <2>3 DEF Covered
<1> QED  BY <1>6, <1>12, <1>17, EmitKeepsRows

(* A settlement at the front of what is emitted adds its amount.           *)
LEMMA EmitSums ==
  ASSUME IInv, NEW c, NEW e, NEW left, Emitted(c, e, left),
         NEW f, Sums(Weights(c), Len(log), f), Len(e) >= 1, e[1].amount \in Nat,
         e[1].kind = "SettlementFlushed",
         \A i \in 1 .. Len(e) : i # 1 => e[i].kind # "SettlementFlushed"
  PROVE  Whole(Weights(c)', Len(log'), f[Len(log)] + e[1].amount)
<1> DEFINE n == Len(log)
           a == e[1].amount
<1>1. /\ n \in Nat /\ Len(e) \in Nat /\ Len(log') = n + Len(e)
      /\ Len(log') \in Nat /\ n + 1 <= Len(log') /\ n < n + 1 /\ n + 1 \in Nat
  <2>1. n \in Nat /\ Len(e) \in Nat /\ Len(log') = n + Len(e)
    BY EmitLog
  <2> QED  BY <2>1
<1>2. /\ Weights(c) \in [Nat -> Nat] /\ Weights(c)' \in [Nat -> Nat]
      /\ \A i \in 1 .. Len(e) :
           Weights(c)'[n + i] = IF e[i].kind = "SettlementFlushed" THEN e[i].amount ELSE 0
      /\ \A i \in Nat : i - n \notin 1 .. Len(e) => Weights(c)'[i] = Weights(c)[i]
  <2>1. Weights(c) \in [Nat -> Nat] /\ Weights(c)' \in [Nat -> Nat]
    BY EmitWeights
  <2>2. \A i \in 1 .. Len(e) :
          Weights(c)'[n + i] = IF e[i].kind = "SettlementFlushed" THEN e[i].amount ELSE 0
    BY EmitWeights
  <2>3. \A i \in Nat : i - n \notin 1 .. Len(e) => Weights(c)'[i] = Weights(c)[i]
    BY EmitWeights
  <2> QED  BY <2>1, <2>2, <2>3
<1>3. ASSUME NEW i \in Nat PROVE Weights(c)'[i] = IF i = n + 1 THEN a ELSE Weights(c)[i]
  <2>1. CASE i - n \notin 1 .. Len(e)
    <3>1. i # n + 1
      BY <1>1, <2>1
    <3> QED  BY <1>2, <2>1, <3>1
  <2>2. CASE i - n \in 1 .. Len(e)
    <3>1. PICK k \in 1 .. Len(e) : i = n + k
      <4>1. i = n + (i - n)
        BY <1>1
      <4> QED  BY <2>2, <4>1
    <3>2. Weights(c)'[i] = IF e[k].kind = "SettlementFlushed" THEN e[k].amount ELSE 0
      BY <1>2, <3>1
    <3>3. i = n + 1 <=> k = 1
      BY <1>1, <3>1
    <3>4. i # n + 1 => Weights(c)[i] = 0
      <4>1. i \notin 1 .. Len(log)
        BY <1>1, <3>1
      <4> QED  BY <4>1 DEF Weights
    <3> QED  BY <3>1, <3>2, <3>3, <3>4
  <2> QED  BY <2>1, <2>2
<1>4. Weights(c) \in [Nat -> Nat] /\ Weights(c)' \in [Nat -> Nat] /\ a \in Nat
  BY <1>2
<1> DEFINE w == Weights(c)
           v == Weights(c)'
           m == Len(log')
           j == n + 1
<1>5. /\ w \in [Nat -> Nat] /\ v \in [Nat -> Nat] /\ a \in Nat
      /\ n \in Nat /\ m \in Nat /\ j \in Nat /\ n < j /\ j <= m /\ Sums(w, n, f)
  BY <1>1, <1>4
<1>6. Changed(v, w, j, a)
  BY <1>3 DEF Changed
<1> HIDE DEF w, v, n, m, j, a
<1>7. Whole(v, m, f[n] + a)
  BY <1>5, <1>6, SumsAdd
<1> QED  BY <1>7 DEF v, m, n, a

(* A settlement takes from the card what it adds to the unapplied ones.    *)
LEMMA SettleKeepsRows ==
  ASSUME IInv, RowInv, NEW c \in Cards, Vault!Settle(c),
         UNCHANGED <<events, rows, tick>>
  PROVE  RowInv'
<1>1. PICK amount \in 1 .. avail[c] :
        Vault!Emit(c, <<Vault!Event("SettlementFlushed", c, amount, avail[c] - amount)>>,
                   avail[c] - amount)
  BY DEF Vault!Settle
<1> DEFINE left == avail[c] - amount
           x == Vault!Event("SettlementFlushed", c, amount, left)
           e == <<x>>
<1>2. /\ avail \in [Cards -> Nat] /\ phase \in [Cards -> {"none", "open", "closed"}]
      /\ avail[c] \in Nat /\ amount \in Nat /\ left \in Nat
  BY Typed
<1>3. x \in EventType /\ x.card = c /\ x.kind = "SettlementFlushed" /\ x.amount = amount
  BY <1>2 DEF Vault!Event, EventType, Vault!Kinds
<1>4. Vault!Emit(c, e, left)
  BY <1>1
<1> HIDE DEF x
<1>5. e \in Seq(EventType) /\ Len(e) = 1 /\ e[1] = x
  BY <1>3
<1> HIDE DEF e
<1>6. \A i \in 1 .. Len(e) : i = 1 /\ e[i] = x
  BY <1>5
<1>7. Emitted(c, e, left)
  BY <1>2, <1>3, <1>4, <1>5, <1>6 DEF Emitted
<1>8. /\ phase[c] = "open" /\ avail'[c] = left
      /\ phase'[c] = (IF left = 0 THEN "closed" ELSE "open")
      /\ rows' = rows /\ tick' = tick
  BY <1>2, <1>4 DEF Vault!Settle, Vault!Emit
<1>9. /\ Len(log) \in Nat /\ Len(log') = Len(log) + 1
      /\ \A i \in 1 .. Len(log) : log'[i] = log[i]
      /\ log'[Len(log) + 1] = x
      /\ \A t \in Ticks : tick[t].at = "updating" => Event(t)' = Event(t)
  <2>1. /\ Len(log) \in Nat /\ Len(log') = Len(log) + Len(e)
        /\ \A i \in 1 .. Len(log) : log'[i] = log[i]
        /\ \A t \in Ticks : tick[t].at = "updating" => Event(t)' = Event(t)
    BY <1>7, EmitLog
  <2>2. \A i \in 1 .. Len(e) : log'[Len(log) + i] = e[i]
    BY <1>7, EmitLog
  <2>3. 1 \in 1 .. Len(e)
    BY <1>5
  <2> QED  BY <1>5, <2>1, <2>2, <2>3
<1>10. \A i \in 1 .. Len(log') :
         (i \in 1 .. Len(log) /\ log'[i] = log[i]) \/ log'[i] = x
  BY <1>9
<1>11. PhaseFacts(c) /\ Covered(c)
  BY DEF RowInv
<1> HIDE DEF left
<1>12. PhaseFacts(c)'
  <2>1. \A i \in 1 .. Len(log') : log'[i].card = c => log'[i].kind # "ResidualDeltaReclaimed"
    BY <1>3, <1>8, <1>10, <1>11 DEF PhaseFacts
  <2>2. rows'[c].status # "Terminated"
    BY <1>8, <1>11 DEF PhaseFacts
  <2> QED  BY <1>2, <1>8, <2>1, <2>2 DEF PhaseFacts
<1>13. PICK f : Sums(Weights(c), Len(log), f) /\ Covers(c, avail[c] + f[Len(log)])
  BY <1>8, <1>11 DEF Covered
<1>14. PICK g : Sums(Weights(c)', Len(log'), g) /\ g[Len(log')] = f[Len(log)] + amount
  <2>1. /\ Len(e) >= 1 /\ e[1].amount \in Nat /\ e[1].kind = "SettlementFlushed"
        /\ \A i \in 1 .. Len(e) : i # 1 => e[i].kind # "SettlementFlushed"
        /\ e[1].amount = amount
    BY <1>2, <1>3, <1>5, <1>6
  <2>2. \E g : /\ Sums(Weights(c)', Len(log'), g)
               /\ g[Len(log')] = f[Len(log)] + e[1].amount
    BY <1>7, <1>13, <2>1, EmitSums DEF Whole
  <2> QED  BY <2>1, <2>2
<1>15. avail'[c] + g[Len(log')] = avail[c] + f[Len(log)]
  <2>1. f[Len(log)] \in Nat
    BY <1>9, <1>13 DEF Sums
  <2> QED  BY <1>2, <1>8, <1>14, <2>1 DEF left
<1>16. Covers(c, avail[c] + g[Len(log)])'
  <2> DEFINE due == avail[c] + f[Len(log)]
  <2>1. Covers(c, due)
    BY <1>13
  <2>2. (avail[c] + g[Len(log)])' = due
    BY <1>15
  <2> HIDE DEF due
  <2>3. \A t \in Ticks :
          tick'[t].at = "updating" /\ Event(t)'.card = c => tick'[t].read >= due
    BY <1>8, <1>9, <2>1 DEF Covers
  <2>4. \A i \in 1 .. Len(log') :
          log'[i].card = c /\ log'[i].kind = "PaycardProvisioned" => log'[i].amount >= due
    BY <1>3, <1>10, <2>1 DEF Covers
  <2>5. rows'[c] # NoRow => rows'[c].available >= due
    BY <1>8, <2>1 DEF Covers
  <2> QED  BY <2>2, <2>3, <2>4, <2>5 DEF Covers, NoRow
<1>17. Covered(c)'
  BY <1>14, <1>16 DEF Covered
<1> QED  BY <1>7, <1>12, <1>17, EmitKeepsRows

(* A flush closes the card, and its row may show anything from then on.    *)
LEMMA FlushKeepsRows ==
  ASSUME IInv, RowInv, NEW c \in Cards, Vault!Flush(c),
         UNCHANGED <<events, rows, tick>>
  PROVE  RowInv'
<1>1. avail \in [Cards -> Nat] /\ phase \in [Cards -> {"none", "open", "closed"}]
  BY Typed
<1>2. PhaseFacts(c) /\ phase[c] = "open"
  BY DEF RowInv, Vault!Flush
<1>3. PICK f : Sums(Weights(c), Len(log), f)
  BY DEF RowInv, Covered
<1>4. ASSUME NEW e, Emitted(c, e, 0), \E g : Sums(Weights(c)', Len(log'), g)
      PROVE  RowInv'
  <2>1. avail'[c] = 0 /\ phase'[c] = "closed" /\ rows' = rows
    BY <1>1, <1>4 DEF Emitted, Vault!Emit
  <2>2. PhaseFacts(c)'
    BY <2>1 DEF PhaseFacts
  <2>3. Covered(c)'
    BY <1>4, <2>1 DEF Covered
  <2> QED  BY <1>4, <2>2, <2>3, EmitKeepsRows
<1>5. PICK amount \in 0 .. avail[c] - 1 :
        LET rest == avail[c] - amount
            settled == Vault!Event("SettlementFlushed", c, amount, rest)
            reclaimed == Vault!Event("ResidualDeltaReclaimed", c, rest, 0)
        IN  Vault!Emit(c, IF amount = 0 THEN <<reclaimed>> ELSE <<settled, reclaimed>>, 0)
  BY DEF Vault!Flush
<1> DEFINE rest == avail[c] - amount
           x == Vault!Event("SettlementFlushed", c, amount, rest)
           y == Vault!Event("ResidualDeltaReclaimed", c, rest, 0)
<1>6. amount \in Nat /\ rest \in Nat
  BY <1>1
<1>7. /\ x \in EventType /\ x.card = c /\ x.kind = "SettlementFlushed" /\ x.amount = amount
      /\ y \in EventType /\ y.card = c /\ y.kind = "ResidualDeltaReclaimed"
  BY <1>6 DEF Vault!Event, EventType, Vault!Kinds
<1>8. Vault!Emit(c, IF amount = 0 THEN <<y>> ELSE <<x, y>>, 0)
  BY <1>5
<1> HIDE DEF x, y
<1>9. CASE amount = 0
  <2> DEFINE e == <<y>>
  <2>1. e \in Seq(EventType) /\ Len(e) = 1 /\ \A i \in 1 .. Len(e) : e[i] = y
    BY <1>7
  <2>2. Vault!Emit(c, e, 0)
    BY <1>8, <1>9
  <2> HIDE DEF e
  <2>3. Emitted(c, e, 0)
    BY <1>7, <2>1, <2>2 DEF Emitted
  <2>4. Weights(c) \in [Nat -> Nat] /\ Weights(c)' \in [Nat -> Nat]
    BY <2>3, EmitWeights
  <2>5. Len(log) \in Nat /\ Len(log') = Len(log) + Len(e)
    BY <2>3, EmitLog
  <2>6. ASSUME NEW i \in Nat PROVE Weights(c)'[i] = Weights(c)[i]
    <3>1. CASE i - Len(log) \notin 1 .. Len(e)
      BY <2>3, <3>1, EmitWeights
    <3>2. CASE i - Len(log) \in 1 .. Len(e)
      <4>1. i = Len(log) + 1 /\ 1 \in 1 .. Len(e) /\ e[1].kind # "SettlementFlushed"
        BY <1>7, <2>1, <2>5, <3>2
      <4>2. Weights(c)'[Len(log) + 1] = 0
        BY <2>3, <4>1, EmitWeights
      <4>3. i \notin 1 .. Len(log)
        BY <2>5, <4>1
      <4> QED  BY <4>1, <4>2, <4>3 DEF Weights
    <3> QED  BY <3>1, <3>2
  <2>7. Weights(c)' = Weights(c)
    BY <2>4, <2>6
  <2>8. Len(log') \in Nat /\ Len(log) <= Len(log')
    BY <2>1, <2>5
  <2>9. Sums(Weights(c)', Len(log'), f)
    BY <1>3, <2>5, <2>7, <2>8, SumsGrow
  <2> QED  BY <1>4, <2>3, <2>9
<1>10. CASE amount # 0
  <2> DEFINE e == <<x, y>>
  <2>1. e \in Seq(EventType) /\ Len(e) = 2 /\ e[1] = x /\ e[2] = y
    BY <1>7
  <2>2. Vault!Emit(c, e, 0)
    BY <1>8, <1>10
  <2> HIDE DEF e
  <2>3. \A i \in 1 .. Len(e) : (i = 1 /\ e[i] = x) \/ (i = 2 /\ e[i] = y)
    BY <2>1
  <2>4. Emitted(c, e, 0)
    BY <1>7, <2>1, <2>2, <2>3 DEF Emitted
  <2>5. /\ Len(e) >= 1 /\ e[1].amount \in Nat /\ e[1].kind = "SettlementFlushed"
        /\ \A i \in 1 .. Len(e) : i # 1 => e[i].kind # "SettlementFlushed"
    BY <1>6, <1>7, <2>1, <2>3
  <2>6. \E g : /\ Sums(Weights(c)', Len(log'), g)
               /\ g[Len(log')] = f[Len(log)] + e[1].amount
    BY <1>3, <2>4, <2>5, EmitSums DEF Whole
  <2> QED  BY <1>4, <2>4, <2>6
<1> QED  BY <1>9, <1>10

-------------------------------------------------------------------------------
(* At first no card has a row, a log or a weight.                          *)
LEMMA InitRowInv == Init => RowInv
<1> SUFFICES ASSUME Init PROVE RowInv
  OBVIOUS
<1>1. log = <<>> /\ Len(log) = 0
  BY DEF Init, Vault!Init
<1>2. AppliedOnce
  BY DEF Init, AppliedOnce, Holds, NoTick
<1>3. ASSUME NEW c \in Cards PROVE PhaseFacts(c) /\ Covered(c)
  <2>1. phase[c] = "none" /\ avail[c] = 0 /\ rows[c] = NoRow
    BY DEF Init, Vault!Init
  <2>2. \A i \in 1 .. Len(log) : FALSE
    BY <1>1
  <2>3. PhaseFacts(c)
    BY <2>1, <2>2 DEF PhaseFacts, NoRow
  <2>4. Weights(c) \in [Nat -> Nat] /\ \A i \in Nat : Weights(c)[i] = 0
    BY <2>2 DEF Weights
  <2>5. \E f : Sums(Weights(c), Len(log), f)
    BY <1>1, <2>4, SumsZero
  <2> QED  BY <2>1, <2>3, <2>5 DEF Covered
<1> QED  BY <1>2, <1>3 DEF RowInv

(* Every step keeps the rows covered.                                      *)
LEMMA StepRowInv == IInv /\ RowInv /\ [Next]_vars => RowInv'
<1> SUFFICES ASSUME IInv, RowInv, [Next]_vars PROVE RowInv'
  OBVIOUS
<1>1. CASE VaultStep
  <2>1. UNCHANGED <<events, rows, tick>>
    BY <1>1 DEF VaultStep
  <2>2. PICK c \in Cards : Vault!Provision(c) \/ Vault!Settle(c) \/ Vault!Flush(c)
    BY <1>1 DEF VaultStep, Vault!Next
  <2> QED  BY <2>1, <2>2, ProvisionKeepsRows, SettleKeepsRows, FlushKeepsRows
<1>2. ASSUME NEW t \in Ticks, RunTick(t) PROVE RowInv'
  <2>1. CASE StartTick(t) \/ ReadCursor(t) \/ AdvanceCursor(t)
    BY <2>1, ScanKeepsRows
  <2>2. CASE InsertEvent(t)
    BY <2>2, ScanKeepsRows, InsertKeepsRows
  <2>3. CASE Upsert(t) \/ WriteReclaim(t)
    BY <2>3, WriteKeepsRows DEF OneStatement
  <2>4. CASE ReadBalance(t)
    BY <2>4, WriteKeepsRows, ReadKeepsRows DEF OneStatement
  <2>5. CASE WriteBalance(t)
    BY <2>5, UpdateKeepsRows
  <2> QED  BY <1>2, <2>1, <2>2, <2>3, <2>4, <2>5 DEF RunTick
<1>3. ASSUME NEW t \in Ticks, FailTick(t) PROVE RowInv'
  BY <1>3, FailKeepsRows
<1>4. CASE UNCHANGED vars
  <2>1. /\ log' = log /\ phase' = phase /\ avail' = avail /\ tick' = tick
        /\ rows' = rows /\ events' = events
    BY <1>4 DEF vars, chainVars
  <2>2. \A c \in Cards : Weights(c)' = Weights(c)
    BY <2>1 DEF Weights, Unapplied, Holds
  <2>3. \A c \in Cards : Covered(c)' <=> Covered(c)
    BY <2>1, <2>2 DEF Covered, Covers, Event, NoRow
  <2>4. \A c \in Cards : PhaseFacts(c)' <=> PhaseFacts(c)
    BY <2>1 DEF PhaseFacts, NoRow
  <2>5. AppliedOnce' <=> AppliedOnce
    BY <2>1 DEF AppliedOnce, Holds, Event
  <2> QED  BY <2>3, <2>4, <2>5 DEF RowInv
<1> QED  BY <1>1, <1>2, <1>3, <1>4 DEF Next

(* However many ticks overlap and fail, no row shows less than the Vault   *)
(* holds, and a row is Terminated only when its card is (runTick).         *)
THEOREM RowsNeverUnderstate == Spec => []NeverUnderstates
<1>1. Init => IInv /\ RowInv
  BY InitIInv, InitRowInv
<1>2. IInv /\ RowInv /\ [Next]_vars => (IInv /\ RowInv)'
  BY StepIInv, StepRowInv
<1>3. IInv /\ RowInv => NeverUnderstates
  <2> SUFFICES ASSUME IInv, RowInv, NEW c \in Cards, rows[c] # NoRow
               PROVE  /\ rows[c].available >= avail[c]
                      /\ rows[c].status = "Terminated" => phase[c] = "closed"
    BY DEF NeverUnderstates
  <2>1. /\ avail[c] \in Nat /\ Len(log) \in Nat /\ rows[c].available \in Nat
        /\ phase[c] \in {"none", "open", "closed"}
    BY Typed
  <2>2. PhaseFacts(c) /\ Covered(c)
    BY DEF RowInv
  <2>3. CASE phase[c] = "open"
    <3>1. PICK f : Sums(Weights(c), Len(log), f) /\ Covers(c, avail[c] + f[Len(log)])
      BY <2>2, <2>3 DEF Covered
    <3>2. f[Len(log)] \in Nat
      BY <2>1, <3>1 DEF Sums
    <3>3. rows[c].available >= avail[c] + f[Len(log)]
      BY <3>1 DEF Covers
    <3> QED  BY <2>1, <2>2, <2>3, <3>2, <3>3 DEF PhaseFacts
  <2>4. CASE phase[c] # "open"
    <3>1. avail[c] = 0 /\ (rows[c].status = "Terminated" => phase[c] = "closed")
      BY <2>1, <2>2, <2>4 DEF PhaseFacts
    <3> QED  BY <2>1, <3>1
  <2> QED  BY <2>3, <2>4
<1> QED  BY <1>1, <1>2, <1>3, PTL DEF Spec

-------------------------------------------------------------------------------
(* Why a row is exact: it shows the last inserted event of its card, but   *)
(* for the one event that a tick has in hand.                              *)

(* The last of the logs in S that is about card c.                         *)
LastOf(c, S, i) ==
  i \in S /\ log[i].card = c /\ \A j \in S : log[j].card = c => j <= i

(* The row that log i leaves, and a row that the logs in S add up to.      *)
Shown(i) ==
  [ status |-> IF log[i].left = 0 THEN "Terminated" ELSE "Active",
    available |-> log[i].left ]

RowShows(c, S) ==
  \/ rows[c] = NoRow /\ \A i \in S : log[i].card # c
  \/ \E i \in S : LastOf(c, S, i) /\ rows[c] = Shown(i)

(* Each event continues from the one before it on its card.                *)
Follows(c, i) ==
  \/ /\ log[i].kind = "PaycardProvisioned"
     /\ log[i].left = log[i].amount /\ log[i].left > 0
  \/ \E j \in 1 .. i - 1 :
       /\ LastOf(c, 1 .. i - 1, j)
       /\ \/ /\ log[i].kind = "SettlementFlushed"
             /\ log[i].left = log[j].left - log[i].amount
          \/ log[i].kind = "ResidualDeltaReclaimed" /\ log[i].left = 0

(* The last event of a card leaves what the Vault holds.                   *)
EndsAtVault(c) ==
  phase[c] # "none" => \E j \in 1 .. Len(log) :
                         LastOf(c, 1 .. Len(log), j) /\ avail[c] = log[j].left

Chained(c) ==
  /\ \A i \in 1 .. Len(log) : log[i].card = c => Follows(c, i)
  /\ EndsAtVault(c)

(* No tick has an event of c in hand, or one tick has the last one.        *)
Tracks(c) ==
  \/ (\A t \in Ticks : c \notin InHand(t)) /\ RowShows(c, events)
  \/ \E t \in Ticks :
       /\ \A u \in Ticks : c \in InHand(u) <=> u = t
       /\ LastOf(c, events, tick[t].next)
       /\ RowShows(c, events \ {tick[t].next})
       /\ tick[t].at = "updating" => tick[t].read = rows[c].available

ExactInv ==
  /\ \A c \in Cards : Chained(c)
  /\ \A c \in Cards \ (torn \cup raced) : Tracks(c)

(* What IInv says of the inserted events.                                  *)
LEMMA InsertedTyped ==
  ASSUME IInv
  PROVE  /\ events \subseteq 1 .. Len(log) /\ Len(log) \in Nat
         /\ \A i \in events : 1 .. i \subseteq events
         /\ \A i \in 1 .. Len(log) : log[i] \in EventType
<1>1. Len(log) \in Nat
  BY Typed
<1>2. PICK k \in 0 .. Len(log) : events = 1 .. k
  BY DEF IInv, PrefixInserted
<1>3. log \in Seq(EventType)
  BY DEF IInv, TypeOK, Vault!TypeOK, EventType
<1>4. \A i \in 1 .. Len(log) : log[i] \in EventType
  BY <1>3, SeqElement
<1>5. events \subseteq 1 .. Len(log) /\ \A i \in events : 1 .. i \subseteq events
  BY <1>1, <1>2
<1> QED  BY <1>1, <1>4, <1>5

(* And of an event in hand.                                                *)
LEMMA HeldTyped ==
  ASSUME IInv, NEW t \in Ticks, tick[t].at \in {"applying", "updating"}
  PROVE  /\ tick[t].next \in events /\ tick[t].next \in 1 .. Len(log)
         /\ Event(t) \in EventType /\ InHand(t) = {Event(t).card}
<1>1. tick[t] \in TickType /\ MaxLog \in Nat
  BY Typed, IngestAssumption
<1>2. tick[t].next \in Nat /\ Holds(t, tick[t].next)
  BY <1>1 DEF TickType, Holds
<1>3. tick[t].next \in events /\ tick[t].next \in 1 .. Len(log)
  BY <1>2, Typed
<1>4. Event(t) \in EventType
  BY <1>3, InsertedTyped DEF Event
<1> QED  BY <1>3, <1>4 DEF InHand, Event

(* A card has one last event.                                              *)
LEMMA LastIsOne ==
  ASSUME NEW c, NEW S \in SUBSET Int, NEW i, NEW j, LastOf(c, S, i), LastOf(c, S, j)
  PROVE  i = j
<1>1. i \in Int /\ j \in Int /\ i <= j /\ j <= i
  BY DEF LastOf
<1> QED  BY <1>1

(* The row of a card is what the event before the one in hand left.        *)
LEMMA RowBefore ==
  ASSUME IInv, NEW c, NEW i, NEW j \in 1 .. i - 1, LastOf(c, events, i),
         LastOf(c, 1 .. i - 1, j), RowShows(c, events \ {i})
  PROVE  rows[c] = Shown(j)
<1>1. i \in events /\ i \in Int /\ events \subseteq Int /\ 1 .. i \subseteq events
  BY InsertedTyped DEF LastOf
<1>2. j \in events \ {i} /\ log[j].card = c
  BY <1>1 DEF LastOf
<1>3. ASSUME NEW m \in events \ {i}, log[m].card = c PROVE m \in 1 .. i - 1
  <2>1. m <= i /\ m \in 1 .. Len(log) /\ Len(log) \in Nat
    BY <1>3, InsertedTyped DEF LastOf
  <2> QED  BY <1>1, <1>3, <2>1
<1>4. LastOf(c, events \ {i}, j)
  BY <1>2, <1>3 DEF LastOf
<1>5. PICK m \in events \ {i} : LastOf(c, events \ {i}, m) /\ rows[c] = Shown(m)
  BY <1>2 DEF RowShows
<1>6. m = j
  BY <1>1, <1>4, <1>5, LastIsOne
<1> QED  BY <1>5, <1>6

(* Nothing that concerns the card changes.                                 *)
LEMMA TracksStays ==
  ASSUME NEW c \in Cards, Tracks(c), rows'[c] = rows[c],
         \A x : x \in events' /\ log'[x].card = c <=> x \in events /\ log[x].card = c,
         \A x \in events : log[x].card = c => log'[x] = log[x],
         \A u \in Ticks : c \in InHand(u)' <=> c \in InHand(u),
         \A u \in Ticks : c \in InHand(u) => tick'[u] = tick[u]
  PROVE  Tracks(c)'
<1>1. CASE (\A t \in Ticks : c \notin InHand(t)) /\ RowShows(c, events)
  <2>1. \A t \in Ticks : c \notin InHand(t)'
    BY <1>1
  <2>2. CASE rows[c] = NoRow /\ \A i \in events : log[i].card # c
    <3>1. rows'[c] = NoRow /\ \A i \in events' : log'[i].card # c
      BY <2>2
    <3>2. RowShows(c, events)'
      BY <3>1 DEF RowShows, NoRow
    <3> QED  BY <2>1, <3>2 DEF Tracks
  <2>3. ASSUME NEW i \in events, LastOf(c, events, i), rows[c] = Shown(i)
        PROVE  Tracks(c)'
    <3>1. LastOf(c, events, i)' /\ log'[i] = log[i] /\ i \in events'
      BY <2>3 DEF LastOf
    <3>2. rows'[c] = Shown(i)'
      BY <2>3, <3>1 DEF Shown
    <3>3. RowShows(c, events)'
      BY <3>1, <3>2 DEF RowShows
    <3> QED  BY <2>1, <3>3 DEF Tracks
  <2> QED  BY <1>1, <2>2, <2>3 DEF RowShows
<1>2. ASSUME NEW t \in Ticks, \A u \in Ticks : c \in InHand(u) <=> u = t,
             LastOf(c, events, tick[t].next), RowShows(c, events \ {tick[t].next}),
             tick[t].at = "updating" => tick[t].read = rows[c].available
      PROVE  Tracks(c)'
  <2>1. /\ \A u \in Ticks : c \in InHand(u)' <=> u = t
        /\ tick'[t] = tick[t]
        /\ tick'[t].at = "updating" => tick'[t].read = rows'[c].available
    BY <1>2
  <2>2. LastOf(c, events, tick[t].next)'
    BY <1>2, <2>1 DEF LastOf
  <2>3. RowShows(c, events \ {tick[t].next})'
    <3> DEFINE n == tick[t].next
    <3>1. n' = n
      BY <2>1
    <3> HIDE DEF n
    <3>2. CASE rows[c] = NoRow /\ \A i \in events \ {n} : log[i].card # c
      <4>1. rows'[c] = NoRow /\ \A i \in events' \ {n'} : log'[i].card # c
        BY <3>1, <3>2
      <4>2. RowShows(c, events \ {n})'
        BY <4>1 DEF RowShows, NoRow
      <4> QED  BY <4>2 DEF n
    <3>3. ASSUME NEW i \in events \ {n}, LastOf(c, events \ {n}, i), rows[c] = Shown(i)
          PROVE  RowShows(c, events \ {n})'
      <4>1. LastOf(c, events \ {n}, i)' /\ log'[i] = log[i] /\ i \in events' \ {n'}
        BY <3>1, <3>3 DEF LastOf
      <4>2. rows'[c] = Shown(i)'
        BY <3>3, <4>1 DEF Shown
      <4> QED  BY <4>1, <4>2 DEF RowShows
    <3> QED  BY <1>2, <3>2, <3>3 DEF RowShows, n
  <2> QED  BY <2>1, <2>2, <2>3 DEF Tracks
<1> QED  BY <1>1, <1>2 DEF Tracks

(* A tick puts its event down and the row shows it.                        *)
LEMMA TracksReleased ==
  ASSUME NEW c \in Cards, NEW t \in Ticks, Tracks(c), c \in InHand(t),
         log' = log, events' = events, rows'[c] = Shown(tick[t].next),
         c \notin InHand(t)', \A u \in Ticks : u # t => tick'[u] = tick[u]
  PROVE  Tracks(c)'
<1>1. /\ \A u \in Ticks : c \in InHand(u) <=> u = t
      /\ LastOf(c, events, tick[t].next)
  BY DEF Tracks
<1>2. \A u \in Ticks : c \notin InHand(u)'
  BY <1>1 DEF InHand
<1> DEFINE i == tick[t].next
<1>3. i \in events /\ LastOf(c, events, i) /\ rows'[c] = Shown(i)
  BY <1>1 DEF LastOf
<1> HIDE DEF i
<1>4. PICK m : m = i
  OBVIOUS
<1>5. m \in events' /\ LastOf(c, events, m)' /\ rows'[c] = Shown(m)'
  BY <1>3, <1>4 DEF LastOf, Shown
<1>6. RowShows(c, events)'
  BY <1>5 DEF RowShows
<1> QED  BY <1>2, <1>6 DEF Tracks

(* A tick works on a card, and the rows of the others stay.                *)
LEMMA OthersTrack ==
  ASSUME NEW c, NEW b \in Cards, b # c, NEW t \in Ticks, NEW new, Tracks(b),
         tick \in [Ticks -> TickType], tick' = [tick EXCEPT ![t] = new],
         InHand(t) \subseteq {c}, InHand(t)' \subseteq {c},
         log' = log, events' = events, rows'[b] = rows[b]
  PROVE  Tracks(b)'
<1>1. \A u \in Ticks : u # t => tick'[u] = tick[u]
  OBVIOUS
<1>2. \A u \in Ticks : u # t => InHand(u)' = InHand(u)
  BY <1>1 DEF InHand
<1>3. \A u \in Ticks : b \in InHand(u)' <=> b \in InHand(u)
  BY <1>2
<1>4. \A u \in Ticks : b \in InHand(u) => tick'[u] = tick[u]
  BY <1>1
<1> QED  BY <1>3, <1>4, TracksStays

(* No event is taken in hand or put down, and the log stays.               *)
LEMMA QuietKeepsExact ==
  ASSUME IInv, ExactInv, NEW t \in Ticks, NEW new, tick' = [tick EXCEPT ![t] = new],
         tick[t].at \notin {"applying", "updating"},
         new.at \notin {"applying", "updating"},
         UNCHANGED <<chainVars, events, rows>>,
         torn \subseteq torn', raced \subseteq raced'
  PROVE  ExactInv'
<1>1. /\ UNCHANGED <<log, phase, avail, events, rows>>
      /\ tick \in [Ticks -> TickType]
  BY Typed DEF chainVars
<1>2. \A u \in Ticks : InHand(u)' = InHand(u) /\ (InHand(u) # {} => tick'[u] = tick[u])
  BY <1>1 DEF InHand
<1>3. ASSUME NEW c \in Cards \ (torn' \cup raced') PROVE Tracks(c)'
  <2>1. Tracks(c)
    BY <1>3 DEF ExactInv
  <2> QED  BY <1>1, <1>2, <2>1, TracksStays
<1>4. \A c \in Cards : Chained(c)'
  BY <1>1 DEF ExactInv, Chained, Follows, EndsAtVault, LastOf
<1> QED  BY <1>3, <1>4 DEF ExactInv

(* Starting, reading the cursor and moving it, passing over an event that  *)
(* is already inserted, and failing without an event in hand.              *)
LEMMA ScanKeepsExact ==
  ASSUME IInv, ExactInv, NEW t \in Ticks,
         \/ StartTick(t) \/ ReadCursor(t) \/ AdvanceCursor(t)
         \/ InsertEvent(t) /\ AlreadyInserted(tick[t].next)
         \/ FailTick(t) /\ tick[t].at \notin {"applying", "updating"}
  PROVE  ExactInv'
<1>1. NoTick.at = "idle" /\ [NoTick EXCEPT !.at = "started", !.head = Len(log)].at = "started"
  BY DEF NoTick
<1>2. ASSUME NEW from PROVE NextChunk(t, from).at \in {"idle", "ingesting"}
  <2>1. tick[t] \in TickType
    BY Typed
  <2> QED  BY <1>1, <2>1 DEF NextChunk, TickType
<1>3. CASE StartTick(t)
  BY <1>1, <1>3, QuietKeepsExact DEF StartTick, history
<1>4. CASE ReadCursor(t)
  <2> DEFINE new == NextChunk(t, ScanFrom)
  <2>1. new.at \in {"idle", "ingesting"}
    BY <1>2
  <2> HIDE DEF new
  <2>2. tick' = [tick EXCEPT ![t] = new]
    BY <1>4 DEF ReadCursor, new
  <2> QED  BY <1>4, <2>1, <2>2, QuietKeepsExact DEF ReadCursor, history
<1>5. CASE AdvanceCursor(t)
  <2> DEFINE new == NextChunk(t, tick[t].to + 1)
  <2>1. new.at \in {"idle", "ingesting"}
    BY <1>2
  <2> HIDE DEF new
  <2>2. \E r \in {new, NoTick} : tick' = [tick EXCEPT ![t] = r]
    BY <1>5 DEF AdvanceCursor, new
  <2> QED  BY <1>1, <1>5, <2>1, <2>2, QuietKeepsExact DEF AdvanceCursor, history
<1>6. CASE InsertEvent(t) /\ AlreadyInserted(tick[t].next)
  <2>1. PICK new : Done(t) = [tick EXCEPT ![t] = new] /\ new.at = "ingesting"
    BY DoneRecord
  <2>2. tick' = Done(t) /\ events' = events /\ raced' = raced /\ torn' = torn
    BY <1>6 DEF InsertEvent, AlreadyInserted
  <2> QED  BY <1>6, <2>1, <2>2, QuietKeepsExact DEF InsertEvent
<1>7. CASE FailTick(t) /\ tick[t].at \notin {"applying", "updating"}
  BY <1>1, <1>7, QuietKeepsExact DEF FailTick
<1> QED  BY <1>3, <1>4, <1>5, <1>6, <1>7

(* An event is inserted behind all others, and unless another tick has one *)
(* of its card in hand, the row shows the events before it.                *)
LEMMA InsertKeepsExact ==
  ASSUME IInv, ExactInv, NEW t \in Ticks, InsertEvent(t),
         ~AlreadyInserted(tick[t].next)
  PROVE  ExactInv'
<1> DEFINE i == tick[t].next
           c == log[i].card
           new == [tick[t] EXCEPT !.at = "applying"]
<1>1. tick \in [Ticks -> TickType] /\ tick[t] \in TickType
  BY Typed
<1>2. new.at = "applying" /\ new.next = i
  BY <1>1 DEF TickType
<1>3. tick' = [tick EXCEPT ![t] = new]
  BY <1>1 DEF InsertEvent
<1>4. /\ tick[t].at = "ingesting" /\ i \notin events /\ events' = events \cup {i}
      /\ UNCHANGED <<log, phase, avail, rows, torn>>
      /\ raced' = IF \E u \in Ticks : c \in InHand(u) THEN raced \cup {c} ELSE raced
  BY DEF InsertEvent, AlreadyInserted, chainVars
<1>5. i \in Int /\ \A j \in events : j <= i
  <2>1. PICK k \in 0 .. Len(log) : events = 1 .. k /\ Behind(t, k)
    BY DEF IInv, PrefixInserted
  <2>2. i \in 1 .. k + 1 /\ k \in Int
    BY <1>4, <2>1 DEF Behind
  <2> QED  BY <1>4, <2>1, <2>2
<1>6. tick'[t] = new /\ \A u \in Ticks : u # t => tick'[u] = tick[u]
  BY <1>1, <1>3
<1> HIDE DEF new
<1>7. /\ InHand(t) = {} /\ InHand(t)' = {c}
      /\ \A u \in Ticks : u # t => InHand(u)' = InHand(u)
  BY <1>2, <1>4, <1>6 DEF InHand
<1> HIDE DEF c
<1>8. ASSUME NEW b \in Cards \ (torn' \cup raced'), b # c PROVE Tracks(b)'
  <2>1. Tracks(b)
    BY <1>4, <1>8 DEF ExactInv
  <2>2. \A x : x \in events' /\ log'[x].card = b <=> x \in events /\ log[x].card = b
    BY <1>4, <1>8 DEF c
  <2>3. \A u \in Ticks : b \in InHand(u)' <=> b \in InHand(u)
    BY <1>7, <1>8
  <2>4. \A u \in Ticks : b \in InHand(u) => tick'[u] = tick[u]
    BY <1>6, <1>7
  <2> QED  BY <1>4, <2>1, <2>2, <2>3, <2>4, TracksStays
<1>9. ASSUME NEW b \in Cards \ (torn' \cup raced'), b = c PROVE Tracks(b)'
  <2>1. \A u \in Ticks : c \notin InHand(u)
    BY <1>4, <1>9
  <2>2. RowShows(c, events)
    <3>1. Tracks(c)
      BY <1>4, <1>9 DEF ExactInv
    <3> QED  BY <2>1, <3>1 DEF Tracks
  <2>3. \A u \in Ticks : c \in InHand(u)' <=> u = t
    BY <1>7, <2>1
  <2>5. tick'[t].next = i /\ tick'[t].at = "applying" /\ log[i].card = b
    BY <1>2, <1>6, <1>9 DEF c
  <2> HIDE DEF i
  <2>6. events' \ {i} = events
    BY <1>4
  <2>7. i \in events' /\ \A j \in events' : j <= i
    BY <1>4, <1>5
  <2>8. LastOf(b, events, tick[t].next)'
    BY <1>4, <2>5, <2>7 DEF LastOf
  <2>9. RowShows(b, events \ {tick[t].next})'
    BY <1>4, <1>9, <2>2, <2>5, <2>6 DEF RowShows, LastOf, Shown, NoRow
  <2> QED  BY <1>9, <2>3, <2>5, <2>8, <2>9 DEF Tracks
<1>10. \A b \in Cards : Chained(b)'
  BY <1>4 DEF ExactInv, Chained, Follows, EndsAtVault, LastOf
<1> QED  BY <1>8, <1>9, <1>10 DEF ExactInv

(* The Vault emits events of one card, each of which continues from the    *)
(* one before it; nothing else changes for the rows.                       *)
LEMMA EmitKeepsExact ==
  ASSUME IInv, ExactInv, NEW c, NEW e, NEW left, Emitted(c, e, left),
         UNCHANGED <<torn, raced>>,
         \A i \in 1 .. Len(log') : i > Len(log) => Follows(c, i)',
         EndsAtVault(c)'
  PROVE  ExactInv'
<1>1. /\ Len(log) \in Nat /\ Len(e) \in Nat /\ Len(log') = Len(log) + Len(e)
      /\ \A i \in 1 .. Len(log) : log'[i] = log[i]
      /\ \A i \in 1 .. Len(e) : log'[Len(log) + i] = e[i]
  BY EmitLog
<1>2. /\ rows' = rows /\ tick' = tick /\ events' = events
      /\ avail' = [avail EXCEPT ![c] = left]
      /\ phase' = [phase EXCEPT ![c] = IF left = 0 THEN "closed" ELSE "open"]
      /\ \A i \in 1 .. Len(e) : e[i].card = c
  BY DEF Emitted, Vault!Emit
<1>3. ASSUME NEW i \in 1 .. Len(log'), i > Len(log) PROVE log'[i].card = c
  <2>1. i - Len(log) \in 1 .. Len(e) /\ i = Len(log) + (i - Len(log))
    BY <1>1, <1>3
  <2> QED  BY <1>1, <1>2, <2>1
<1>4. ASSUME NEW b \in Cards, NEW i \in 1 .. Len(log), Follows(b, i)
      PROVE  Follows(b, i)'
  <2>1. \A j \in 1 .. i : log'[j] = log[j]
    BY <1>1
  <2>2. i \in 1 .. i /\ \A j \in 1 .. i - 1 : j \in 1 .. i
    BY <1>1
  <2>3. \A j : LastOf(b, 1 .. i - 1, j) => LastOf(b, 1 .. i - 1, j)'
    BY <2>1, <2>2 DEF LastOf
  <2> QED  BY <1>4, <2>1, <2>2, <2>3 DEF Follows
<1>5. ASSUME NEW b \in Cards PROVE Chained(b)'
  <2>1. ASSUME NEW i \in 1 .. Len(log'), log'[i].card = b PROVE Follows(b, i)'
    <3>1. CASE i > Len(log)
      BY <1>3, <2>1, <3>1
    <3>2. CASE ~(i > Len(log))
      <4>1. i \in 1 .. Len(log) /\ log'[i] = log[i]
        BY <1>1, <3>2
      <4>2. Follows(b, i)
        BY <2>1, <4>1 DEF ExactInv, Chained
      <4> QED  BY <1>4, <4>1, <4>2
    <3> QED  BY <3>1, <3>2
  <2>2. EndsAtVault(b)'
    <3>1. CASE b # c
      <4>1. avail'[b] = avail[b] /\ phase'[b] = phase[b]
        <5>1. avail \in [Cards -> Nat] /\ phase \in [Cards -> {"none", "open", "closed"}]
          BY Typed
        <5> QED  BY <1>2, <3>1, <5>1
      <4>2. ASSUME NEW j \in 1 .. Len(log), LastOf(b, 1 .. Len(log), j), avail[b] = log[j].left
            PROVE  EndsAtVault(b)'
        <5>1. j \in 1 .. Len(log') /\ log'[j] = log[j]
          BY <1>1
        <5>2. LastOf(b, 1 .. Len(log), j)'
          BY <1>1, <1>3, <3>1, <4>2, <5>1 DEF LastOf
        <5> QED  BY <4>1, <4>2, <5>1, <5>2 DEF EndsAtVault
      <4> QED  BY <4>1, <4>2 DEF ExactInv, Chained, EndsAtVault
    <3>2. CASE b = c
      BY <3>2
    <3> QED  BY <3>1, <3>2
  <2> QED  BY <2>1, <2>2 DEF Chained
<1>6. ASSUME NEW b \in Cards \ (torn' \cup raced') PROVE Tracks(b)'
  <2>1. Tracks(b)
    BY <1>6 DEF ExactInv
  <2>2. events \subseteq 1 .. Len(log)
    BY InsertedTyped
  <2>3. /\ \A x \in events : log'[x] = log[x]
        /\ \A x : x \in events' /\ log'[x].card = b <=> x \in events /\ log[x].card = b
    BY <1>1, <1>2, <2>2
  <2>4. \A u \in Ticks : InHand(u)' = InHand(u)
    <3>1. \A u \in Ticks : tick[u].at \in {"applying", "updating"} =>
                             log'[tick[u].next] = log[tick[u].next]
      BY <2>3, HeldTyped
    <3> QED  BY <1>2, <3>1 DEF InHand
  <2> QED  BY <1>2, <2>1, <2>3, <2>4, TracksStays
<1> QED  BY <1>5, <1>6 DEF ExactInv

(* An event that the Vault emits for an open card has the card's last one  *)
(* before it.                                                              *)
LEMMA LastBefore ==
  ASSUME IInv, ExactInv, NEW c \in Cards, phase[c] # "none",
         \A i \in 1 .. Len(log) : log'[i] = log[i]
  PROVE  \E j \in 1 .. Len(log) :
           /\ log[j].left = avail[c]
           /\ \A n : n = Len(log) => LastOf(c, 1 .. n, j)'
<1>1. Len(log) \in Nat
  BY Typed
<1>2. PICK j \in 1 .. Len(log) : LastOf(c, 1 .. Len(log), j) /\ avail[c] = log[j].left
  BY DEF ExactInv, Chained, EndsAtVault
<1>3. ASSUME NEW n, n = Len(log) PROVE LastOf(c, 1 .. n, j)'
  BY <1>2, <1>3 DEF LastOf
<1> QED  BY <1>1, <1>2, <1>3

(* The last event of the log is that of its card.                          *)
LEMMA LastOfLog ==
  ASSUME NEW c, NEW n \in Nat, n > 0, log'[n].card = c
  PROVE  LastOf(c, 1 .. n, n)'
BY DEF LastOf

(* Every transaction of the Vault emits such events.                       *)
LEMMA VaultKeepsExact ==
  ASSUME IInv, ExactInv, VaultStep
  PROVE  ExactInv'
<1>1. UNCHANGED <<events, rows, tick, torn, raced>>
  BY DEF VaultStep, history
<1>2. PICK c \in Cards : Vault!Provision(c) \/ Vault!Settle(c) \/ Vault!Flush(c)
  BY DEF VaultStep, Vault!Next
<1>3. avail[c] \in Nat /\ Len(log) \in Nat /\ phase \in [Cards -> {"none", "open", "closed"}]
  BY Typed
<1> DEFINE n == Len(log)
<1>4. ASSUME NEW e, NEW left, Emitted(c, e, left)
      PROVE  /\ Len(log') = n + Len(e) /\ avail'[c] = left
             /\ \A i \in 1 .. n : log'[i] = log[i]
             /\ Len(e) \in {1, 2} => log'[n + 1] = e[1]
             /\ Len(e) = 2 => log'[n + 2] = e[2]
  <2>1. avail \in [Cards -> Nat]
    BY Typed
  <2>2. /\ Len(log') = n + Len(e) /\ \A i \in 1 .. n : log'[i] = log[i]
        /\ \A i \in 1 .. Len(e) : log'[n + i] = e[i]
    BY <1>4, EmitLog
  <2>3. avail'[c] = left
    BY <1>4, <2>1 DEF Emitted, Vault!Emit
  <2>4. Len(e) \in {1, 2} => 1 \in 1 .. Len(e)
    OBVIOUS
  <2>5. Len(e) = 2 => 2 \in 1 .. Len(e)
    OBVIOUS
  <2> QED  BY <2>2, <2>3, <2>4, <2>5
<1>5. CASE Vault!Provision(c)
  <2>1. PICK pool \in Pools :
          Vault!Emit(c, <<Vault!Event("PaycardProvisioned", c, pool, pool)>>, pool)
    BY <1>5 DEF Vault!Provision
  <2> DEFINE x == Vault!Event("PaycardProvisioned", c, pool, pool)
             e == <<x>>
  <2>2. /\ x \in EventType /\ x.card = c /\ x.kind = "PaycardProvisioned"
        /\ x.amount = pool /\ x.left = pool /\ pool \in Nat /\ pool > 0
    BY IngestAssumption DEF Vault!Event, EventType, Vault!Kinds
  <2>3. Vault!Emit(c, e, pool)
    BY <2>1
  <2> HIDE DEF x
  <2>4. e \in Seq(EventType) /\ Len(e) = 1 /\ e[1] = x
    BY <2>2
  <2> HIDE DEF e
  <2>5. Emitted(c, e, pool)
    <3>1. \A i \in 1 .. Len(e) : e[i].card = c
      BY <2>2, <2>4
    <3> QED  BY <1>1, <2>2, <2>3, <2>4, <3>1 DEF Emitted
  <2>6. Len(log') = n + 1 /\ log'[n + 1] = x /\ avail'[c] = pool
    BY <1>4, <2>4, <2>5
  <2>7. ASSUME NEW i \in 1 .. Len(log'), i > Len(log) PROVE Follows(c, i)'
    <3>1. i = n + 1
      BY <1>3, <2>6, <2>7
    <3> QED  BY <2>2, <2>6, <3>1 DEF Follows
  <2>8. EndsAtVault(c)'
    <3>1. LastOf(c, 1 .. Len(log), Len(log))'
      BY <1>3, <2>2, <2>6 DEF LastOf
    <3>2. Len(log') \in 1 .. Len(log') /\ avail'[c] = log'[Len(log')].left
      BY <1>3, <2>2, <2>6
    <3> QED  BY <3>1, <3>2 DEF EndsAtVault
  <2> QED  BY <1>1, <2>5, <2>7, <2>8, EmitKeepsExact
<1>6. CASE Vault!Settle(c)
  <2>1. PICK amount \in 1 .. avail[c] :
          Vault!Emit(c, <<Vault!Event("SettlementFlushed", c, amount, avail[c] - amount)>>,
                     avail[c] - amount)
    BY <1>6 DEF Vault!Settle
  <2> DEFINE left == avail[c] - amount
             x == Vault!Event("SettlementFlushed", c, amount, left)
             e == <<x>>
  <2>2. left \in Nat /\ amount \in Nat
    BY <1>3
  <2>3. Vault!Emit(c, e, left)
    BY <2>1
  <2>4. left = avail[c] - amount
    OBVIOUS
  <2> HIDE DEF left
  <2>5. /\ x \in EventType /\ x.card = c /\ x.kind = "SettlementFlushed"
        /\ x.amount = amount /\ x.left = left
    BY <2>2 DEF Vault!Event, EventType, Vault!Kinds
  <2> HIDE DEF x
  <2>6. e \in Seq(EventType) /\ Len(e) = 1 /\ e[1] = x
    BY <2>5
  <2> HIDE DEF e
  <2>7. Emitted(c, e, left)
    <3>1. \A i \in 1 .. Len(e) : e[i].card = c
      BY <2>5, <2>6
    <3> QED  BY <1>1, <2>2, <2>3, <2>6, <3>1 DEF Emitted
  <2>8. /\ Len(log') = n + 1 /\ log'[n + 1] = x /\ avail'[c] = left
        /\ \A i \in 1 .. n : log'[i] = log[i]
    BY <1>4, <2>6, <2>7
  <2>9. PICK j \in 1 .. n : /\ log[j].left = avail[c]
                            /\ \A m : m = Len(log) => LastOf(c, 1 .. m, j)'
    <3>1. phase[c] # "none"
      BY <1>6 DEF Vault!Settle
    <3> QED  BY <2>8, <3>1, LastBefore
  <2>10. ASSUME NEW i \in 1 .. Len(log'), i > Len(log) PROVE Follows(c, i)'
    <3>1. i = n + 1 /\ i - 1 = Len(log)
      BY <1>3, <2>8, <2>10
    <3>2. LastOf(c, 1 .. i - 1, j)' /\ j \in 1 .. i - 1
      BY <2>9, <3>1
    <3>3. log'[i].kind = "SettlementFlushed" /\ log'[i].left = log'[j].left - log'[i].amount
      BY <2>4, <2>5, <2>8, <2>9, <3>1
    <3> QED  BY <3>2, <3>3 DEF Follows
  <2>11. EndsAtVault(c)'
    <3>1. LastOf(c, 1 .. Len(log), Len(log))'
      BY <1>3, <2>5, <2>8 DEF LastOf
    <3>2. Len(log') \in 1 .. Len(log') /\ avail'[c] = log'[Len(log')].left
      BY <1>3, <2>5, <2>8
    <3> QED  BY <3>1, <3>2 DEF EndsAtVault
  <2> QED  BY <1>1, <2>7, <2>10, <2>11, EmitKeepsExact
<1>7. CASE Vault!Flush(c)
  <2> DEFINE rest(amount) == avail[c] - amount
             settled(amount) == Vault!Event("SettlementFlushed", c, amount, rest(amount))
             reclaimed(amount) == Vault!Event("ResidualDeltaReclaimed", c, rest(amount), 0)
             emitted(amount) == IF amount = 0 THEN <<reclaimed(amount)>>
                                ELSE <<settled(amount), reclaimed(amount)>>
  <2>1. PICK amount \in 0 .. avail[c] - 1 : Vault!Emit(c, emitted(amount), 0)
    BY <1>7 DEF Vault!Flush
  <2> DEFINE r == rest(amount)
             x == settled(amount)
             y == reclaimed(amount)
             e == emitted(amount)
  <2>2. r \in Nat /\ amount \in Nat /\ r = avail[c] - amount
    BY <1>3
  <2>3. /\ x \in EventType /\ x.card = c /\ x.kind = "SettlementFlushed"
        /\ x.amount = amount /\ x.left = r
        /\ y \in EventType /\ y.card = c /\ y.kind = "ResidualDeltaReclaimed" /\ y.left = 0
    BY <2>2 DEF Vault!Event, EventType, Vault!Kinds
  <2>4. e = IF amount = 0 THEN <<y>> ELSE <<x, y>>
    OBVIOUS
  <2> HIDE DEF rest, settled, reclaimed, r, x, y
  <2>5. /\ e \in Seq(EventType)
        /\ amount = 0 => Len(e) = 1 /\ e[1] = y
        /\ amount # 0 => Len(e) = 2 /\ e[1] = x /\ e[2] = y
    BY <2>3, <2>4
  <2>6. Vault!Emit(c, e, 0)
    BY <2>1
  <2> HIDE DEF emitted, e
  <2>7. Emitted(c, e, 0)
    <3>1. ASSUME NEW i \in 1 .. Len(e) PROVE e[i].card = c
      <4>1. CASE amount = 0
        <5>1. Len(e) = 1
          BY <2>5, <4>1
        <5>2. i = 1
          BY <3>1, <5>1
        <5> QED  BY <2>3, <2>5, <4>1, <5>2
      <4>2. CASE amount # 0
        <5>1. Len(e) = 2
          BY <2>5, <4>2
        <5>2. i = 1 \/ i = 2
          BY <3>1, <5>1
        <5> QED  BY <2>3, <2>5, <4>2, <5>2
      <4> QED  BY <4>1, <4>2
    <3> QED  BY <1>1, <2>5, <2>6, <3>1 DEF Emitted
  <2>8. /\ Len(log') = n + Len(e) /\ avail'[c] = 0
        /\ \A i \in 1 .. n : log'[i] = log[i]
        /\ Len(e) \in {1, 2} => log'[n + 1] = e[1]
        /\ Len(e) = 2 => log'[n + 2] = e[2]
    BY <1>4, <2>7
  <2>9. PICK j \in 1 .. n : /\ log[j].left = avail[c]
                            /\ \A m : m = Len(log) => LastOf(c, 1 .. m, j)'
    <3>1. phase[c] # "none"
      BY <1>7 DEF Vault!Flush
    <3> QED  BY <2>8, <3>1, LastBefore
  <2>10. CASE amount = 0
    <3>1. Len(log') = n + 1 /\ log'[n + 1] = y
      BY <2>5, <2>8, <2>10
    <3>2. ASSUME NEW i \in 1 .. Len(log'), i > Len(log) PROVE Follows(c, i)'
      <4>1. i = n + 1 /\ i - 1 = Len(log)
        BY <1>3, <3>1, <3>2
      <4>2. LastOf(c, 1 .. i - 1, j)' /\ j \in 1 .. i - 1
        BY <2>9, <4>1
      <4>3. log'[i].kind = "ResidualDeltaReclaimed" /\ log'[i].left = 0
        BY <2>3, <3>1, <4>1
      <4> QED  BY <4>2, <4>3 DEF Follows
    <3>3. EndsAtVault(c)'
      <4>1. LastOf(c, 1 .. Len(log), Len(log))'
        BY <1>3, <2>3, <3>1 DEF LastOf
      <4>2. Len(log') \in 1 .. Len(log') /\ avail'[c] = log'[Len(log')].left
        BY <1>3, <2>3, <2>8, <3>1
      <4> QED  BY <4>1, <4>2 DEF EndsAtVault
    <3> QED  BY <1>1, <2>7, <3>2, <3>3, EmitKeepsExact
  <2>11. CASE amount # 0
    <3>1. Len(log') = n + 2 /\ log'[n + 1] = x /\ log'[n + 2] = y
      BY <2>5, <2>8, <2>11
    <3>2. ASSUME NEW i \in 1 .. Len(log'), i > Len(log) PROVE Follows(c, i)'
      <4>1. CASE i = n + 1
        <5>1. i - 1 = Len(log)
          BY <1>3, <4>1
        <5>2. LastOf(c, 1 .. i - 1, j)' /\ j \in 1 .. i - 1
          BY <2>9, <5>1
        <5>3. /\ log'[i].kind = "SettlementFlushed"
              /\ log'[i].left = log'[j].left - log'[i].amount
          BY <2>2, <2>3, <2>8, <2>9, <3>1, <4>1
        <5> QED  BY <5>2, <5>3 DEF Follows
      <4>2. CASE i = n + 2
        <5>1. i - 1 = n + 1 /\ i - 1 \in Nat /\ i - 1 > 0
          BY <1>3, <4>2
        <5>2. LastOf(c, 1 .. i - 1, i - 1)' /\ i - 1 \in 1 .. i - 1
          BY <2>3, <3>1, <5>1, LastOfLog
        <5>3. log'[i].kind = "ResidualDeltaReclaimed" /\ log'[i].left = 0
          BY <2>3, <3>1, <4>2
        <5> QED  BY <5>2, <5>3 DEF Follows
      <4> QED  BY <1>3, <3>1, <3>2, <4>1, <4>2
    <3>3. EndsAtVault(c)'
      <4>1. LastOf(c, 1 .. Len(log), Len(log))'
        <5>1. Len(log') = n + 2 /\ n \in Nat /\ log'[Len(log')].card = c
          BY <1>3, <2>3, <3>1
        <5>2. Len(log') \in 1 .. Len(log')
          BY <5>1
        <5> HIDE DEF n
        <5> QED  BY <5>1, <5>2 DEF LastOf
      <4>2. avail'[c] = 0 /\ Len(log') = n + 2 /\ n \in Nat
        BY <1>3, <2>8, <3>1
      <4>3. log'[Len(log')].left = 0
        BY <2>3, <3>1, <4>2
      <4>4. Len(log') \in 1 .. Len(log')
        BY <4>2
      <4> QED  BY <4>1, <4>2, <4>3, <4>4 DEF EndsAtVault
    <3> QED  BY <1>1, <2>7, <3>2, <3>3, EmitKeepsExact
  <2> QED  BY <2>10, <2>11
<1> QED  BY <1>2, <1>5, <1>6, <1>7

(* An event is applied: the row it is applied to shows the event before    *)
(* it, and afterwards the row shows the event.                             *)
LEMMA ApplyKeepsExact ==
  ASSUME IInv, RowInv, ExactInv, NEW t \in Ticks,
         Upsert(t) \/ ReadBalance(t) \/ WriteBalance(t) \/ WriteReclaim(t)
  PROVE  ExactInv'
<1> DEFINE i == tick[t].next
           x == Event(t)
           c == x.card
<1>1. tick[t].at \in {"applying", "updating"}
  BY DEF Upsert, ReadBalance, WriteBalance, WriteReclaim, Applying
<1>2. /\ i \in events /\ i \in 1 .. Len(log) /\ x = log[i]
      /\ x \in EventType /\ InHand(t) = {c}
  BY <1>1, HeldTyped DEF Event
<1>3. c \in Cards /\ x.amount \in Nat /\ x.left \in Nat
  BY <1>2 DEF EventType
<1>4. /\ tick \in [Ticks -> TickType] /\ tick[t] \in TickType
      /\ rows \in [Cards -> [status : {"None", "Active", "Terminated"}, available : Nat]]
  BY Typed
<1>5. PICK done : Done(t) = [tick EXCEPT ![t] = done] /\ done.at = "ingesting"
  BY DoneRecord
<1>6. UNCHANGED <<log, phase, avail, events, torn, raced>>
  BY DEF Upsert, ReadBalance, WriteBalance, WriteReclaim, chainVars, history
<1> DEFINE reading == [tick[t] EXCEPT !.at = "updating", !.read = rows[c].available]
<1>7. reading.at = "updating" /\ reading.next = i /\ reading.read = rows[c].available
  BY <1>4 DEF TickType
<1>8. \/ tick' = [tick EXCEPT ![t] = done]
      \/ ReadBalance(t) /\ rows[c] # NoRow /\ tick' = [tick EXCEPT ![t] = reading]
  <2>1. CASE ReadBalance(t)
    BY <1>4, <1>5, <2>1 DEF ReadBalance
  <2>2. CASE Upsert(t) \/ WriteBalance(t) \/ WriteReclaim(t)
    BY <1>5, <2>2 DEF Upsert, WriteBalance, WriteReclaim
  <2> QED  BY <2>1, <2>2
<1> HIDE DEF reading
<1>9. \E new : tick' = [tick EXCEPT ![t] = new] /\ InHand(t)' \subseteq {c}
  <2>1. CASE tick' = [tick EXCEPT ![t] = done]
    <3>1. tick'[t].at = "ingesting"
      BY <1>4, <1>5, <2>1
    <3> QED  BY <2>1, <3>1 DEF InHand
  <2>2. CASE tick' = [tick EXCEPT ![t] = reading]
    <3>1. tick'[t].next = i
      BY <1>4, <1>7, <2>2
    <3>2. log'[tick'[t].next].card = c
      BY <1>2, <1>6, <3>1
    <3> QED  BY <2>2, <3>2 DEF InHand
  <2> QED  BY <1>8, <2>1, <2>2
<1>10. \A b \in Cards : b # c => rows'[b] = rows[b]
  BY <1>4 DEF Upsert, ReadBalance, WriteBalance, WriteReclaim
<1>11. ASSUME NEW b \in Cards \ (torn' \cup raced'), b # c PROVE Tracks(b)'
  <2>1. Tracks(b) /\ rows'[b] = rows[b]
    BY <1>6, <1>10, <1>11 DEF ExactInv
  <2>2. PICK new : tick' = [tick EXCEPT ![t] = new] /\ InHand(t)' \subseteq {c}
    BY <1>9
  <2> QED  BY <1>2, <1>4, <1>6, <1>11, <2>1, <2>2, OthersTrack
<1>12. ASSUME NEW b \in Cards \ (torn' \cup raced'), b = c PROVE Tracks(b)'
  <2>1. Tracks(b) /\ b \in InHand(t)
    BY <1>2, <1>6, <1>12 DEF ExactInv
  <2>2. /\ \A u \in Ticks : b \in InHand(u) <=> u = t
        /\ LastOf(b, events, i) /\ RowShows(b, events \ {i})
        /\ tick[t].at = "updating" => tick[t].read = rows[b].available
    BY <2>1 DEF Tracks
  <2>3. Follows(b, i)
    BY <1>2, <1>12 DEF ExactInv, Chained
  <2>4. CASE tick' = [tick EXCEPT ![t] = done]
    <3>1. \A u \in Ticks : u # t => tick'[u] = tick[u]
      BY <1>4, <2>4
    <3>2. b \notin InHand(t)'
      <4>1. tick'[t].at = "ingesting"
        BY <1>4, <1>5, <2>4
      <4> QED  BY <4>1 DEF InHand
    <3>3. rows'[b] = Shown(i)
      <4>1. CASE Upsert(t)
        <5>1. x.kind = "PaycardProvisioned" /\ rows'[b] = ProvisionedRow(x)
          BY <1>4, <1>12, <4>1 DEF Upsert, Applying
        <5>2. x.left = x.amount /\ x.left > 0
          BY <1>2, <2>3, <5>1 DEF Follows
        <5> QED  BY <1>2, <1>3, <5>1, <5>2 DEF ProvisionedRow, Shown
      <4>2. ASSUME x.kind # "PaycardProvisioned"
            PROVE  \E j \in 1 .. i - 1 :
                     /\ rows[b] = Shown(j) /\ rows[b] # NoRow
                     /\ \/ x.kind = "SettlementFlushed" /\ x.left = log[j].left - x.amount
                        \/ x.kind = "ResidualDeltaReclaimed" /\ x.left = 0
        <5>1. PICK j \in 1 .. i - 1 :
                /\ LastOf(b, 1 .. i - 1, j)
                /\ \/ x.kind = "SettlementFlushed" /\ x.left = log[j].left - x.amount
                   \/ x.kind = "ResidualDeltaReclaimed" /\ x.left = 0
          BY <1>2, <2>3, <4>2 DEF Follows
        <5>2. rows[b] = Shown(j)
          BY <2>2, <5>1, RowBefore
        <5>3. rows[b] # NoRow
          BY <5>2 DEF Shown, NoRow
        <5> QED  BY <5>1, <5>2, <5>3
      <4>3. CASE ReadBalance(t)
        <5>1. x.kind = "SettlementFlushed" /\ rows[b] # NoRow
          BY <1>12, <4>2, <4>3 DEF ReadBalance, Applying
        <5>2. tick'[t].at = "updating"
          BY <1>4, <1>12, <4>3, <5>1 DEF ReadBalance, TickType
        <5> QED  BY <1>4, <1>5, <2>4, <5>2
      <4>4. CASE WriteBalance(t)
        <5>1. /\ tick[t].read = rows[b].available
              /\ rows'[b] = SettledRow(tick[t].read, x.amount)
          BY <1>4, <1>12, <2>2, <4>4 DEF WriteBalance
        <5>2. x.kind = "SettlementFlushed"
          BY <4>4 DEF WriteBalance, RowInv, AppliedOnce
        <5>3. PICK j \in 1 .. i - 1 :
                rows[b] = Shown(j) /\ x.left = log[j].left - x.amount
          BY <4>2, <5>2
        <5>4. rows[b].available = log[j].left /\ log[j].left \in Nat
          BY <1>4, <5>3 DEF Shown
        <5>5. tick[t].read - x.amount = x.left /\ tick[t].read \in Nat
          BY <5>1, <5>3, <5>4
        <5>6. Max({tick[t].read - x.amount, 0}) = x.left
          <6>1. Max({x.left, 0}) = x.left
            BY <1>3, MaxPair
          <6> QED  BY <5>5, <6>1
        <5>7. rows'[b] = [ status |-> IF x.left > 0 THEN "Active" ELSE "Terminated",
                           available |-> x.left ]
          <6>1. tick[t].read > x.amount <=> x.left > 0
            BY <1>3, <5>5
          <6> QED  BY <5>1, <5>6, <6>1 DEF SettledRow
        <5>8. Shown(i) = [ status |-> IF x.left = 0 THEN "Terminated" ELSE "Active",
                           available |-> x.left ]
          BY <1>2 DEF Shown
        <5>9. x.left > 0 <=> ~(x.left = 0)
          BY <1>3
        <5> QED  BY <5>7, <5>8, <5>9
      <4>5. CASE WriteReclaim(t)
        <5>1. x.kind = "ResidualDeltaReclaimed"
          BY <4>5 DEF WriteReclaim, Applying
        <5>2. rows[b] # NoRow /\ x.left = 0
          BY <4>2, <5>1
        <5>3. rows'[b] = [status |-> "Terminated", available |-> 0]
          BY <1>4, <1>12, <4>5, <5>2 DEF WriteReclaim
        <5> QED  BY <1>2, <5>2, <5>3 DEF Shown
      <4> QED  BY <4>1, <4>3, <4>4, <4>5
    <3> QED  BY <1>6, <2>1, <3>1, <3>2, <3>3, TracksReleased
  <2>5. CASE ReadBalance(t) /\ tick' = [tick EXCEPT ![t] = reading]
    <3>1. rows' = rows
      BY <2>5 DEF ReadBalance
    <3>2. tick'[t] = reading /\ \A u \in Ticks : u # t => tick'[u] = tick[u]
      BY <1>4, <2>5
    <3>3. \A u \in Ticks : b \in InHand(u)' <=> u = t
      <4>1. \A u \in Ticks : u # t => InHand(u)' = InHand(u)
        BY <1>6, <3>2 DEF InHand
      <4>2. b \in InHand(t)'
        BY <1>2, <1>6, <1>7, <1>12, <3>2 DEF InHand
      <4> QED  BY <2>2, <4>1, <4>2
    <3>4. tick'[t].next = tick[t].next
      BY <1>7, <3>2
    <3>5. LastOf(b, events, tick[t].next)'
      BY <1>6, <2>2, <3>4 DEF LastOf
    <3>6. RowShows(b, events \ {tick[t].next})'
      <4> DEFINE S == events \ {tick[t].next}
      <4>1. S' = S /\ RowShows(b, S)
        BY <1>6, <2>2, <3>4
      <4> HIDE DEF S
      <4>2. RowShows(b, S)'
        BY <1>6, <3>1, <4>1 DEF RowShows, LastOf, Shown, NoRow
      <4> QED  BY <4>2 DEF S
    <3>7. tick'[t].read = rows'[b].available
      BY <1>7, <1>12, <3>1, <3>2
    <3> QED  BY <3>3, <3>5, <3>6, <3>7 DEF Tracks
  <2> QED  BY <1>8, <2>4, <2>5
<1>13. \A b \in Cards : Chained(b)'
  BY <1>6 DEF ExactInv, Chained, Follows, EndsAtVault, LastOf
<1> QED  BY <1>11, <1>12, <1>13 DEF ExactInv

(* A tick that fails with an event in hand leaves its card torn.           *)
LEMMA FailKeepsExact ==
  ASSUME IInv, ExactInv, NEW t \in Ticks, FailTick(t)
  PROVE  ExactInv'
<1>1. CASE tick[t].at \notin {"applying", "updating"}
  BY <1>1, ScanKeepsExact
<1>2. CASE tick[t].at \in {"applying", "updating"}
  <2> DEFINE c == Event(t).card
  <2>1. InHand(t) = {c} /\ torn' = torn \cup {c}
    BY <1>2, HeldTyped DEF FailTick
  <2>2. /\ UNCHANGED <<log, phase, avail, events, rows, raced>>
        /\ tick' = [tick EXCEPT ![t] = NoTick] /\ tick \in [Ticks -> TickType]
    BY Typed DEF FailTick, chainVars
  <2>3. InHand(t)' = {}
    BY <2>2 DEF InHand, NoTick
  <2> HIDE DEF c
  <2>4. ASSUME NEW b \in Cards \ (torn' \cup raced') PROVE Tracks(b)'
    <3>1. Tracks(b) /\ b # c
      BY <2>1, <2>2, <2>4 DEF ExactInv
    <3> QED  BY <2>1, <2>2, <2>3, <3>1, OthersTrack
  <2>5. \A b \in Cards : Chained(b)'
    BY <2>2 DEF ExactInv, Chained, Follows, EndsAtVault, LastOf
  <2> QED  BY <2>4, <2>5 DEF ExactInv
<1> QED  BY <1>1, <1>2

(* At first the log is empty and no card has a row.                        *)
LEMMA InitExact == Init => ExactInv
<1> SUFFICES ASSUME Init PROVE ExactInv
  OBVIOUS
<1>1. /\ Len(log) = 0 /\ events = {} /\ \A c \in Cards : rows[c] = NoRow /\ phase[c] = "none"
      /\ \A t \in Ticks : InHand(t) = {}
  BY DEF Init, Vault!Init, InHand, NoTick
<1>2. \A c \in Cards : Tracks(c)
  BY <1>1 DEF Tracks, RowShows
<1>3. \A c \in Cards : Chained(c)
  BY <1>1 DEF Chained, EndsAtVault
<1> QED  BY <1>2, <1>3 DEF ExactInv

(* Every step keeps the rows exact.                                        *)
LEMMA StepExact == IInv /\ RowInv /\ ExactInv /\ [Next]_vars => ExactInv'
<1> SUFFICES ASSUME IInv, RowInv, ExactInv, [Next]_vars PROVE ExactInv'
  OBVIOUS
<1>1. CASE VaultStep
  BY <1>1, VaultKeepsExact
<1>2. ASSUME NEW t \in Ticks, RunTick(t) PROVE ExactInv'
  <2>1. CASE StartTick(t) \/ ReadCursor(t) \/ AdvanceCursor(t)
    BY <2>1, ScanKeepsExact
  <2>2. CASE InsertEvent(t)
    BY <2>2, ScanKeepsExact, InsertKeepsExact
  <2>3. CASE Upsert(t) \/ ReadBalance(t) \/ WriteBalance(t) \/ WriteReclaim(t)
    BY <2>3, ApplyKeepsExact
  <2> QED  BY <1>2, <2>1, <2>2, <2>3 DEF RunTick
<1>3. ASSUME NEW t \in Ticks, FailTick(t) PROVE ExactInv'
  BY <1>3, FailKeepsExact
<1>4. CASE UNCHANGED vars
  BY <1>4 DEF vars, chainVars, history, ExactInv, Chained, Follows, EndsAtVault,
              LastOf, Tracks, InHand, RowShows, Shown, NoRow
<1> QED  BY <1>1, <1>2, <1>3, <1>4 DEF Next

(* The row of a card is what its last inserted event left, while none of   *)
(* its events is in hand, none was lost with its tick and no two ticks met *)
(* on the card (runTick).                                                  *)
THEOREM RowsAreExact == Spec => []RowsExact
<1>1. Init => IInv /\ RowInv /\ ExactInv
  BY InitIInv, InitRowInv, InitExact
<1>2. IInv /\ RowInv /\ ExactInv /\ [Next]_vars => (IInv /\ RowInv /\ ExactInv)'
  BY StepIInv, StepRowInv, StepExact
<1>3. IInv /\ ExactInv => RowsExact
  <2> SUFFICES ASSUME IInv, ExactInv,
                      NEW c \in Cards \ (torn \cup raced),
                      \A t \in Ticks : c \notin InHand(t)
               PROVE  IF \E i \in events : log[i].card = c
                      THEN /\ rows[c].available = log[LastInserted(c)].left
                           /\ rows[c].status = "Terminated" <=> rows[c].available = 0
                      ELSE rows[c] = NoRow
    BY DEF RowsExact
  <2>1. RowShows(c, events)
    BY DEF ExactInv, Tracks
  <2>2. ASSUME NEW i \in events, LastOf(c, events, i), rows[c] = Shown(i)
        PROVE  /\ rows[c].available = log[LastInserted(c)].left
               /\ rows[c].status = "Terminated" <=> rows[c].available = 0
    <3> DEFINE S == {j \in events : log[j].card = c}
    <3>1. i \in S /\ \A j \in S : i >= j
      <4>1. events \subseteq Int
        BY InsertedTyped
      <4> QED  BY <2>2, <4>1 DEF LastOf
    <3>2. \A m \in S : (\A j \in S : m >= j) => m = i
      <4>1. S \subseteq Int
        BY InsertedTyped
      <4> HIDE DEF S
      <4> QED  BY <3>1, <4>1
    <3> HIDE DEF S
    <3>3. Max(S) = i
      BY <3>1, <3>2 DEF Max
    <3>4. LastInserted(c) = i
      BY <3>3 DEF LastInserted, S
    <3> QED  BY <2>2, <3>4 DEF Shown
  <2>3. (\E i \in events : LastOf(c, events, i)) => \E i \in events : log[i].card = c
    BY DEF LastOf
  <2> QED  BY <2>1, <2>2, <2>3 DEF RowShows
<1> QED  BY <1>1, <1>2, <1>3, PTL DEF Spec
===============================================================================
