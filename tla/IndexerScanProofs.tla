-------------------------- MODULE IndexerScanProofs ---------------------------
(* Proofs about IndexerScan: no block behind a cursor is left out.         *)
EXTENDS IndexerScan, FiniteSetTheorems, TLAPS

(* The chain: a deployment lies at or below the head.                      *)
ChainInv ==
  /\ head \in Nat
  /\ deployed \in [Clones -> Nat]
  /\ \A v \in Clones : deployed[v] <= head

(* Only deployed clones are watched.                                       *)
Deployed(rows) ==
  /\ rows \in Seq(Scans \ {Factory})
  /\ \A i \in 1 .. Len(rows) : rows[i] \in Clones => deployed[rows[i]] # 0

(* A cursor lies at or below the head, and a clone's is of a deployed one. *)
CursorInv ==
  /\ cursor \in [Scans -> Nat \cup {NoCursor}]
  /\ \A k \in Scans : cursor[k] <= head
  /\ \A k \in Clones : cursor[k] # NoCursor => deployed[k] # 0
  /\ fetched \in [Scans -> SUBSET Int]
  /\ floor \in [Scans -> Int]

(* Where the current chunk of scan k begins: at the start of the scan, or  *)
(* with no gap to the cursor.                                              *)
Adjoins(k) ==
  /\ tick.from \in Nat
  /\ IF cursor[k] = NoCursor THEN tick.from = DefaultStart(k)
     ELSE tick.from <= cursor[k] + 1

(* The chunk of scan k has been ingested, discoveries included.            *)
Ingested(k) ==
  /\ tick.from <= tick.head
  /\ tick.from .. ChunkEnd \subseteq fetched[k]
  /\ k = Factory => \A v \in Clones :
       deployed[v] # 0 /\ deployed[v] \in tick.from .. ChunkEnd =>
         v \in ToSet(watched)

TickRecord ==
  [ at : {"idle", "opening", "fetching", "fetched"}, head : Nat, used : Nat,
    todo : Seq(Scans), from : Int ]

TickInv ==
  /\ tick \in TickRecord
  /\ tick.head <= head
  /\ \A i \in 1 .. Len(tick.todo) :
       tick.todo[i] \in Clones => deployed[tick.todo[i]] # 0
  /\ tick.at \in {"fetching", "fetched"} =>
       tick.todo # <<>> /\ Adjoins(Head(tick.todo))
  /\ tick.at = "fetched" => Ingested(Head(tick.todo))

ScanInv == ChainInv /\ Deployed(watched) /\ CursorInv /\ TickInv /\ NoGapBehindCursor

-------------------------------------------------------------------------------
(* The last block of a chunk.                                              *)
LEMMA ChunkEndBounds ==
  ASSUME TickInv, tick.from \in Nat
  PROVE  /\ ChunkEnd \in Int /\ ChunkEnd <= tick.head
         /\ tick.from <= tick.head => ChunkEnd >= tick.from
<1> DEFINE a == tick.from + Window - 1
           b == tick.head
<1>1. a \in Int /\ b \in Int /\ a >= tick.from
  BY ScanAssumption DEF TickRecord, TickInv
<1>2. \E x \in {a, b} : \A y \in {a, b} : x =< y
  <2>1. CASE a <= b BY <1>1, <2>1
  <2>2. CASE b <= a BY <1>1, <2>2
  <2> QED BY <1>1, <2>1, <2>2
<1>3. ChunkEnd \in {a, b} /\ \A y \in {a, b} : ChunkEnd =< y
  BY <1>2 DEF ChunkEnd, Min
<1> QED BY <1>1, <1>3 DEF TickRecord, TickInv

LEMMA BackfillNat == ASSUME TickInv PROVE BackfillStart \in Nat
<1> DEFINE b == tick.head - Backfill
<1>1. b \in Int BY ScanAssumption DEF TickRecord, TickInv
<1>2. \E x \in {0, b} : \A y \in {0, b} : x >= y
  <2>1. CASE b <= 0 BY <1>1, <2>1
  <2>2. CASE b >= 0 BY <1>1, <2>2
  <2> QED BY <1>1, <2>1, <2>2
<1>3. BackfillStart \in {0, b} /\ \A y \in {0, b} : BackfillStart >= y
  BY <1>2 DEF BackfillStart, Max
<1> QED BY <1>1, <1>3

(* SetToSeq lists the elements of a finite set.                            *)
LEMMA SetToSeqLists ==
  ASSUME NEW S, IsFiniteSet(S)
  PROVE  SetToSeq(S) \in Seq(S) /\ ToSet(SetToSeq(S)) = S
<1> DEFINE n == Cardinality(S)
           f == SetToSeq(S)
<1>1. n \in Nat /\ ExistsBijection(1 .. n, S)
  BY FS_CardinalityType
<1>2. PICK g \in [1 .. n -> S] : IsInjective(g)
  BY <1>1 DEF ExistsBijection, Bijection, Injection, IsInjective
<1>3. f \in [1 .. n -> S] /\ IsInjective(f)
  BY <1>2 DEF SetToSeq
<1>4. f \in Injection(1 .. n, S)
  BY <1>3 DEF Injection, IsInjective
<1>5. Cardinality(1 .. n) = n
  BY <1>1, FS_Interval
<1>6. f \in Surjection(1 .. n, S)
  <2> HIDE DEF f
  <2> QED BY <1>4, <1>5, FS_Injection
<1> HIDE DEF f
<1>7. f \in Seq(S) BY <1>1, <1>3
<1>8. ToSet(f) = S
  BY <1>1, <1>3, <1>6 DEF ToSet, Surjection
<1> QED BY <1>7, <1>8 DEF f

(* INSERT OR IGNORE keeps the rows and adds what is new.                   *)
LEMMA WatchAdds ==
  ASSUME NEW T, NEW rows \in Seq(T), NEW new \in SUBSET T, IsFiniteSet(new)
  PROVE  /\ Watch(rows, new) \in Seq(T)
         /\ ToSet(Watch(rows, new)) = ToSet(rows) \cup new
<1> DEFINE add == SetToSeq(new \ ToSet(rows))
<1>1. IsFiniteSet(new \ ToSet(rows)) BY FS_Subset
<1>2. add \in Seq(new \ ToSet(rows)) /\ ToSet(add) = new \ ToSet(rows)
  BY <1>1, SetToSeqLists
<1> HIDE DEF add
<1>3. add \in Seq(T) BY <1>2
<1>4. rows \o add \in Seq(T) BY <1>3
<1>5. ToSet(rows \o add) = ToSet(rows) \cup ToSet(add)
  <2>1. ASSUME NEW i \in DOMAIN rows PROVE rows[i] \in ToSet(rows \o add)
    BY <1>3, <2>1 DEF ToSet
  <2>2. ASSUME NEW i \in DOMAIN add PROVE add[i] \in ToSet(rows \o add)
    <3>1. Len(rows) + i \in DOMAIN (rows \o add) /\ (rows \o add)[Len(rows) + i] = add[i]
      BY <1>3, <2>2
    <3> QED BY <3>1 DEF ToSet
  <2>3. ASSUME NEW i \in DOMAIN (rows \o add)
        PROVE (rows \o add)[i] \in ToSet(rows) \cup ToSet(add)
    <3>1. CASE i <= Len(rows) BY <1>3, <2>3, <3>1 DEF ToSet
    <3>2. CASE i > Len(rows)
      <4>1. i - Len(rows) \in DOMAIN add /\ (rows \o add)[i] = add[i - Len(rows)]
        BY <1>3, <2>3, <3>2
      <4> QED BY <4>1 DEF ToSet
    <3> QED BY <1>3, <2>3, <3>1, <3>2
  <2> QED BY <2>1, <2>2, <2>3 DEF ToSet
<1> QED BY <1>2, <1>4, <1>5 DEF Watch, add

-------------------------------------------------------------------------------
(* A block changes no deployment that there is, and deploys above the      *)
(* heads that any cursor or tick knows.                                    *)
LEMMA NewBlockKeeps == ASSUME ScanInv, NewBlock PROVE ScanInv'
<1> USE DEF ScanInv
<1>1. head' = head + 1 /\ UNCHANGED <<watched, cursor, tick, fetched, floor>>
  BY DEF NewBlock
<1>2. deployed' \in [Clones -> Nat]
      /\ \A v \in Clones : IF deployed[v] # 0 THEN deployed'[v] = deployed[v]
                           ELSE deployed'[v] \in {0, head + 1}
  BY DEF NewBlock, ChainInv
<1>3. ChainInv'
  BY <1>1, <1>2 DEF ChainInv
<1>4. Deployed(watched)'
  BY <1>1, <1>2 DEF Deployed
<1>5. CursorInv'
  BY <1>1, <1>2 DEF CursorInv, ChainInv, NoCursor, Scans
<1>6. NoGapBehindCursor'
  <2> SUFFICES ASSUME NEW k \in Scans, cursor[k] # NoCursor
               PROVE  /\ floor[k] .. cursor[k] \subseteq fetched[k]
                      /\ k \in Clones => floor[k] = deployed'[k]
                      /\ k = Factory => \A v \in Clones :
                           deployed'[v] # 0 /\ deployed'[v] \in floor[k] .. cursor[k] =>
                             v \in ToSet(watched)
    BY <1>1 DEF NoGapBehindCursor
  <2>1. k \in Clones => floor[k] = deployed'[k]
    BY <1>1, <1>2 DEF NoGapBehindCursor, ChainInv, CursorInv, NoCursor
  <2>2. ASSUME NEW v \in Clones, deployed'[v] # 0, deployed'[v] \in floor[k] .. cursor[k]
        PROVE  deployed[v] = deployed'[v]
    BY <1>2, <2>2 DEF CursorInv, ChainInv, NoCursor
  <2> QED BY <2>1, <2>2 DEF NoGapBehindCursor
<1>7. TickInv'
  <2>1. ChunkEnd' = ChunkEnd /\ BackfillStart' = BackfillStart
    BY <1>1 DEF ChunkEnd, BackfillStart
  <2>2. \A i \in 1 .. Len(tick.todo) :
          tick.todo[i] \in Clones => deployed'[tick.todo[i]] # 0
    BY <1>2 DEF TickRecord, TickInv, ChainInv
  <2>3. ASSUME tick.at \in {"fetching", "fetched"}
        PROVE  Adjoins(Head(tick.todo))'
    <3>1. tick.todo # <<>> /\ tick.todo \in Seq(Scans) /\ Adjoins(Head(tick.todo))
      BY <2>3 DEF TickRecord, TickInv
    <3>2. Head(tick.todo) \in Clones => deployed'[Head(tick.todo)] = deployed[Head(tick.todo)]
      BY <1>2, <3>1 DEF TickRecord, TickInv, ChainInv
    <3> QED BY <1>1, <2>1, <3>1, <3>2 DEF Adjoins, DefaultStart
  <2>4. ASSUME tick.at = "fetched" PROVE Ingested(Head(tick.todo))'
    <3>1. Ingested(Head(tick.todo)) /\ tick.from \in Nat
      BY <2>4 DEF TickRecord, TickInv, Adjoins
    <3>2. ChunkEnd \in Int /\ ChunkEnd <= tick.head
      BY <3>1, ChunkEndBounds
    <3>3. ASSUME NEW v \in Clones, deployed'[v] # 0,
                 deployed'[v] \in tick.from .. ChunkEnd
          PROVE  deployed[v] = deployed'[v]
      BY <1>2, <3>1, <3>2, <3>3 DEF TickRecord, TickInv, ChainInv
    <3> QED BY <1>1, <2>1, <3>1, <3>3 DEF Ingested
  <2> QED BY <1>1, <2>2, <2>3, <2>4 DEF TickRecord, TickInv, ChainInv
<1> QED BY <1>3, <1>4, <1>5, <1>6, <1>7

(* Neither starting a tick nor ending one touches a cursor.                *)
LEMMA StartTickKeeps == ASSUME ScanInv, StartTick PROVE ScanInv'
<1> USE DEF ScanInv
<1>1. UNCHANGED <<head, deployed, cursor, fetched, floor>>
  BY DEF StartTick, chainVars
<1>2. Deployed(watched)' /\ ToSet(watched) \subseteq ToSet(watched')
  <2>1. Canonical \in Scans \ {Factory}
    BY ScanAssumption DEF Scans
  <2>2. /\ watched' \in Seq(Scans \ {Factory})
        /\ ToSet(watched') = ToSet(watched) \cup {Canonical}
    <3> DEFINE vaults == Scans \ {Factory}
               added == {Canonical}
    <3>1. watched' = Watch(watched, added) BY DEF StartTick
    <3>2. added \in SUBSET vaults BY <2>1
    <3>3. IsFiniteSet(added) BY FS_Singleton
    <3>4. watched \in Seq(vaults) BY DEF Deployed
    <3> HIDE DEF vaults, added
    <3>5. watched' \in Seq(vaults) /\ ToSet(watched') = ToSet(watched) \cup added
      BY <3>1, <3>2, <3>3, <3>4, WatchAdds
    <3> QED BY <3>5 DEF vaults, added
  <2>3. ASSUME NEW i \in 1 .. Len(watched'), watched'[i] \in Clones
        PROVE  deployed[watched'[i]] # 0
    <3>1. watched'[i] \in ToSet(watched') BY <2>2, <2>3 DEF ToSet
    <3>2. watched'[i] \in ToSet(watched) BY <2>2, <2>3, <3>1, ScanAssumption
    <3> QED BY <2>3, <3>2 DEF Deployed, ToSet
  <2> QED BY <1>1, <2>2, <2>3 DEF Deployed
<1>3. NoGapBehindCursor'
  BY <1>1, <1>2 DEF NoGapBehindCursor
<1>4. TickInv'
  <2> DEFINE opening == [NoTick EXCEPT !.at = "opening"]
             dated   == [opening EXCEPT !.head = head]
  <2>1. opening \in TickRecord /\ opening.at = "opening"
    <3>1. NoTick \in TickRecord BY DEF NoTick, TickRecord
    <3> HIDE DEF NoTick
    <3> QED BY <3>1 DEF TickRecord
  <2>2. dated \in TickRecord /\ dated.at = "opening" /\ dated.head = head
    <3> HIDE DEF opening
    <3> QED BY <2>1 DEF TickRecord, ChainInv
  <2>3. tick' = [dated EXCEPT !.todo = <<Factory>>]
    BY DEF StartTick
  <2>4. <<Factory>> \in Seq(Scans) BY DEF Scans
  <2>5. /\ tick' \in TickRecord /\ tick'.at = "opening" /\ tick'.head = head
        /\ tick'.todo = <<Factory>>
    <3> HIDE DEF dated
    <3> QED BY <2>2, <2>3, <2>4 DEF TickRecord
  <2> QED BY <1>1, <2>5, ScanAssumption DEF TickInv, ChainInv
<1>5. ChainInv' /\ CursorInv'
  BY <1>1 DEF ChainInv, CursorInv
<1> QED BY <1>2, <1>3, <1>4, <1>5

LEMMA IdleKeeps ==
  ASSUME ScanInv, tick' = NoTick,
         UNCHANGED <<chainVars, watched, cursor, fetched, floor>>
  PROVE  ScanInv'
<1> USE DEF ScanInv, chainVars
<1>1. TickInv' BY DEF TickRecord, TickInv, NoTick, ChainInv
<1>2. ChainInv' /\ Deployed(watched)' /\ CursorInv' /\ NoGapBehindCursor'
  BY DEF ChainInv, Deployed, CursorInv, NoGapBehindCursor
<1> QED BY <1>1, <1>2

(* A scan begins at its cursor, or where a scan without one has to.        *)
LEMMA OpenScanKeeps == ASSUME ScanInv, OpenScan PROVE ScanInv'
<1> USE DEF ScanInv
<1>1. CASE tick' = NoTick
  BY <1>1, IdleKeeps DEF OpenScan
<1>2. CASE tick.todo # <<>> /\ tick' = [tick EXCEPT !.at = "fetching",
                                                    !.from = FirstBlock(Head(tick.todo))]
  <2> DEFINE k == Head(tick.todo)
  <2>1. UNCHANGED <<chainVars, watched, cursor, fetched, floor>>
    BY DEF OpenScan
  <2>2. k \in Scans BY <1>2 DEF TickRecord, TickInv
  <2>3. DefaultStart(k) \in Nat
    BY <2>2, BackfillNat DEF DefaultStart, ChainInv
  <2>4. FirstBlock(k) \in Nat
        /\ (cursor[k] = NoCursor => FirstBlock(k) = DefaultStart(k))
        /\ (cursor[k] # NoCursor => FirstBlock(k) <= cursor[k] + 1)
    BY <2>2, <2>3 DEF FirstBlock, CursorInv, NoCursor
  <2> HIDE DEF k
  <2>5. /\ tick' \in TickRecord
        /\ tick'.at = "fetching" /\ tick'.from = FirstBlock(k)
        /\ tick'.todo = tick.todo /\ tick'.head = tick.head
    <3> DEFINE opened == [tick EXCEPT !.at = "fetching"]
    <3>1. /\ opened \in TickRecord /\ opened.at = "fetching"
          /\ opened.todo = tick.todo /\ opened.head = tick.head
      BY DEF TickInv, TickRecord
    <3>2. tick' = [opened EXCEPT !.from = FirstBlock(k)]
      BY <1>2 DEF k
    <3> HIDE DEF opened
    <3> QED BY <2>4, <3>1, <3>2 DEF TickRecord
  <2>6. k' = k /\ DefaultStart(k)' = DefaultStart(k)
    <3>1. k' = k BY <2>5 DEF k
    <3>2. BackfillStart' = BackfillStart BY <2>5 DEF BackfillStart
    <3> QED BY <2>1, <3>1, <3>2 DEF DefaultStart, chainVars
  <2>7. Adjoins(k)'
    BY <2>1, <2>4, <2>5, <2>6 DEF Adjoins
  <2>8. TickInv'
    BY <1>2, <2>1, <2>5, <2>7 DEF TickInv, chainVars, k
  <2>9. ChainInv' /\ Deployed(watched)' /\ CursorInv' /\ NoGapBehindCursor'
    BY <2>1 DEF chainVars, ChainInv, Deployed, CursorInv, NoGapBehindCursor
  <2> QED BY <2>8, <2>9
<1> QED BY <1>1, <1>2 DEF OpenScan

LEMMA EndScanKeeps == ASSUME ScanInv, EndScan PROVE ScanInv'
<1> USE DEF ScanInv
<1>1. UNCHANGED <<chainVars, watched, cursor, fetched, floor>>
  BY DEF EndScan
<1>2. tick.todo # <<>> /\ tick.todo \in Seq(Scans)
  <2>1. tick.at = "fetching" BY DEF EndScan
  <2> QED BY <2>1 DEF TickInv, TickRecord
<1>3. ScansAfter(tick.todo) \in Seq(Scans)
      /\ \A i \in 1 .. Len(ScansAfter(tick.todo)) :
           ScansAfter(tick.todo)[i] \in Clones => deployed[ScansAfter(tick.todo)[i]] # 0
  <2>1. CASE Head(tick.todo) = Factory
    BY <2>1 DEF ScansAfter, Deployed
  <2>2. CASE Head(tick.todo) # Factory
    BY <1>2, <2>2 DEF ScansAfter, TickInv
  <2> QED BY <2>1, <2>2
<1>4. TickInv'
  <2> DEFINE rest == ScansAfter(tick.todo)
             closing == [tick EXCEPT !.at = "opening"]
  <2>1. closing \in TickRecord /\ closing.at = "opening" /\ closing.head = tick.head
    BY DEF TickInv, TickRecord
  <2>2. tick' = [closing EXCEPT !.todo = rest]
    BY DEF EndScan
  <2>3. /\ tick' \in TickRecord /\ tick'.at = "opening" /\ tick'.head = tick.head
        /\ tick'.todo = rest
    <3> HIDE DEF closing, rest
    <3>1. rest \in Seq(Scans) BY <1>3 DEF rest
    <3> QED BY <2>1, <2>2, <3>1 DEF TickRecord
  <2> QED BY <1>1, <1>3, <2>3 DEF TickInv, chainVars
<1>5. ChainInv' /\ Deployed(watched)' /\ CursorInv' /\ NoGapBehindCursor'
  BY <1>1 DEF chainVars, ChainInv, Deployed, CursorInv, NoGapBehindCursor
<1> QED BY <1>4, <1>5

(* A fetched chunk is ingested before anything else happens.               *)
LEMMA FetchChunkKeeps == ASSUME ScanInv, FetchChunk PROVE ScanInv'
<1> DEFINE k == Head(tick.todo)
           chunk == tick.from .. ChunkEnd
           found == {v \in Clones : deployed[v] # 0 /\ deployed[v] \in chunk}
<1> USE DEF ScanInv
<1>1. /\ UNCHANGED <<chainVars, cursor, floor>>
      /\ tick.at = "fetching" /\ tick.from <= tick.head
      /\ tick' = [tick EXCEPT !.at = "fetched", !.used = @ + 1]
      /\ fetched' = [fetched EXCEPT ![k] = @ \cup chunk]
      /\ watched' = IF k = Factory THEN Watch(watched, found) ELSE watched
  BY DEF FetchChunk
<1>2. tick.todo # <<>> /\ k \in Scans /\ Adjoins(k)
  BY <1>1 DEF TickInv, TickRecord
<1>3. ChunkEnd \in Int
  BY <1>2, ChunkEndBounds DEF Adjoins
<1>4. /\ tick' \in TickRecord /\ tick'.at = "fetched" /\ tick'.todo = tick.todo
      /\ tick'.head = tick.head /\ tick'.from = tick.from
  <2> DEFINE done == [tick EXCEPT !.at = "fetched"]
  <2>1. /\ done \in TickRecord /\ done.at = "fetched" /\ done.todo = tick.todo
        /\ done.head = tick.head /\ done.from = tick.from /\ done.used = tick.used
    BY DEF TickInv, TickRecord
  <2>2. tick' = [done EXCEPT !.used = tick.used + 1]
    BY <1>1
  <2> HIDE DEF done
  <2> QED BY <2>1, <2>2 DEF TickRecord
<1>5. /\ k' = k /\ ChunkEnd' = ChunkEnd /\ BackfillStart' = BackfillStart
  BY <1>4 DEF ChunkEnd, BackfillStart
<1>6. fetched' \in [Scans -> SUBSET Int] /\ chunk \subseteq fetched'[k]
      /\ \A j \in Scans : fetched[j] \subseteq fetched'[j]
  <2>1. chunk \subseteq Int BY <1>2, <1>3 DEF Adjoins
  <2> HIDE DEF k, chunk
  <2> QED BY <1>1, <1>2, <2>1 DEF CursorInv
<1>7. /\ Deployed(watched)' /\ ToSet(watched) \subseteq ToSet(watched')
      /\ k = Factory => found \subseteq ToSet(watched')
  <2>1. CASE k # Factory
    BY <1>1, <2>1 DEF Deployed, chainVars
  <2>2. CASE k = Factory
    <3> DEFINE vaults == Scans \ {Factory}
    <3>1. watched' = Watch(watched, found) BY <1>1, <2>2
    <3>2. found \in SUBSET vaults BY ScanAssumption DEF Scans
    <3>3. IsFiniteSet(found)
      <4>1. found \in SUBSET Clones OBVIOUS
      <4> HIDE DEF found
      <4> QED BY <4>1, ScanAssumption, FS_Subset
    <3>4. watched \in Seq(vaults) BY DEF Deployed
    <3> HIDE DEF vaults, found
    <3>5. watched' \in Seq(vaults) /\ ToSet(watched') = ToSet(watched) \cup found
      BY <3>1, <3>2, <3>3, <3>4, WatchAdds
    <3> USE DEF vaults
    <3>6. ASSUME NEW i \in 1 .. Len(watched'), watched'[i] \in Clones
          PROVE  deployed[watched'[i]] # 0
      <4>1. watched'[i] \in ToSet(watched') BY <3>5, <3>6 DEF ToSet
      <4>2. CASE watched'[i] \in found BY <4>2 DEF found
      <4>3. CASE watched'[i] \in ToSet(watched) BY <3>6, <4>3 DEF Deployed, ToSet
      <4> QED BY <3>5, <4>1, <4>2, <4>3
    <3> QED BY <1>1, <3>5, <3>6 DEF Deployed, chainVars
  <2> QED BY <2>1, <2>2
<1>8. NoGapBehindCursor'
  BY <1>1, <1>6, <1>7 DEF NoGapBehindCursor, chainVars
<1>9. TickInv'
  <2>1. Adjoins(k)'
    BY <1>1, <1>2, <1>4, <1>5 DEF Adjoins, DefaultStart, chainVars
  <2>2. Ingested(k)'
    <3>1. \A v \in found : k = Factory => v \in ToSet(watched')
      BY <1>7
    <3> QED BY <1>1, <1>4, <1>5, <1>6, <3>1 DEF Ingested, chainVars
  <2> QED BY <1>1, <1>2, <1>4, <2>1, <2>2 DEF TickInv, chainVars
<1> QED BY <1>1, <1>6, <1>7, <1>8, <1>9 DEF chainVars, ChainInv, CursorInv

(* The cursor moves to the end of a chunk that adjoins it and was ingested.*)
LEMMA SaveCursorKeeps == ASSUME ScanInv, SaveCursor PROVE ScanInv'
<1> DEFINE k == Head(tick.todo)
<1> USE DEF ScanInv
<1>1. /\ UNCHANGED <<chainVars, watched, fetched>>
      /\ tick.at = "fetched"
      /\ cursor' = [cursor EXCEPT ![k] = ChunkEnd]
      /\ floor' = [floor EXCEPT ![k] = IF cursor[k] = NoCursor THEN tick.from ELSE @]
      /\ tick' = [tick EXCEPT !.at = "fetching", !.from = ChunkEnd + 1]
  BY DEF SaveCursor, CursorAfter
<1>2. /\ tick.todo # <<>> /\ tick.todo \in Seq(Scans) /\ Adjoins(k) /\ Ingested(k)
      /\ tick.head <= head /\ tick.head \in Nat
  BY <1>1 DEF TickInv, TickRecord
<1>3. k \in Scans BY <1>2
<1>4. ChunkEnd \in Nat /\ ChunkEnd <= head /\ ChunkEnd >= tick.from /\ ChunkEnd # NoCursor
  BY <1>2, ChunkEndBounds DEF Adjoins, Ingested, ChainInv, NoCursor
<1>5. k \in Clones => deployed[k] # 0
  BY <1>2 DEF TickInv
<1>6. /\ tick' \in TickRecord /\ tick'.at = "fetching" /\ tick'.todo = tick.todo
      /\ tick'.head = tick.head /\ tick'.from = ChunkEnd + 1
  <2> DEFINE done == [tick EXCEPT !.at = "fetching"]
  <2>1. /\ done \in TickRecord /\ done.at = "fetching" /\ done.todo = tick.todo
        /\ done.head = tick.head
    BY DEF TickInv, TickRecord
  <2>2. tick' = [done EXCEPT !.from = ChunkEnd + 1]
    BY <1>1
  <2> HIDE DEF done
  <2> QED BY <1>4, <2>1, <2>2 DEF TickRecord
<1>7. k' = k BY <1>6
<1> HIDE DEF k
<1>8. cursor'[k] = ChunkEnd /\ floor'[k] = IF cursor[k] = NoCursor THEN tick.from ELSE floor[k]
  BY <1>1, <1>3 DEF CursorInv
<1>9. CursorInv'
  BY <1>1, <1>2, <1>3, <1>4, <1>5 DEF CursorInv, Adjoins, chainVars
<1>10. NoGapBehindCursor'
  <2> SUFFICES ASSUME NEW j \in Scans, cursor'[j] # NoCursor
               PROVE  /\ floor'[j] .. cursor'[j] \subseteq fetched[j]
                      /\ j \in Clones => floor'[j] = deployed[j]
                      /\ j = Factory => \A v \in Clones :
                           deployed[v] # 0 /\ deployed[v] \in floor'[j] .. cursor'[j] =>
                             v \in ToSet(watched)
    BY <1>1 DEF NoGapBehindCursor, chainVars
  <2>1. CASE j # k
    BY <1>1, <2>1 DEF NoGapBehindCursor, CursorInv
  <2>2. CASE j = k /\ cursor[k] = NoCursor
    BY <1>2, <1>8, <2>2 DEF Adjoins, DefaultStart, Ingested
  <2>3. CASE j = k /\ cursor[k] # NoCursor
    <3>1. \A b \in floor[k] .. ChunkEnd :
            b \in floor[k] .. cursor[k] \/ b \in tick.from .. ChunkEnd
      BY <1>2, <1>3, <1>4, <2>3 DEF Adjoins, CursorInv, NoCursor
    <3> QED BY <1>2, <1>3, <1>8, <2>3, <3>1 DEF NoGapBehindCursor, Ingested
  <2> QED BY <2>1, <2>2, <2>3
<1>11. TickInv'
  <2>1. Adjoins(k)'
    BY <1>4, <1>6, <1>7, <1>8 DEF Adjoins
  <2> QED BY <1>1, <1>2, <1>6, <2>1 DEF TickInv, chainVars, k
<1> QED BY <1>1, <1>9, <1>10, <1>11 DEF chainVars, ChainInv, Deployed

(* For any window, budget and number of clones, whatever ticks fail: no    *)
(* cursor passes a block that was not ingested, nor the factory's a        *)
(* deployment that is not watched (runTick).                               *)
THEOREM CursorsLeaveNoGap == Spec => []NoGapBehindCursor
<1>1. Init => ScanInv
  BY DEF Init, ScanInv, ChainInv, Deployed, CursorInv, TickInv, TickRecord, NoTick,
         NoGapBehindCursor, Scans, NoCursor
<1>2. ScanInv /\ [Next]_vars => ScanInv'
  <2> SUFFICES ASSUME ScanInv, [Next]_vars PROVE ScanInv'
    OBVIOUS
  <2>1. CASE FailTick
    BY <2>1, IdleKeeps DEF FailTick
  <2>2. CASE RunTick
    BY <2>2, StartTickKeeps, OpenScanKeeps, EndScanKeeps, FetchChunkKeeps,
       SaveCursorKeeps DEF RunTick
  <2>3. CASE UNCHANGED vars
    BY <2>3 DEF vars, chainVars, ScanInv, ChainInv, Deployed, CursorInv, TickInv,
                NoGapBehindCursor, Adjoins, Ingested, DefaultStart, BackfillStart, ChunkEnd
  <2> QED BY <2>1, <2>2, <2>3, NewBlockKeeps DEF Next
<1>3. ScanInv => NoGapBehindCursor
  BY DEF ScanInv
<1> QED BY <1>1, <1>2, <1>3, PTL DEF Spec
===============================================================================
