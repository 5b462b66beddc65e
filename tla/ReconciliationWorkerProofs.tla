---------------------- MODULE ReconciliationWorkerProofs ----------------------
(***************************************************************************)
(* Proofs about ReconciliationWorker in its d1 mode: a play is resolved    *)
(* once, and was paid for if it is marked settled, unless it was locked    *)
(* between the drip of another pass and its update.                        *)
(***************************************************************************)
EXTENDS ReconciliationWorker, FiniteSetTheorems, TLAPS

Statuses == {"absent", "pending", "settled", "skipped", "in progress"}

(* What the drip of a pass covers: every play in progress of its paycard   *)
(* that no other pass has locked since.                                    *)
Covered(p) ==
  playPass[p].at = "marking" =>
    \A y \in Plays \ late :
      CardOf[y] = Head(playPass[p].todo) /\ settled[y] = "in progress" => y \in dripped

(* A pass that does something has a paycard to do it for.                  *)
Busy(p) == playPass[p].at # "idle" => playPass[p].todo # <<>>

PlaysInv == D1!TypeOK /\ \A p \in PlayPasses : Busy(p)

-------------------------------------------------------------------------------
(* The loop over the paycards ends, or goes on with one of them.           *)
LEMMA NextCardType ==
  ASSUME PlaysInv, NEW p \in PlayPasses, playPass[p].at # "idle",
         playPass' = D1!NextCard(p)
  PROVE  /\ playPass' \in [PlayPasses -> D1!PassType]
         /\ \A q \in PlayPasses : Busy(q)'
         /\ playPass'[p].at \in {"idle", "locking"}
         /\ \A q \in PlayPasses : q # p => playPass'[q] = playPass[q]
<1>1. playPass \in [PlayPasses -> D1!PassType]
  BY DEF PlaysInv, D1!TypeOK
<1>2. playPass[p].todo \in Seq(PlayCards) /\ playPass[p].todo # <<>>
  BY <1>1 DEF PlaysInv, Busy, D1!PassType
<1>3. CASE Len(playPass[p].todo) = 1
  <2>1. playPass' = [playPass EXCEPT ![p] = [at |-> "idle", todo |-> <<>>]]
    BY <1>3 DEF D1!NextCard, D1!NoPass
  <2> QED BY <1>1, <2>1 DEF PlaysInv, Busy, D1!PassType
<1>4. CASE Len(playPass[p].todo) # 1
  <2> DEFINE rest == Tail(playPass[p].todo)
  <2>1. playPass' = [playPass EXCEPT ![p] = [at |-> "locking", todo |-> rest]]
    BY <1>4 DEF D1!NextCard
  <2>2. rest \in Seq(PlayCards) /\ rest # <<>>
    <3> DEFINE todo == playPass[p].todo
    <3>1. Len(todo) \in Nat /\ Len(todo) # 0 /\ Len(todo) # 1
      BY <1>2, <1>4
    <3>2. Tail(todo) \in Seq(PlayCards) /\ Len(Tail(todo)) = Len(todo) - 1
      BY <1>2
    <3>3. Len(Tail(todo)) # 0 BY <3>1, <3>2
    <3>4. ASSUME NEW s, Len(s) # 0 PROVE s # <<>>
      BY <3>4
    <3> QED BY <3>2, <3>3, <3>4
  <2> HIDE DEF rest
  <2> QED BY <1>1, <2>1, <2>2 DEF PlaysInv, Busy, D1!PassType
<1> QED BY <1>3, <1>4

(* A pass that goes on with the same paycard.                              *)
LEMMA SameCardType ==
  ASSUME PlaysInv, NEW p \in PlayPasses, playPass[p].at # "idle",
         NEW at \in {"reading", "skipping", "dripping", "marking"},
         playPass' = [playPass EXCEPT ![p].at = at]
  PROVE  /\ playPass' \in [PlayPasses -> D1!PassType]
         /\ \A q \in PlayPasses : Busy(q)'
         /\ playPass'[p].at = at /\ playPass'[p].todo = playPass[p].todo
         /\ \A q \in PlayPasses : q # p => playPass'[q] = playPass[q]
BY DEF PlaysInv, D1!TypeOK, Busy, D1!PassType

(* A pass that ends.                                                       *)
LEMMA EndPassType ==
  ASSUME PlaysInv, NEW p \in PlayPasses,
         playPass' = [playPass EXCEPT ![p] = D1!NoPass]
  PROVE  /\ playPass' \in [PlayPasses -> D1!PassType]
         /\ \A q \in PlayPasses : Busy(q)'
         /\ playPass'[p].at = "idle"
         /\ \A q \in PlayPasses : q # p => playPass'[q] = playPass[q]
<1>1. D1!NoPass \in D1!PassType /\ D1!NoPass.at = "idle"
  BY DEF D1!NoPass, D1!PassType
<1> QED BY <1>1 DEF PlaysInv, D1!TypeOK, Busy

(* A batch of paycards in any order.                                       *)
LEMMA StartPassType ==
  ASSUME PlaysInv, NEW p \in PlayPasses, D1!StartPass(p)
  PROVE  /\ playPass' \in [PlayPasses -> D1!PassType]
         /\ \A q \in PlayPasses : Busy(q)'
         /\ playPass'[p].at = "locking"
         /\ \A q \in PlayPasses : q # p => playPass'[q] = playPass[q]
<1>1. PICK batch \in SUBSET D1!DueCards :
        /\ batch # {}
        /\ \E order \in D1!SetToSeqs(batch) :
             playPass' = [playPass EXCEPT ![p] = [at |-> "locking", todo |-> order]]
  BY DEF D1!StartPass
<1>2. PICK order \in D1!SetToSeqs(batch) :
        playPass' = [playPass EXCEPT ![p] = [at |-> "locking", todo |-> order]]
  BY <1>1
<1>3. batch \in SUBSET PlayCards
  BY SettlerAssumption DEF D1!DueCards
<1>4. IsFiniteSet(batch)
  BY <1>3, SettlerAssumption, FS_Subset
<1>5. Cardinality(batch) \in Nat /\ Cardinality(batch) # 0
  BY <1>1, <1>4, FS_CardinalityType, FS_EmptySet
<1>6. order \in Seq(PlayCards) /\ order # <<>>
  <2>1. order \in [1 .. Cardinality(batch) -> batch]
    <3>1. D1!Cardinality(batch) = Cardinality(batch)
      BY DEF D1!Cardinality, Cardinality
    <3> QED BY <1>2, <3>1 DEF D1!SetToSeqs
  <2> DEFINE n == Cardinality(batch)
  <2> HIDE DEF n
  <2>2. order \in [1 .. n -> PlayCards] /\ n \in Nat /\ n # 0
    BY <1>3, <1>5, <2>1 DEF n
  <2>3. order \in Seq(PlayCards) BY <2>2
  <2>4. Len(order) = n BY <2>2
  <2> QED BY <2>2, <2>3, <2>4
<1> QED BY <1>2, <1>6 DEF PlaysInv, D1!TypeOK, Busy, D1!PassType

-------------------------------------------------------------------------------
(* What Marked and the counting of attempts leave of the types.            *)
LEMMA MarkedType ==
  ASSUME PlaysInv, NEW ys, NEW status \in Statuses,
         settled' = D1!Marked(ys, status)
  PROVE  settled' \in [Plays -> Statuses]
BY DEF PlaysInv, D1!TypeOK, D1!Marked, Statuses

LEMMA PassFrame ==
  ASSUME PlaysInv, playPass' \in [PlayPasses -> D1!PassType],
         \A q \in PlayPasses : Busy(q)',
         settled' \in [Plays -> Statuses], terminated' \subseteq PlayCards,
         attempts' \in [Plays -> 0 .. MaxAttempts],
         playFails' \in 0 .. MaxFails, dripped' \subseteq Plays, late' \subseteq Plays
  PROVE  PlaysInv'
BY DEF PlaysInv, D1!TypeOK, Statuses

(* Every step of a pass.                                                   *)
LEMMA GoKeepsTypes ==
  ASSUME PlaysInv, NEW p \in PlayPasses, D1!Go(p)
  PROVE  PlaysInv'
<1>1. /\ settled \in [Plays -> Statuses] /\ terminated \subseteq PlayCards
      /\ attempts \in [Plays -> 0 .. MaxAttempts]
      /\ playFails \in 0 .. MaxFails
      /\ dripped \subseteq Plays /\ late \subseteq Plays
      /\ playPass \in [PlayPasses -> D1!PassType]
  BY DEF PlaysInv, D1!TypeOK, Statuses
<1>2. playPass[p].at # "idle" => Head(playPass[p].todo) \in PlayCards
  <2> SUFFICES ASSUME playPass[p].at # "idle"
               PROVE  Head(playPass[p].todo) \in PlayCards
    OBVIOUS
  <2>1. playPass[p].todo \in Seq(PlayCards) /\ playPass[p].todo # <<>>
    BY <1>1 DEF PlaysInv, Busy, D1!PassType
  <2> QED BY <2>1
<1>3. CASE D1!SkipInvalid(p)
  <2>1. "skipped" \in Statuses BY DEF Statuses
  <2> QED BY <1>1, <1>3, <2>1, MarkedType, NextCardType, PassFrame
    DEF D1!SkipInvalid, D1!history
<1>4. CASE D1!Lock(p)
  <2> DEFINE locked == D1!Lockable(Head(playPass[p].todo))
  <2>1. /\ playPass[p].at = "locking"
        /\ settled' = D1!Marked(locked, "in progress")
        /\ attempts' = [y \in Plays |-> IF y \in locked THEN attempts[y] + 1
                                         ELSE attempts[y]]
        /\ playPass' = IF locked = {} THEN D1!NextCard(p)
                        ELSE [playPass EXCEPT ![p].at = "reading"]
        /\ late' \in {late, late \cup locked}
        /\ UNCHANGED <<terminated, playFails, dripped>>
    BY <1>4 DEF D1!Lock
  <2>2. settled' \in [Plays -> Statuses]
    <3>1. "in progress" \in Statuses BY DEF Statuses
    <3> QED BY <2>1, <3>1, MarkedType
  <2>3. attempts' \in [Plays -> 0 .. MaxAttempts]
    <3>1. \A y \in locked : attempts[y] < MaxAttempts
      BY DEF D1!Lockable, D1!Due
    <3>2. MaxAttempts \in Nat BY SettlerAssumption
    <3>3. attempts' = [y \in Plays |-> IF y \in locked THEN attempts[y] + 1
                                       ELSE attempts[y]]
      BY <2>1
    <3> HIDE DEF locked
    <3>4. ASSUME NEW y \in Plays PROVE attempts'[y] \in 0 .. MaxAttempts
      BY <1>1, <3>1, <3>2, <3>3
    <3> QED BY <3>3, <3>4
  <2>4. /\ playPass' \in [PlayPasses -> D1!PassType]
        /\ \A q \in PlayPasses : Busy(q)'
    <3>1. playPass[p].at # "idle" BY <2>1
    <3>2. CASE locked = {} BY <2>1, <3>1, <3>2, NextCardType
    <3>3. CASE locked # {} BY <2>1, <3>1, <3>3, SameCardType
    <3> QED BY <3>2, <3>3
  <2>5. late' \subseteq Plays
    BY <1>1, <2>1 DEF D1!Lockable
  <2> HIDE DEF locked
  <2> QED BY <1>1, <2>1, <2>2, <2>3, <2>4, <2>5, PassFrame
<1>5. CASE D1!ReadStatus(p)
  <2>1. \E at \in {"reading", "skipping", "dripping", "marking"} :
           playPass' = [playPass EXCEPT ![p].at = at]
    BY <1>5 DEF D1!ReadStatus
  <2>2. playPass[p].at # "idle" BY <1>5 DEF D1!ReadStatus
  <2> QED BY <1>1, <1>5, <2>1, <2>2, SameCardType, PassFrame
    DEF D1!ReadStatus, D1!history
<1>6. CASE D1!Skip(p)
  <2>1. "skipped" \in Statuses BY DEF Statuses
  <2> QED BY <1>1, <1>6, <2>1, MarkedType, NextCardType, PassFrame
    DEF D1!Skip, D1!history
<1>7. CASE D1!MineDrip(p)
  <2>1. /\ playPass[p].at = "dripping"
        /\ terminated' \in {terminated, terminated \cup {Head(playPass[p].todo)}}
        /\ dripped' = dripped \cup
             {y \in Plays : CardOf[y] = Head(playPass[p].todo) /\ settled[y] # "absent"}
        /\ playPass' = [playPass EXCEPT ![p].at = "marking"]
        /\ late' = late \ dripped'
        /\ UNCHANGED <<settled, attempts, playFails>>
    BY <1>7 DEF D1!MineDrip
  <2>2. /\ terminated' \subseteq PlayCards
        /\ dripped' \subseteq Plays /\ late' \subseteq Plays
    BY <1>1, <1>2, <2>1
  <2> QED BY <1>1, <2>1, <2>2, SameCardType, PassFrame
<1>8. CASE D1!MarkSettled(p)
  <2>1. "settled" \in Statuses BY DEF Statuses
  <2> QED BY <1>1, <1>8, <2>1, MarkedType, NextCardType, PassFrame
    DEF D1!MarkSettled, D1!history
<1>9. CASE D1!RevertDrip(p)
  BY <1>1, <1>9, EndPassType, PassFrame DEF D1!RevertDrip, D1!history
<1> QED BY <1>3, <1>4, <1>5, <1>6, <1>7, <1>8, <1>9 DEF D1!Go

LEMMA PlaysStep == ASSUME PlaysInv, D1!Next PROVE PlaysInv'
<1>1. /\ settled \in [Plays -> Statuses] /\ terminated \subseteq PlayCards
      /\ attempts \in [Plays -> 0 .. MaxAttempts]
      /\ playFails \in 0 .. MaxFails
      /\ dripped \subseteq Plays /\ late \subseteq Plays
  BY DEF PlaysInv, D1!TypeOK, Statuses
<1>2. ASSUME NEW y \in Plays, D1!Insert(y) PROVE PlaysInv'
  BY <1>2 DEF D1!Insert, D1!history, PlaysInv, D1!TypeOK, Busy
<1>3. ASSUME NEW c \in PlayCards, D1!Terminate(c) PROVE PlaysInv'
  BY <1>3 DEF D1!Terminate, D1!history, PlaysInv, D1!TypeOK, Busy
<1>4. ASSUME NEW p \in PlayPasses, D1!StartPass(p) PROVE PlaysInv'
  BY <1>1, <1>4, StartPassType, PassFrame DEF D1!StartPass, D1!history
<1>5. ASSUME NEW p \in PlayPasses, D1!FailPass(p) PROVE PlaysInv'
  <2>1. playFails' \in 0 .. MaxFails
    BY <1>1, <1>5, SettlerAssumption DEF D1!FailPass
  <2> QED BY <1>1, <1>5, <2>1, EndPassType, PassFrame DEF D1!FailPass, D1!history
<1> QED BY <1>2, <1>3, <1>4, <1>5, GoKeepsTypes DEF D1!Next

-------------------------------------------------------------------------------
(* A play that is locked for a paycard which some pass has dripped and not *)
(* yet marked joins late, so that every drip goes on covering the others.  *)
LEMMA CoveredStep ==
  ASSUME PlaysInv, \A p \in PlayPasses : Covered(p), SettledMeansDripped, D1!Next
  PROVE  (\A p \in PlayPasses : Covered(p))' /\ SettledMeansDripped'
<1> USE DEF SettledMeansDripped, Covered
<1>1. /\ settled \in [Plays -> Statuses]
      /\ playPass \in [PlayPasses -> D1!PassType]
  BY DEF PlaysInv, D1!TypeOK, Statuses
<1>2. ASSUME NEW y \in Plays, D1!Insert(y)
      PROVE (\A p \in PlayPasses : Covered(p))' /\ SettledMeansDripped'
  BY <1>1, <1>2 DEF D1!Insert, D1!history
<1>3. ASSUME NEW c \in PlayCards, D1!Terminate(c)
      PROVE (\A p \in PlayPasses : Covered(p))' /\ SettledMeansDripped'
  BY <1>3 DEF D1!Terminate, D1!history
<1>4. ASSUME NEW p \in PlayPasses, playPass'[p].at # "marking",
             \A q \in PlayPasses : q # p => playPass'[q] = playPass[q],
             UNCHANGED <<dripped, late>>,
             \A y \in Plays : settled'[y] = "in progress" => settled[y] = "in progress",
             \A y \in Plays \ late : settled'[y] = "settled" => y \in dripped
      PROVE (\A q \in PlayPasses : Covered(q))' /\ SettledMeansDripped'
  BY <1>4
<1>5. ASSUME NEW ys, NEW status \in {"skipped", "settled"},
             settled' = D1!Marked(ys, status)
      PROVE  \A y \in Plays : settled'[y] = "in progress" => settled[y] = "in progress"
  BY <1>1, <1>5 DEF D1!Marked
<1>6. ASSUME NEW p \in PlayPasses, D1!StartPass(p) \/ D1!FailPass(p) \/ D1!RevertDrip(p)
      PROVE (\A q \in PlayPasses : Covered(q))' /\ SettledMeansDripped'
  <2>1. UNCHANGED <<settled, dripped, late>>
    BY <1>6 DEF D1!StartPass, D1!FailPass, D1!RevertDrip, D1!history
  <2>2. /\ playPass'[p].at # "marking"
        /\ \A q \in PlayPasses : q # p => playPass'[q] = playPass[q]
    BY <1>6, StartPassType, EndPassType DEF D1!FailPass, D1!RevertDrip
  <2> QED BY <1>4, <2>1, <2>2
<1>7. ASSUME NEW p \in PlayPasses, D1!SkipInvalid(p) \/ D1!Skip(p)
      PROVE (\A q \in PlayPasses : Covered(q))' /\ SettledMeansDripped'
  <2>1. /\ playPass[p].at # "idle" /\ playPass' = D1!NextCard(p)
        /\ UNCHANGED <<dripped, late>>
        /\ \E ys : settled' = D1!Marked(ys, "skipped")
    BY <1>7 DEF D1!SkipInvalid, D1!Skip, D1!history
  <2>2. /\ playPass'[p].at # "marking"
        /\ \A q \in PlayPasses : q # p => playPass'[q] = playPass[q]
    BY <2>1, NextCardType
  <2>3. \A y \in Plays \ late : settled'[y] = "settled" => y \in dripped
    BY <1>1, <2>1 DEF D1!Marked
  <2> QED BY <1>4, <1>5, <2>1, <2>2, <2>3
<1>8. ASSUME NEW p \in PlayPasses, D1!Lock(p)
      PROVE (\A q \in PlayPasses : Covered(q))' /\ SettledMeansDripped'
  <2> DEFINE c == Head(playPass[p].todo)
             locked == D1!Lockable(c)
  <2>1. /\ playPass[p].at = "locking" /\ dripped' = dripped
        /\ settled' = D1!Marked(locked, "in progress")
        /\ playPass' = IF locked = {} THEN D1!NextCard(p)
                        ELSE [playPass EXCEPT ![p].at = "reading"]
        /\ late' = IF D1!DripUnmarked(c) THEN late \cup locked ELSE late
    BY <1>8 DEF D1!Lock
  <2>2. \A y \in locked : CardOf[y] = c
    BY DEF D1!Lockable
  <2>3. /\ playPass'[p].at # "marking"
        /\ \A q \in PlayPasses : q # p => playPass'[q] = playPass[q]
    <3>1. playPass[p].at # "idle" BY <2>1
    <3>2. CASE locked = {} BY <2>1, <3>1, <3>2, NextCardType
    <3>3. CASE locked # {} BY <2>1, <3>1, <3>3, SameCardType
    <3> QED BY <3>2, <3>3
  <2> HIDE DEF locked, c
  <2>4. ASSUME NEW q \in PlayPasses PROVE Covered(q)'
    <3> SUFFICES ASSUME playPass'[q].at = "marking",
                        NEW y \in Plays, y \notin late',
                        CardOf[y] = Head(playPass'[q].todo),
                        settled'[y] = "in progress"
                 PROVE  y \in dripped'
      OBVIOUS
    <3>1. playPass[q].at = "marking" /\ Head(playPass'[q].todo) = Head(playPass[q].todo)
      BY <2>3
    <3>2. CASE y \in locked
      <4>1. D1!DripUnmarked(c)
        BY <2>2, <3>1, <3>2 DEF D1!DripUnmarked
      <4> QED BY <2>1, <3>2, <4>1
    <3>3. CASE y \notin locked
      <4>1. settled[y] = "in progress" /\ y \notin late
        BY <1>1, <2>1, <3>3 DEF D1!Marked
      <4> QED BY <2>1, <3>1, <4>1
    <3> QED BY <3>2, <3>3
  <2>5. SettledMeansDripped'
    BY <1>1, <2>1 DEF D1!Marked
  <2> QED BY <2>4, <2>5
<1>9. ASSUME NEW p \in PlayPasses, D1!ReadStatus(p)
      PROVE (\A q \in PlayPasses : Covered(q))' /\ SettledMeansDripped'
  <2>1. UNCHANGED <<settled, dripped, late>>
    BY <1>9 DEF D1!ReadStatus, D1!history
  <2>2. /\ playPass'[p].at # "marking"
        /\ \A q \in PlayPasses : q # p => playPass'[q] = playPass[q]
    BY <1>1, <1>9 DEF D1!ReadStatus, D1!PassType
  <2> QED BY <1>4, <2>1, <2>2
<1>10. ASSUME NEW p \in PlayPasses, D1!MineDrip(p)
      PROVE (\A q \in PlayPasses : Covered(q))' /\ SettledMeansDripped'
  <2>1. /\ dripped' = dripped \cup
             {y \in Plays : CardOf[y] = Head(playPass[p].todo) /\ settled[y] # "absent"}
        /\ late' = late \ dripped' /\ settled' = settled
        /\ playPass' = [playPass EXCEPT ![p].at = "marking"]
        /\ playPass[p].at # "idle"
    BY <1>10 DEF D1!MineDrip
  <2>2. /\ playPass'[p].todo = playPass[p].todo
        /\ \A q \in PlayPasses : q # p => playPass'[q] = playPass[q]
    BY <2>1, SameCardType
  <2> QED BY <2>1, <2>2
<1>11. ASSUME NEW p \in PlayPasses, D1!MarkSettled(p)
      PROVE (\A q \in PlayPasses : Covered(q))' /\ SettledMeansDripped'
  <2>1. /\ playPass[p].at = "marking" /\ playPass' = D1!NextCard(p)
        /\ UNCHANGED <<dripped, late>>
        /\ settled' = D1!Marked(D1!InProgress(Head(playPass[p].todo)), "settled")
    BY <1>11 DEF D1!MarkSettled, D1!history
  <2>2. /\ playPass'[p].at # "marking"
        /\ \A q \in PlayPasses : q # p => playPass'[q] = playPass[q]
    BY <2>1, NextCardType
  <2>3. \A y \in Plays \ late : settled'[y] = "settled" => y \in dripped
    BY <1>1, <2>1 DEF D1!Marked, D1!InProgress
  <2> QED BY <1>4, <1>5, <2>1, <2>2, <2>3
<1> QED BY <1>2, <1>3, <1>6, <1>7, <1>8, <1>9, <1>10, <1>11 DEF D1!Next, D1!Go

(* A step of the worker is one of the d1 settler's or leaves it alone.     *)
LEMMA WorkerStep ==
  ASSUME [Next]_vars PROVE D1!Next \/ UNCHANGED playVars
BY DEF Next, InChain, InD1, vars

LEMMA PlaysInvHolds == Spec => []PlaysInv
<1>1. Init => PlaysInv
  <2>1. MaxAttempts \in Nat /\ MaxFails \in Nat BY SettlerAssumption
  <2>2. D1!NoPass \in D1!PassType /\ D1!NoPass.at = "idle"
    BY DEF D1!NoPass, D1!PassType
  <2> QED BY <2>1, <2>2 DEF Init, D1!Init, PlaysInv, D1!TypeOK, Busy
<1>2. PlaysInv /\ [Next]_vars => PlaysInv'
  <2>1. ASSUME PlaysInv, UNCHANGED playVars PROVE PlaysInv'
    BY <2>1 DEF playVars, PlaysInv, D1!TypeOK, Busy, D1!PassType
  <2> QED BY <2>1, PlaysStep, WorkerStep
<1> QED BY <1>1, <1>2, PTL DEF Spec

(* The types of the d1 settler, among them that no play is attempted more  *)
(* than MAX_SETTLEMENT_ATTEMPTS times, by any number of passes.            *)
THEOREM PlaysTypeCorrect == Spec => []D1!TypeOK
<1>1. PlaysInv => D1!TypeOK BY DEF PlaysInv
<1> QED BY <1>1, PlaysInvHolds, PTL

(* Whichever passes overlap, fail or are abandoned: a play that was        *)
(* settled or skipped stays what it is (reconcileFromD1).                  *)
THEOREM ResolvedForGood == Spec => ResolvedOnce
<1> DEFINE Final(y) == settled[y] \in {"settled", "skipped"} => settled'[y] = settled[y]
<1>1. ASSUME PlaysInv, D1!Next, NEW y \in Plays PROVE Final(y)
  <2>1. settled \in [Plays -> Statuses]
    BY <1>1 DEF PlaysInv, D1!TypeOK, Statuses
  <2>2. ASSUME NEW z \in Plays, D1!Insert(z) PROVE Final(y)
    BY <2>1, <2>2 DEF D1!Insert
  <2>3. ASSUME NEW c, D1!Terminate(c) PROVE Final(y)
    BY <2>3 DEF D1!Terminate
  <2>4. ASSUME NEW ys, NEW status, settled' = D1!Marked(ys, status),
               \A z \in ys : settled[z] \in {"pending", "in progress"}
        PROVE  Final(y)
    BY <2>1, <2>4 DEF D1!Marked
  <2>5. ASSUME NEW p \in PlayPasses, D1!StartPass(p) \/ D1!FailPass(p) PROVE Final(y)
    BY <2>5 DEF D1!StartPass, D1!FailPass
  <2>6. ASSUME NEW p \in PlayPasses,
               D1!ReadStatus(p) \/ D1!MineDrip(p) \/ D1!RevertDrip(p)
        PROVE  Final(y)
    BY <2>6 DEF D1!ReadStatus, D1!MineDrip, D1!RevertDrip
  <2>7. ASSUME NEW p \in PlayPasses,
               D1!SkipInvalid(p) \/ D1!Lock(p) \/ D1!Skip(p) \/ D1!MarkSettled(p)
        PROVE  Final(y)
    <3> DEFINE c == Head(playPass[p].todo)
               invalid == {z \in Plays : CardOf[z] = c /\ settled[z] = "pending"}
    <3>1. CASE D1!SkipInvalid(p)
      <4>1. settled' = D1!Marked(invalid, "skipped") BY <3>1 DEF D1!SkipInvalid
      <4>2. \A z \in invalid : settled[z] \in {"pending", "in progress"}
        OBVIOUS
      <4> HIDE DEF invalid
      <4> QED BY <2>4, <4>1, <4>2
    <3>2. CASE D1!Lock(p)
      <4>1. settled' = D1!Marked(D1!Lockable(c), "in progress") BY <3>2 DEF D1!Lock
      <4>2. \A z \in D1!Lockable(c) : settled[z] \in {"pending", "in progress"}
        BY DEF D1!Lockable, D1!Due
      <4> QED BY <2>4, <4>1, <4>2
    <3>3. CASE D1!Skip(p)
      <4>1. settled' = D1!Marked(D1!InProgress(c), "skipped") BY <3>3 DEF D1!Skip
      <4>2. \A z \in D1!InProgress(c) : settled[z] \in {"pending", "in progress"}
        BY DEF D1!InProgress
      <4> QED BY <2>4, <4>1, <4>2
    <3>4. CASE D1!MarkSettled(p)
      <4>1. settled' = D1!Marked(D1!InProgress(c), "settled") BY <3>4 DEF D1!MarkSettled
      <4>2. \A z \in D1!InProgress(c) : settled[z] \in {"pending", "in progress"}
        BY DEF D1!InProgress
      <4> QED BY <2>4, <4>1, <4>2
    <3> QED BY <2>7, <3>1, <3>2, <3>3, <3>4
  <2> QED BY <1>1, <2>2, <2>3, <2>5, <2>6, <2>7 DEF D1!Next, D1!Go
<1>2. PlaysInv /\ [Next]_vars => [\A y \in Plays : Final(y)]_vars
  <2>1. ASSUME UNCHANGED playVars, NEW y \in Plays PROVE Final(y)
    BY <2>1 DEF playVars
  <2> QED BY <1>1, <2>1, WorkerStep
<1> QED BY <1>2, PlaysInvHolds, PTL DEF Spec, ResolvedOnce

(* However many passes overlap and fail: a play that is marked settled was *)
(* paid for, unless it was locked between the drip of another pass and the *)
(* update after it, which names the paycard alone, and its own pass has not*)
(* dripped either (reconcileFromD1).                                       *)
THEOREM SettledAreDripped == Spec => []SettledMeansDripped
<1> DEFINE Paid == (\A p \in PlayPasses : Covered(p)) /\ SettledMeansDripped
<1>1. Init => Paid
  BY DEF Init, D1!Init, D1!NoPass, Covered, SettledMeansDripped
<1>2. PlaysInv /\ Paid /\ [Next]_vars => Paid'
  <2>1. ASSUME Paid, UNCHANGED playVars PROVE Paid'
    BY <2>1 DEF playVars, Covered, SettledMeansDripped
  <2> QED BY <2>1, CoveredStep, WorkerStep
<1>3. Paid => SettledMeansDripped OBVIOUS
<1> HIDE DEF Paid
<1> QED BY <1>1, <1>2, <1>3, PlaysInvHolds, PTL DEF Spec
===============================================================================
