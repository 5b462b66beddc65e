-------------------------- MODULE PlaysReconciliation -------------------------
(***************************************************************************)
(* The reconciliation worker in its D1 mode: the scrobble worker inserts   *)
(* plays, and a pass locks the pending plays of one paycard after the      *)
(* other, drips the paycard and marks them settled.  Passes started by     *)
(* cron and by POST /reconcile overlap; each database statement, read and  *)
(* transaction is awaited.                                                 *)
(***************************************************************************)
EXTENDS Integers, Sequences, FiniteSets, SequencesExt

CONSTANTS
  Plays,        \* row ids of the table plays
  Cards,
  CardOf,       \* CardOf[y] : the paycard_id of play y
  Invalid,      \* paycard ids that are not 32-byte hex strings
  Passes,       \* invocations of reconcileStreams that may be under way
  BatchLimit,   \* RECONCILIATION_BATCH_LIMIT
  MaxAttempts,  \* MAX_SETTLEMENT_ATTEMPTS
  MaxFails      \* bound on the number of rejected awaits

VARIABLES
  terminated, \* cards that are no longer Active
  settled,    \* settled[y] : the column, or "absent"
  attempts,   \* settlement_attempts
  pass,       \* pass[p] : what invocation p is doing
  fails,      \* number of awaits that have rejected
  dripped,    \* history: plays whose card was dripped after their insert
  late        \* history: plays locked after another pass's drip and before
              \* its mark, and whose card was not dripped since

history == <<dripped, late>>
vars == <<terminated, settled, attempts, pass, fails, history>>

NoPass == [at |-> "idle", todo |-> <<>>]

PassType ==
  [ at : {"idle", "locking", "reading", "skipping", "dripping", "marking"},
    todo : Seq(Cards) ]

TypeOK ==
  /\ terminated \subseteq Cards
  /\ settled \in [Plays -> {"absent", "pending", "settled", "skipped", "in progress"}]
  /\ attempts \in [Plays -> 0 .. MaxAttempts]
  /\ pass \in [Passes -> PassType]
  /\ fails \in 0 .. MaxFails
  /\ dripped \subseteq Plays /\ late \subseteq Plays

Init ==
  /\ terminated = {}
  /\ settled = [y \in Plays |-> "absent"] /\ attempts = [y \in Plays |-> 0]
  /\ pass = [p \in Passes |-> NoPass] /\ fails = 0
  /\ dripped = {} /\ late = {}

-------------------------------------------------------------------------------
(* Plays are known by their row's id, which counts the inserts.            *)
Insert(y) ==
  /\ settled[y] = "absent" /\ \A z \in Plays : z < y => settled[z] # "absent"
  /\ settled' = [settled EXCEPT ![y] = "pending"]
  /\ UNCHANGED <<terminated, attempts, pass, fails, history>>

Terminate(c) ==
  /\ c \notin terminated \cup Invalid
  /\ terminated' = terminated \cup {c}
  /\ UNCHANGED <<settled, attempts, pass, fails, history>>

-------------------------------------------------------------------------------
Due(y) == settled[y] = "pending" /\ attempts[y] < MaxAttempts

(* Mutants: a lock that takes plays of any status and any number of        *)
(* attempts, or that stops one attempt early.                              *)
LockableAny(c)    == {y \in Plays : CardOf[y] = c /\ settled[y] # "absent"}
LockableEarly(c)  == {y \in Plays : CardOf[y] = c /\ settled[y] = "pending"
                                      /\ attempts[y] + 1 < MaxAttempts}

Lockable(c) == {y \in Plays : CardOf[y] = c /\ Due(y)}

DueCards == {CardOf[y] : y \in {z \in Plays : Due(z)}}

(* SELECT DISTINCT ... LIMIT, in any order.                                *)
StartPass(p) ==
  /\ pass[p].at = "idle" /\ DueCards # {}
  /\ \E batch \in SUBSET DueCards :
       /\ batch # {} /\ Cardinality(batch) <= BatchLimit
       /\ Cardinality(batch) < BatchLimit => batch = DueCards
       /\ \E order \in SetToSeqs(batch) :
            pass' = [pass EXCEPT ![p] = [at |-> "locking", todo |-> order]]
  /\ UNCHANGED <<terminated, settled, attempts, fails, history>>

(* The loop goes on with its next card.                                    *)
NextCard(p) ==
  IF Len(pass[p].todo) = 1 THEN [pass EXCEPT ![p] = NoPass]
  ELSE [pass EXCEPT ![p] = [at |-> "locking", todo |-> Tail(@.todo)]]

(* Mutant: the mark takes pending plays along.                             *)
InProgressOrPending(c) ==
  {y \in Plays : CardOf[y] = c /\ settled[y] \in {"pending", "in progress"}}

InProgress(c) == {y \in Plays : CardOf[y] = c /\ settled[y] = "in progress"}

Marked(ys, status) == [y \in Plays |-> IF y \in ys THEN status ELSE settled[y]]

SkipInvalid(p) ==
  LET c == Head(pass[p].todo)
  IN  /\ pass[p].at = "locking" /\ c \in Invalid
      /\ settled' = Marked({y \in Plays : CardOf[y] = c /\ settled[y] = "pending"},
                           "skipped")
      /\ pass' = NextCard(p)
      /\ UNCHANGED <<terminated, attempts, fails, history>>

(* A pass has dripped card c and not yet marked its plays.                 *)
DripUnmarked(c) ==
  \E q \in Passes : pass[q].at = "marking" /\ Head(pass[q].todo) = c

(* One UPDATE locks the card's pending plays; a pass that locks none goes  *)
(* on with the next card.                                                  *)
Lock(p) ==
  LET c == Head(pass[p].todo)
      locked == Lockable(c)
  IN  /\ pass[p].at = "locking" /\ c \notin Invalid
      /\ settled' = Marked(locked, "in progress")
      /\ attempts' = [y \in Plays |-> IF y \in locked THEN attempts[y] + 1
                                      ELSE attempts[y]]
      /\ pass' = IF locked = {} THEN NextCard(p)
                 ELSE [pass EXCEPT ![p].at = "reading"]
      /\ late' = IF DripUnmarked(c) THEN late \cup locked ELSE late
      /\ UNCHANGED <<terminated, fails, dripped>>

ReadStatus(p) ==
  /\ pass[p].at = "reading"
  /\ pass' = [pass EXCEPT ![p].at =
                IF Head(pass[p].todo) \in terminated THEN "skipping" ELSE "dripping"]
  /\ UNCHANGED <<terminated, settled, attempts, fails, history>>

Skip(p) ==
  /\ pass[p].at = "skipping"
  /\ settled' = Marked(InProgress(Head(pass[p].todo)), "skipped")
  /\ pass' = NextCard(p)
  /\ UNCHANGED <<terminated, attempts, fails, history>>

(* The drip is mined, and may exhaust the card.                            *)
MineDrip(p) ==
  LET c == Head(pass[p].todo)
  IN  /\ pass[p].at = "dripping" /\ c \notin terminated
      /\ terminated' \in {terminated, terminated \cup {c}}
      /\ dripped' = dripped \cup
           {y \in Plays : CardOf[y] = c /\ settled[y] # "absent"}
      /\ pass' = [pass EXCEPT ![p].at = "marking"]
      /\ late' = late \ dripped'
      /\ UNCHANGED <<settled, attempts, fails>>

(* The update names the card and not the pass: plays that another pass has *)
(* locked since the drip are marked along.                                 *)
MarkSettled(p) ==
  /\ pass[p].at = "marking"
  /\ settled' = Marked(InProgress(Head(pass[p].todo)), "settled")
  /\ pass' = NextCard(p)
  /\ UNCHANGED <<terminated, attempts, fails, history>>

(* The drip of a card that was terminated after the read reverts.  The     *)
(* catch clause would unlock the plays, but first calls safeRpcError,      *)
(* which the module does not import: the ReferenceError ends the pass.     *)
RevertDrip(p) ==
  /\ pass[p].at = "dripping" /\ Head(pass[p].todo) \in terminated
  /\ pass' = [pass EXCEPT ![p] = NoPass]
  /\ UNCHANGED <<terminated, settled, attempts, fails, history>>

(* Any await rejects, or the platform ends the invocation.                 *)
FailPass(p) ==
  /\ pass[p].at # "idle" /\ fails < MaxFails /\ fails' = fails + 1
  /\ pass' = [pass EXCEPT ![p] = NoPass]
  /\ UNCHANGED <<terminated, settled, attempts, history>>

Go(p) ==
  \/ SkipInvalid(p) \/ Lock(p) \/ ReadStatus(p) \/ Skip(p)
  \/ MineDrip(p) \/ MarkSettled(p) \/ RevertDrip(p)

Next ==
  \/ \E y \in Plays : Insert(y)
  \/ \E c \in Cards : Terminate(c)
  \/ \E p \in Passes : StartPass(p) \/ Go(p) \/ FailPass(p)

===============================================================================
