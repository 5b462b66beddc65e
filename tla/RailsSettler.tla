----------------------------- MODULE RailsSettler -----------------------------
(***************************************************************************)
(* The keeper of the reconciliation worker in its chain mode: a pass lists *)
(* the paycards provisioned in the last blocks, reads each from the Vault  *)
(* and drips those that are worth it, awaiting every read and transaction. *)
(* Passes started by cron and by POST /reconcile overlap, recipients drip  *)
(* and payers flush meanwhile.  Amounts are counted in steps of accrual.   *)
(***************************************************************************)
EXTENDS Integers, Sequences, FiniteSets, SequencesExt

CONSTANTS
  Cards,
  Faulty,     \* cards whose drip always reverts
  OneTime,    \* cards with lifespan 0, the others stream
  Passes,     \* invocations of reconcileStreams that may be under way
  BatchLimit, \* RECONCILIATION_BATCH_LIMIT
  Window,     \* SETTLER_WINDOW_BLOCKS
  Dust,       \* MIN_ACCRUED_USDC
  MaxBlock,   \* bound on the chain's height
  MaxOwed,    \* bound on the accrual of a card that nobody drips
  MaxFails    \* bound on the number of rejected awaits

VARIABLES
  block,     \* the chain's height
  opened,    \* the PaycardProvisioned logs, oldest first
  born,      \* born[c] : block of c's log, 0 while there is none
  active,    \* cards that are Active with something available
  owed,      \* owed[c] : accrued since c's last checkpoint
  pass,      \* pass[p] : what invocation p is doing
  fails      \* number of awaits that have rejected

chainVars == <<block, opened, born, active, owed>>
vars == <<chainVars, pass, fails>>

NoPass == [at |-> "idle", todo |-> <<>>, settled |-> 0]

PassType ==
  [ at : {"idle", "reading", "sending"}, todo : Seq(Cards),
    settled : 0 .. BatchLimit ]

TypeOK ==
  /\ block \in 0 .. MaxBlock
  /\ opened \in Seq(Cards) /\ IsInjective(opened)
  /\ born \in [Cards -> 0 .. MaxBlock]
  /\ active \subseteq ToSet(opened)
  /\ owed \in [Cards -> 0 .. MaxOwed]
  /\ pass \in [Passes -> PassType]
  /\ fails \in 0 .. MaxFails

Init ==
  /\ block = 0 /\ opened = <<>> /\ born = [c \in Cards |-> 0]
  /\ active = {} /\ owed = [c \in Cards |-> 0]
  /\ pass = [p \in Passes |-> NoPass] /\ fails = 0

-------------------------------------------------------------------------------
(* The Vault, and those who use it besides the keeper.                     *)

NewBlock ==
  /\ block < MaxBlock /\ block' = block + 1
  /\ UNCHANGED <<opened, born, active, owed, pass, fails>>

Provision(c) ==
  /\ block > 0 /\ born[c] = 0
  /\ born' = [born EXCEPT ![c] = block]
  /\ opened' = Append(opened, c)
  /\ active' = active \cup {c}
  /\ UNCHANGED <<block, owed, pass, fails>>

Accrue(c) ==
  /\ c \in active \ OneTime /\ owed[c] < MaxOwed
  /\ owed' = [owed EXCEPT ![c] = @ + 1]
  /\ UNCHANGED <<block, opened, born, active, pass, fails>>

(* A settlement pays what a stream owes, which may exhaust it, or the whole*)
(* of a one-time payment.                                                  *)
Settled(c) ==
  /\ owed' = [owed EXCEPT ![c] = 0]
  /\ active' \in {active \ {c}} \cup (IF c \in OneTime THEN {} ELSE {active})

DripElsewhere(c) ==
  /\ c \in active \ Faulty
  /\ Settled(c)
  /\ UNCHANGED <<block, opened, born, pass, fails>>

Flush(c) ==
  /\ c \in active \ Faulty
  /\ owed' = [owed EXCEPT ![c] = 0] /\ active' = active \ {c}
  /\ UNCHANGED <<block, opened, born, pass, fails>>

-------------------------------------------------------------------------------
(* A pass.                                                                 *)

Recent(c) == born[c] >= block - Window

StartPass(p) ==
  /\ pass[p].at = "idle"
  /\ pass' = [pass EXCEPT ![p] =
                [at |-> "reading", todo |-> SelectSeq(opened, Recent), settled |-> 0]]
  /\ UNCHANGED <<chainVars, fails>>

Full(p) == pass[p].settled >= BatchLimit

(* Mutant: accrual that just reaches the threshold is left.                *)
AboveDust(c) == c \in active /\ (c \in OneTime \/ owed[c] > Dust)

(* The dust threshold is for streams; a one-time payment that is still     *)
(* there was not settled.                                                  *)
WorthIt(c) == c \in active /\ (c \in OneTime \/ owed[c] >= Dust)

(* The registry read decides; the transaction is sent after it.            *)
ReadCard(p) ==
  LET c == Head(pass[p].todo)
  IN  /\ pass[p].at = "reading" /\ pass[p].todo # <<>> /\ ~Full(p)
      /\ pass' = IF WorthIt(c) THEN [pass EXCEPT ![p].at = "sending"]
                 ELSE [pass EXCEPT ![p].todo = Tail(@)]
      /\ UNCHANGED <<chainVars, fails>>

EndPass(p) ==
  /\ pass[p].at = "reading" /\ (pass[p].todo = <<>> \/ Full(p))
  /\ pass' = [pass EXCEPT ![p] = NoPass]
  /\ UNCHANGED <<chainVars, fails>>

MineDrip(p) ==
  LET c == Head(pass[p].todo)
  IN  /\ pass[p].at = "sending" /\ c \in active \ Faulty
      /\ Settled(c)
      /\ pass' = [pass EXCEPT ![p].at = "reading", ![p].todo = Tail(@),
                              ![p].settled = @ + 1]
      /\ UNCHANGED <<block, opened, born, fails>>

(* A drip that reverts, of a card that was terminated since it was read or *)
(* of a faulty one.  The catch clause calls safeRpcError, which the module *)
(* does not import: the ReferenceError leaves the loop and ends the pass.  *)
RevertDrip(p) ==
  LET c == Head(pass[p].todo)
  IN  /\ pass[p].at = "sending" /\ c \notin active \ Faulty
      /\ pass' = [pass EXCEPT ![p] = NoPass]
      /\ UNCHANGED <<chainVars, fails>>

(* Any other await rejects: inside the try for the same reason, or outside *)
(* it, or the platform ends the invocation.                                *)
FailPass(p) ==
  /\ pass[p].at # "idle" /\ fails < MaxFails /\ fails' = fails + 1
  /\ pass' = [pass EXCEPT ![p] = NoPass]
  /\ UNCHANGED chainVars

Vault ==
  \/ NewBlock
  \/ \E c \in Cards : Provision(c) \/ Accrue(c) \/ DripElsewhere(c) \/ Flush(c)

RunPass(p) ==
  StartPass(p) \/ ReadCard(p) \/ EndPass(p) \/ MineDrip(p) \/ RevertDrip(p)

Next == Vault \/ \E p \in Passes : RunPass(p) \/ FailPass(p)

===============================================================================
