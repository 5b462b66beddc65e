------------------------- MODULE ReconciliationWorker -------------------------
(***************************************************************************)
(* The reconciliation worker: one deployment runs one of two settlers on   *)
(* every cron event and POST /reconcile, by SETTLER_MODE.  RailsSettler is *)
(* the chain mode, PlaysReconciliation the d1 mode; a Vault that the keeper*)
(* of the one mode watches is not the other's.                             *)
(***************************************************************************)
EXTENDS Integers, Sequences, FiniteSets

CONSTANTS
  BatchLimit, MaxFails,                                 \* of both modes
  RailsCards, Faulty, OneTime, RailsPasses,             \* see RailsSettler
  Window, Dust, MaxBlock, MaxOwed,
  PlayCards, Plays, CardOf, Invalid, PlayPasses,        \* see PlaysReconciliation
  MaxAttempts

ASSUME SettlerAssumption ==
  /\ {Faulty, OneTime} \subseteq SUBSET RailsCards /\ Invalid \subseteq PlayCards
  /\ Plays \subseteq Nat /\ CardOf \in [Plays -> PlayCards]
  /\ {BatchLimit, Dust, MaxOwed, MaxAttempts} \subseteq Nat \ {0}
  /\ {Window, MaxBlock, MaxFails} \subseteq Nat /\ IsFiniteSet(PlayCards)

VARIABLES
  mode,                                             \* SETTLER_MODE
  block, opened, born, active, owed, pass, fails,   \* see RailsSettler
  terminated, settled, attempts, dripped, late,     \* see PlaysReconciliation
  playPass, playFails                               \* its pass and fails

railsVars == <<block, opened, born, active, owed, pass, fails>>
playVars  == <<terminated, settled, attempts, playPass, playFails, dripped, late>>
vars == <<mode, railsVars, playVars>>

Rails == INSTANCE RailsSettler WITH Cards <- RailsCards, Passes <- RailsPasses
D1    == INSTANCE PlaysReconciliation
           WITH Cards <- PlayCards, Passes <- PlayPasses,
                pass <- playPass, fails <- playFails

TypeOK == mode \in {"chain", "d1"} /\ Rails!TypeOK /\ D1!TypeOK

Init == mode \in {"chain", "d1"} /\ Rails!Init /\ D1!Init

(* reconcileStreams, and what goes on around it: a step of the mode's own  *)
(* settler.                                                                *)
InChain(action) == mode = "chain" /\ action /\ UNCHANGED <<mode, playVars>>
InD1(action)    == mode = "d1" /\ action /\ UNCHANGED <<mode, railsVars>>

Next == InChain(Rails!Next) \/ InD1(D1!Next)

Spec == Init /\ [][Next]_vars

(* Cron keeps starting passes, and a pass under way goes on.               *)
FairSpec ==
  /\ Spec
  /\ WF_vars(InChain(\E p \in RailsPasses : Rails!StartPass(p)))
  /\ WF_vars(InD1(\E p \in PlayPasses : D1!StartPass(p)))
  /\ \A p \in RailsPasses : WF_vars(InChain(pass[p].at # "idle" /\ Rails!RunPass(p)))
  /\ \A p \in PlayPasses : WF_vars(InD1(D1!Go(p)))

-------------------------------------------------------------------------------
(* Properties.                                                             *)

(* "drip-settles ALL active rails from chain": a one-time payment does not *)
(* stay in the Vault, and what a stream owes its recipient not above the   *)
(* dust threshold, for ever, whatever other passes, recipients and payers  *)
(* do meanwhile (settleActiveRails).                                       *)
DuePaid ==
  \A c \in RailsCards \ Faulty :
    LET Due == c \in active /\ (c \in OneTime \/ owed[c] >= Dust)
    IN  Due ~> ~Due

(* A play is settled or skipped once: no later pass, whatever failed       *)
(* before, takes it up again (reconcileFromD1).                            *)
ResolvedOnce ==
  [][\A y \in Plays : settled[y] \in {"settled", "skipped"} =>
       settled'[y] = settled[y]]_vars

(* "1 = Settled successfully" (schema.sql), as far as it is true of passes *)
(* that overlap: whichever pass locked a play, failed with it or marked it,*)
(* a settled play's card was dripped after the play was inserted.  The only*)
(* ones it is not true of are in late: one pass locked them after the drip *)
(* of another and before that one's update (reconcileFromD1).              *)
SettledMeansDripped ==
  \A y \in Plays \ late : settled[y] = "settled" => y \in dripped

(* A pending play is taken up: also one whose card a full batch, an        *)
(* invalid id or a failed pass stands before (reconcileFromD1).            *)
PendingTakenUp == \A y \in Plays : settled[y] = "pending" ~> settled[y] # "pending"
===============================================================================
