-------------------------------- MODULE HubLog --------------------------------
(***************************************************************************)
(* The Vault as its off-chain readers see it: a log of events, of which    *)
(* each card contributes one PaycardProvisioned, then SettlementFlushed    *)
(* events, then at most one ResidualDeltaReclaimed.  A flush may emit its  *)
(* settlement and its reclaim in one transaction.  Clocks, envelopes and   *)
(* tokens are gone; LoggedHub is shown to implement this module.           *)
(***************************************************************************)
EXTENDS Integers, Sequences

CONSTANTS
  Cards,   \* paycard identifiers
  Pools,   \* allocation pools a card may open with
  MaxLog   \* bound on the length of the log

VARIABLES
  phase,   \* phase[c] : "none", "open" or "closed"
  avail,   \* avail[c] : the card's availableBalance
  log      \* the events, oldest first

vars == <<phase, avail, log>>

Kinds == {"PaycardProvisioned", "SettlementFlushed", "ResidualDeltaReclaimed"}

(* left is the card's balance after the event; it is not part of the log   *)
(* entry that readers decode, and only properties look at it.              *)
Event(kind, c, amount, left) ==
  [kind |-> kind, card |-> c, amount |-> amount, left |-> left]

TypeOK ==
  /\ phase \in [Cards -> {"none", "open", "closed"}]
  /\ avail \in [Cards -> Nat]
  /\ log \in Seq([kind : Kinds, card : Cards, amount : Nat, left : Nat])

Init ==
  /\ phase = [c \in Cards |-> "none"]
  /\ avail = [c \in Cards |-> 0]
  /\ log = <<>>

Emit(c, events, left) ==
  /\ Len(log) + Len(events) <= MaxLog
  /\ log' = log \o events
  /\ avail' = [avail EXCEPT ![c] = left]
  /\ phase' = [phase EXCEPT ![c] = IF left = 0 THEN "closed" ELSE "open"]

Provision(c) ==
  /\ phase[c] = "none"
  /\ \E pool \in Pools :
       Emit(c, <<Event("PaycardProvisioned", c, pool, pool)>>, pool)

Settle(c) ==
  /\ phase[c] = "open"
  /\ \E amount \in 1 .. avail[c] :
       Emit(c, <<Event("SettlementFlushed", c, amount, avail[c] - amount)>>,
            avail[c] - amount)

(* The settlement part of a flush pays amount, the reclaim the rest.       *)
Flush(c) ==
  /\ phase[c] = "open"
  /\ \E amount \in 0 .. avail[c] - 1 :
       LET rest == avail[c] - amount
           settled == Event("SettlementFlushed", c, amount, rest)
           reclaimed == Event("ResidualDeltaReclaimed", c, rest, 0)
       IN  Emit(c, IF amount = 0 THEN <<reclaimed>> ELSE <<settled, reclaimed>>, 0)

Next == \E c \in Cards : Provision(c) \/ Settle(c) \/ Flush(c)

Spec == Init /\ [][Next]_vars
===============================================================================
