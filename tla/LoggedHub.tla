------------------------------ MODULE LoggedHub -------------------------------
(***************************************************************************)
(* The Vault with the log its transactions leave on chain.  The log only   *)
(* records what a transaction did; it never influences one.                *)
(***************************************************************************)
EXTENDS OpenRailsHub

VARIABLE log

(* Mutant: a flush reports its reclaim and forgets its settlement.         *)
EmittedNet(c) ==
  LET left == registry'[c].availableBalance
      entry(kind, amount, rest) ==
        [kind |-> kind, card |-> c, amount |-> amount, left |-> rest]
      settled == paid'[c] - paid[c]
      reclaimed == swept'[c] - swept[c]
  IN  IF intent'[c] # intent[c]
      THEN <<entry("PaycardProvisioned", intent'[c].totalAllocationPool, left)>>
      ELSE IF reclaimed > 0
      THEN <<entry("ResidualDeltaReclaimed", reclaimed, left)>>
      ELSE <<entry("SettlementFlushed", settled, left)>>

(* The emit statements of the transaction that changed card c, in order.   *)
EmittedBy(c) ==
  LET left == registry'[c].availableBalance
      entry(kind, amount, rest) ==
        [kind |-> kind, card |-> c, amount |-> amount, left |-> rest]
      settled == paid'[c] - paid[c]
      reclaimed == swept'[c] - swept[c]
  IN  (IF intent'[c] = intent[c] THEN <<>>
       ELSE <<entry("PaycardProvisioned", intent'[c].totalAllocationPool, left)>>)
      \o (IF settled = 0 THEN <<>>
          ELSE <<entry("SettlementFlushed", settled, left + reclaimed)>>)
      \o (IF reclaimed = 0 THEN <<>>
          ELSE <<entry("ResidualDeltaReclaimed", reclaimed, left)>>)

LoggedInit == Init /\ log = [c \in Cards |-> <<>>]

LoggedNext ==
  /\ Next
  /\ \/ /\ registry' = registry
        /\ log' = log
     \/ \E c \in Cards :
          /\ registry'[c] # registry[c]
          /\ log' = [log EXCEPT ![c] = @ \o EmittedBy(c)]

LoggedSpec ==
  /\ LoggedInit /\ [][LoggedNext]_<<vars, log>>
  /\ WF_vars(Tick) /\ \A c \in Cards : WF_vars(ProcessDripSettle(c))

(* The log of one card, as HubLog has it of the only card it knows: each   *)
(* of the at most MaxTime paying settlements takes a second.               *)
Reader(c) == INSTANCE HubLog
  WITH Cards <- {c}, MaxLog <- MaxTime + 3, log <- log[c],
       Pools <- {e.totalAllocationPool : e \in Envelopes},
       avail <- [d \in {c} |-> registry[d].availableBalance],
       phase <- [d \in {c} |->
                   IF intent[d] = NoIntent THEN "none"
                   ELSE IF registry[d].operationalStatus = "Active" THEN "open"
                   ELSE "closed"]

(* What the Vault emits is a log its readers can replay: the amounts add   *)
(* up to the pool event by event, a flush of an exhausted card emits no    *)
(* reclaim, and nothing follows the event that closes a card               *)
(* (_openPaycardChannel, _settlePaycard, flushResidualDelta).              *)
EmitsReplayableLog ==
  /\ \A c \in Cards : Reader(c)!Init
  /\ [][\A c \in Cards : [Reader(c)!Next]_(Reader(c)!vars)]_<<vars, log>>
===============================================================================
