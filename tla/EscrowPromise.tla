---------------------------- MODULE EscrowPromise ----------------------------
(***************************************************************************)
(* What a Vault promises about one paycard, stated without checkpoints,    *)
(* balances or signatures: the escrowed pool belongs to the recipient at a *)
(* rate fixed when the card opens, and whatever is not yet earned when the *)
(* card closes goes back to the payer's recovery address.  The amount paid *)
(* after a settlement depends on the clock alone, never on how many        *)
(* settlements came before or when.                                        *)
(***************************************************************************)
EXTENDS Naturals

CONSTANTS
  Cards,    \* paycard identifiers
  Terms,    \* [pool, velocity, genesis, lifespan] records a card may open with
  NoTerms   \* terms of a card that was never opened

VARIABLES
  now,      \* block time
  terms,    \* terms[c]: what card c promises, or NoTerms
  paid,     \* paid[c]: total transferred to the recipient
  returned  \* returned[c]: total given back to the recovery address

vars == <<now, terms, paid, returned>>

AtMost(a, b) == IF a <= b THEN a ELSE b

Horizon(t) == t.genesis + t.lifespan

(* Whole seconds of the card's window that have elapsed at time.           *)
Streamed(t, time) ==
  IF time <= t.genesis THEN 0 ELSE AtMost(time, Horizon(t)) - t.genesis

(* What the recipient has earned at time; a card with no lifespan is a     *)
(* one-time payment and is earned at once.                                 *)
Entitled(t, time) ==
  IF t.lifespan = 0 THEN t.pool
  ELSE AtMost(t.pool, t.velocity * Streamed(t, time))

Closed(c) == terms[c] # NoTerms /\ paid[c] + returned[c] = terms[c].pool

Init ==
  /\ now \in Nat
  /\ terms = [c \in Cards |-> NoTerms]
  /\ paid = [c \in Cards |-> 0]
  /\ returned = [c \in Cards |-> 0]

Open(c) ==
  /\ terms[c] = NoTerms
  /\ \E t \in Terms :
       /\ t.lifespan > 0 => now < Horizon(t)
       /\ terms' = [terms EXCEPT ![c] = t]
  /\ UNCHANGED <<now, paid, returned>>

Settle(c) ==
  /\ terms[c] # NoTerms /\ ~Closed(c)
  /\ paid' = [paid EXCEPT ![c] = Entitled(terms[c], now)]
  /\ UNCHANGED <<now, terms, returned>>

Close(c) ==
  /\ terms[c] # NoTerms /\ ~Closed(c)
  /\ paid' = [paid EXCEPT ![c] = Entitled(terms[c], now)]
  /\ returned' = [returned EXCEPT ![c] =
                    terms[c].pool - Entitled(terms[c], now)]
  /\ UNCHANGED <<now, terms>>

Tick ==
  /\ now' \in {t \in Nat : t > now}
  /\ UNCHANGED <<terms, paid, returned>>

Next == Tick \/ \E c \in Cards : Open(c) \/ Settle(c) \/ Close(c)

Spec == Init /\ [][Next]_vars
==============================================================================
