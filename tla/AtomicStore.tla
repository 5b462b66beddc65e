------------------------------ MODULE AtomicStore ------------------------------
(***************************************************************************)
(* What the Runtime asks of its store: a transition happens at one moment, *)
(* against the state of that moment, together with its replay nonce, or    *)
(* not at all; and an answer other than an internal error says which.      *)
(***************************************************************************)
CONSTANTS
  Attempts,    \* requests as they arrive: a retry is an attempt of its own
  Nonce,       \* Nonce[a]: the replay scope a consumes, or NoNonce
  NoNonce,
  States,      \* Runtime states
  EmptyState,  \* emptyRuntimeState()
  Transition,  \* Transition[a][s]: the state a makes of s, or Refused
  Refused

VARIABLES
  state,    \* the committed Runtime state
  used,     \* the consumed replay nonces
  outcome,  \* outcome[a]: what became of attempt a, once that is settled
  answer    \* answer[a]: what its client was told

vars == <<state, used, outcome, answer>>

Outcomes == {"none", "applied", "refused", "conflict"}

Init ==
  /\ state = EmptyState /\ used = {}
  /\ outcome = [a \in Attempts |-> "none"]
  /\ answer = [a \in Attempts |-> "none"]

Consumed(a) == {Nonce[a]} \ {NoNonce}

Apply(a) ==
  /\ outcome[a] = "none"
  /\ Consumed(a) \cap used = {}
  /\ Transition[a][state] # Refused
  /\ state' = Transition[a][state] /\ used' = used \cup Consumed(a)
  /\ outcome' = [outcome EXCEPT ![a] = "applied"]
  /\ UNCHANGED answer

Decline(a, why) ==
  /\ outcome[a] = "none" /\ answer[a] = "none"
  /\ why = IF Consumed(a) \cap used = {} THEN "refused" ELSE "conflict"
  /\ why = "refused" => Transition[a][state] = Refused
  /\ outcome' = [outcome EXCEPT ![a] = why]
  /\ UNCHANGED <<state, used, answer>>

(* An internal error says nothing: the attempt may be applied after it.    *)
Answer(a) ==
  /\ answer[a] = "none"
  /\ \/ answer' = [answer EXCEPT ![a] = "error"]
     \/ outcome[a] # "none" /\ answer' = [answer EXCEPT ![a] = outcome[a]]
  /\ UNCHANGED <<state, used, outcome>>

Next ==
  \E a \in Attempts :
    Apply(a) \/ (\E why \in Outcomes : Decline(a, why)) \/ Answer(a)

Spec == Init /\ [][Next]_vars
===============================================================================
