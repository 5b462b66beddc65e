-------------------------- MODULE AgentBudgetRegistry -------------------------
(***************************************************************************)
(* The agent budget registry: owners give agents budgets, owners or agents *)
(* bind paycards to them until the budget is used up, expires or is        *)
(* halted.  A budget's id is a hash of its owner, its agent and a salt but *)
(* not of its limits, so here the id determines the first two.  Every      *)
(* action is a transaction that succeeds; the others revert.               *)
(***************************************************************************)
EXTENDS Integers, Sequences, FiniteSets, SequencesExt, Functions

CONSTANTS
  Accounts, Budgets, Paycards,
  OwnerOf, AgentOf,  \* the accounts hashed into a budget's id
  Amounts,           \* allocations and limits that are asked for
  MaxUint,           \* largest uint256
  MaxTime            \* bound on the clock

ASSUME RegistryAssumption ==
  /\ OwnerOf \in [Budgets -> Accounts] /\ AgentOf \in [Budgets -> Accounts]
  /\ MaxUint \in Nat /\ Amounts \subseteq 0 .. MaxUint
  /\ MaxTime \in Nat
  /\ "none" \notin Budgets

VARIABLES
  now,       \* block.timestamp
  budgets,   \* budgets[b] : the struct, or NoBudget
  bindings,  \* paycardBindings[p] : the struct, or NoBinding
  listed     \* listed[b] : budgetPaycards[b], paycardCount entries long

vars == <<now, budgets, bindings, listed>>

NoBudget ==
  [maxAllocation |-> 0, maxVelocity |-> 0, validUntil |-> 0, halted |-> FALSE,
   committed |-> 0]
NoBinding == [budget |-> "none", allocation |-> 0]

BudgetType ==
  [ maxAllocation : 0 .. MaxUint, maxVelocity : 0 .. MaxUint,
    validUntil : 0 .. MaxTime, halted : BOOLEAN, committed : 0 .. MaxUint ]

TypeOK ==
  /\ now \in 1 .. MaxTime + 1
  /\ budgets \in [Budgets -> BudgetType]
  /\ bindings \in [Paycards -> [budget : Budgets, allocation : 0 .. MaxUint]
                                \cup {NoBinding}]
  /\ listed \in [Budgets -> Seq(Paycards)]

Init ==
  /\ now = 1
  /\ budgets = [b \in Budgets |-> NoBudget]
  /\ bindings = [p \in Paycards |-> NoBinding]
  /\ listed = [b \in Budgets |-> <<>>]

-------------------------------------------------------------------------------
Tick ==
  /\ now <= MaxTime /\ now' = now + 1
  /\ UNCHANGED <<budgets, bindings, listed>>

Exists(b) == budgets[b] # NoBudget
Party(a, b) == a \in {OwnerOf[b], AgentOf[b]}

(* Mutant: a budget may be created again, with other limits.               *)
Recreatable(b) == TRUE

Creatable(b) == ~Exists(b)

CreateBudget(b, max, velocity, until) ==
  /\ Creatable(b)
  /\ max # 0 /\ velocity # 0 /\ (until = 0 \/ until > now)
  /\ budgets' = [budgets EXCEPT ![b] =
                   [NoBudget EXCEPT !.maxAllocation = max, !.maxVelocity = velocity,
                                    !.validUntil = until]]
  /\ UNCHANGED <<now, bindings, listed>>

HaltBudget(a, b) ==
  /\ Exists(b) /\ Party(a, b)
  /\ budgets' = [budgets EXCEPT ![b].halted = TRUE]
  /\ UNCHANGED <<now, bindings, listed>>

IsBudgetActive(b) ==
  /\ Exists(b) /\ ~budgets[b].halted
  /\ budgets[b].validUntil = 0 \/ now <= budgets[b].validUntil

(* Mutant: each allocation is checked on its own.                          *)
SpendFits(b, allocation, velocity) ==
  /\ IsBudgetActive(b)
  /\ allocation # 0 /\ velocity # 0 /\ velocity <= budgets[b].maxVelocity
  /\ allocation <= budgets[b].maxAllocation

(* The sum reverts when it leaves uint256.                                 *)
IsSpendAllowed(b, allocation, velocity) ==
  /\ IsBudgetActive(b)
  /\ allocation # 0 /\ velocity # 0 /\ velocity <= budgets[b].maxVelocity
  /\ budgets[b].committed + allocation <= MaxUint
  /\ budgets[b].committed + allocation <= budgets[b].maxAllocation

(* Mutant: only bindings to the same budget count.                         *)
UnboundInBudget(p, b) == bindings[p].budget # b

Unbound(p, b) == bindings[p] = NoBinding

BindPaycard(a, b, p, allocation, velocity) ==
  /\ Exists(b) /\ Party(a, b) /\ IsBudgetActive(b)
  /\ Unbound(p, b)
  /\ IsSpendAllowed(b, allocation, velocity)
  /\ budgets' = [budgets EXCEPT ![b].committed = @ + allocation]
  /\ listed' = [listed EXCEPT ![b] = Append(@, p)]
  /\ bindings' = [bindings EXCEPT ![p] = [budget |-> b, allocation |-> allocation]]
  /\ UNCHANGED now

Next ==
  \/ Tick
  \/ \E b \in Budgets, max, velocity \in Amounts, until \in 0 .. MaxTime :
       CreateBudget(b, max, velocity, until)
  \/ \E a \in Accounts, b \in Budgets :
       \/ HaltBudget(a, b)
       \/ \E p \in Paycards, allocation, velocity \in Amounts :
            BindPaycard(a, b, p, allocation, velocity)

Spec == Init /\ [][Next]_vars

-------------------------------------------------------------------------------
(* Properties.                                                             *)

BoundTo(b) == {p \in Paycards : bindings[p].budget = b}

(* What a budget has committed is what its paycards were allocated, and    *)
(* never more than the owner allowed, whoever binds what in which order    *)
(* (bindPaycard).                                                          *)
CommittedBacked ==
  \A b \in Budgets :
    /\ budgets[b].committed =
         SumFunctionOnSet([p \in Paycards |-> bindings[p].allocation], BoundTo(b))
    /\ budgets[b].committed <= budgets[b].maxAllocation

(* A paycard counts against exactly one budget, and that budget lists it   *)
(* once: getBudgetPaycards neither forgets nor repeats a paycard           *)
(* (bindPaycard, getBudgetPaycards).                                       *)
ListedOnce ==
  \A b \in Budgets : IsInjective(listed[b]) /\ ToSet(listed[b]) = BoundTo(b)

(* A halted or expired budget never commits anything again: there is no    *)
(* way back from either (haltBudget, isBudgetActive).                      *)
InactiveForGood ==
  [][\A b \in Budgets :
       Exists(b) /\ ~IsBudgetActive(b) =>
         budgets'[b].committed = budgets[b].committed /\ ~IsBudgetActive(b)']_vars
===============================================================================
