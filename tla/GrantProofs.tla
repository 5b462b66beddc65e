------------------------------ MODULE GrantProofs ------------------------------
(***************************************************************************)
(* Theorems about what a payer hands out in advance: the budgets of agents *)
(* (AgentBudgetRegistry), for every set of accounts, budgets and paycards, *)
(* every integer width and every clock, and cards (CardFunding).           *)
(***************************************************************************)
EXTENDS AgentBudgetRegistry, CardFunding, FiniteSums, TLAPS

(* The types and the lists together are inductive: a paycard that is not   *)
(* bound is in no list, so that appending it repeats nothing.              *)
IInv == TypeOK /\ ListedOnce

(* Appending a new element keeps a sequence injective and adds it to the   *)
(* set of its elements.                                                    *)
LEMMA AppendNew ==
  ASSUME NEW S, NEW s \in Seq(S), NEW x \in S, IsInjective(s), x \notin ToSet(s)
  PROVE  /\ Append(s, x) \in Seq(S)
         /\ IsInjective(Append(s, x))
         /\ ToSet(Append(s, x)) = ToSet(s) \cup {x}
<1> DEFINE t == Append(s, x)
<1>1. /\ t \in Seq(S) /\ Len(t) = Len(s) + 1 /\ Len(s) \in Nat
      /\ DOMAIN t = 1 .. Len(s) + 1 /\ DOMAIN s = 1 .. Len(s)
      /\ \A i \in 1 .. Len(s) : t[i] = s[i]
      /\ t[Len(s) + 1] = x
  OBVIOUS
<1> HIDE DEF t
<1>2. \A i \in 1 .. Len(s) : s[i] # x
  BY <1>1 DEF ToSet
<1>3. IsInjective(t)
  <2> SUFFICES ASSUME NEW i \in DOMAIN t, NEW j \in DOMAIN t, t[i] = t[j]
               PROVE  i = j
    BY DEF IsInjective
  <2>1. CASE i \in 1 .. Len(s) /\ j \in 1 .. Len(s)
    BY <2>1, <1>1 DEF IsInjective
  <2>2. CASE i = Len(s) + 1 \/ j = Len(s) + 1
    BY <2>2, <1>1, <1>2
  <2> QED  BY <2>1, <2>2, <1>1
<1>4. ToSet(t) = ToSet(s) \cup {x}
  BY <1>1 DEF ToSet
<1> QED  BY <1>1, <1>3, <1>4 DEF t

(* Nothing exists at first.                                                *)
LEMMA InitIInv == Init => IInv
<1> SUFFICES ASSUME Init PROVE IInv
  OBVIOUS
<1> USE RegistryAssumption
<1>1. TypeOK
  BY DEF Init, TypeOK, NoBudget, BudgetType
<1>2. ListedOnce
  BY DEF Init, ListedOnce, BoundTo, NoBinding, IsInjective, ToSet
<1> QED  BY <1>1, <1>2 DEF IInv

(* A bind appends a paycard that no budget lists yet.                      *)
LEMMA BindKeepsLists ==
  ASSUME IInv, NEW a \in Accounts, NEW b \in Budgets, NEW p \in Paycards,
         NEW allocation \in Amounts, NEW velocity \in Amounts,
         BindPaycard(a, b, p, allocation, velocity)
  PROVE  ListedOnce'
<1> USE RegistryAssumption DEF IInv
<1>1. p \notin UNION {BoundTo(d) : d \in Budgets}
  BY DEF BindPaycard, Unbound, NoBinding, BoundTo
<1>2. /\ listed' = [listed EXCEPT ![b] = Append(@, p)]
      /\ bindings' = [bindings EXCEPT ![p] = [budget |-> b, allocation |-> allocation]]
  BY DEF BindPaycard
<1> SUFFICES ASSUME NEW d \in Budgets
             PROVE  IsInjective(listed'[d]) /\ ToSet(listed'[d]) = BoundTo(d)'
  BY DEF ListedOnce
<1>3. IsInjective(listed[d]) /\ ToSet(listed[d]) = BoundTo(d) /\ listed[d] \in Seq(Paycards)
  BY DEF ListedOnce, TypeOK
<1>4. CASE d = b
  <2>1. listed'[d] = Append(listed[d], p)
    BY <1>2, <1>4 DEF TypeOK
  <2>2. BoundTo(d)' = BoundTo(d) \cup {p}
    BY <1>2, <1>4 DEF BoundTo, TypeOK
  <2> QED  BY <2>1, <2>2, <1>1, <1>3, AppendNew
<1>5. CASE d # b
  <2>1. listed'[d] = listed[d]
    BY <1>2, <1>5 DEF TypeOK
  <2>2. BoundTo(d)' = BoundTo(d)
    BY <1>1, <1>2, <1>5 DEF BoundTo, TypeOK
  <2> QED  BY <2>1, <2>2, <1>3
<1> QED  BY <1>4, <1>5

(* Every transaction keeps the invariant.                                  *)
LEMMA StepIInv == IInv /\ [Next]_vars => IInv'
<1> SUFFICES ASSUME IInv, [Next]_vars PROVE IInv'
  OBVIOUS
<1> USE RegistryAssumption DEF IInv
<1>1. CASE Tick
  <2>1. TypeOK'
    BY <1>1 DEF Tick, TypeOK
  <2>2. ListedOnce'
    BY <1>1 DEF Tick, ListedOnce, BoundTo
  <2> QED  BY <2>1, <2>2
<1>2. ASSUME NEW b \in Budgets, NEW max \in Amounts, NEW velocity \in Amounts,
             NEW until \in 0 .. MaxTime, CreateBudget(b, max, velocity, until)
      PROVE  IInv'
  <2> DEFINE new == [NoBudget EXCEPT !.maxAllocation = max, !.maxVelocity = velocity,
                                     !.validUntil = until]
  <2>1. TypeOK'
    <3>1. new \in BudgetType
      <4>1. NoBudget \in BudgetType
        BY DEF NoBudget, BudgetType
      <4>2. max \in 0 .. MaxUint /\ velocity \in 0 .. MaxUint /\ until \in 0 .. MaxTime
        OBVIOUS
      <4> QED  BY <4>1, <4>2 DEF BudgetType
    <3>2. budgets' = [budgets EXCEPT ![b] = new]
      BY <1>2 DEF CreateBudget
    <3> HIDE DEF new
    <3>3. budgets' \in [Budgets -> BudgetType]
      BY <3>1, <3>2 DEF TypeOK
    <3> QED  BY <1>2, <3>3 DEF CreateBudget, TypeOK
  <2>2. ListedOnce'
    BY <1>2 DEF CreateBudget, ListedOnce, BoundTo
  <2> QED  BY <2>1, <2>2
<1>3. ASSUME NEW a \in Accounts, NEW b \in Budgets, HaltBudget(a, b)
      PROVE  IInv'
  <2>1. TypeOK'
    BY <1>3 DEF HaltBudget, TypeOK, BudgetType
  <2>2. ListedOnce'
    BY <1>3 DEF HaltBudget, ListedOnce, BoundTo
  <2> QED  BY <2>1, <2>2
<1>4. ASSUME NEW a \in Accounts, NEW b \in Budgets, NEW p \in Paycards,
             NEW allocation \in Amounts, NEW velocity \in Amounts,
             BindPaycard(a, b, p, allocation, velocity)
      PROVE  IInv'
  <2>1. TypeOK'
    <3>1. budgets[b].committed + allocation \in 0 .. MaxUint
      BY <1>4 DEF BindPaycard, IsSpendAllowed, TypeOK, BudgetType
    <3>2. budgets' \in [Budgets -> BudgetType]
      BY <1>4, <3>1 DEF BindPaycard, TypeOK, BudgetType
    <3>3. listed' \in [Budgets -> Seq(Paycards)]
      BY <1>4 DEF BindPaycard, TypeOK
    <3>4. bindings' \in [Paycards -> [budget : Budgets, allocation : 0 .. MaxUint]
                                     \cup {NoBinding}]
      BY <1>4 DEF BindPaycard, TypeOK
    <3> QED  BY <1>4, <3>2, <3>3, <3>4 DEF BindPaycard, TypeOK
  <2>2. ListedOnce'
    BY <1>4, BindKeepsLists
  <2> QED  BY <2>1, <2>2
<1>5. CASE UNCHANGED vars
  BY <1>5 DEF vars, TypeOK, ListedOnce, BoundTo
<1> QED  BY <1>1, <1>2, <1>3, <1>4, <1>5 DEF Next

-------------------------------------------------------------------------------
(* The sum of the allocations.                                             *)

Allocation == [p \in Paycards |-> bindings[p].allocation]

(* What CommittedBacked says of one budget.                                *)
Backed(b) ==
  /\ budgets[b].committed = SumFunctionOnSet(Allocation, BoundTo(b))
  /\ budgets[b].committed <= budgets[b].maxAllocation

LEMMA BackedAll == CommittedBacked <=> \A b \in Budgets : Backed(b)
BY DEF CommittedBacked, Backed, Allocation

(* Only finitely many paycards are bound to a budget: it lists them.       *)
LEMMA BoundFinite == ASSUME IInv, NEW b \in Budgets PROVE IsFiniteSet(BoundTo(b))
<1>1. listed[b] \in Seq(Paycards) /\ BoundTo(b) = ToSet(listed[b])
  BY DEF IInv, TypeOK, ListedOnce
<1>2. IsFiniteSet(1 .. Len(listed[b]))
  BY <1>1, FS_Interval
<1>3. ToSet(listed[b]) = {listed[b][i] : i \in 1 .. Len(listed[b])}
  BY <1>1 DEF ToSet
<1>4. IsFiniteSet({listed[b][i] : i \in 1 .. Len(listed[b])})
  <2> DEFINE f == [i \in 1 .. Len(listed[b]) |-> listed[b][i]]
             T == {listed[b][i] : i \in 1 .. Len(listed[b])}
  <2>1. f \in Surjection(1 .. Len(listed[b]), T)
    BY DEF Surjection
  <2> QED  BY <1>2, <2>1, FS_Surjection
<1> QED  BY <1>1, <1>3, <1>4

(* Allocations are naturals; that of no other paycard moves in a bind.     *)
LEMMA AllocationTyped == ASSUME TypeOK PROVE Allocation \in [Paycards -> Nat]
<1>1. \A p \in Paycards : bindings[p].allocation \in Nat
  BY RegistryAssumption DEF TypeOK, NoBinding
<1> QED  BY <1>1 DEF Allocation

(* A bind adds to the budget what it adds to the allocations.              *)
LEMMA BindKeepsBacked ==
  ASSUME IInv, CommittedBacked,
         NEW a \in Accounts, NEW b \in Budgets, NEW p \in Paycards,
         NEW allocation \in Amounts, NEW velocity \in Amounts,
         BindPaycard(a, b, p, allocation, velocity)
  PROVE  CommittedBacked'
<1> USE RegistryAssumption
<1>1. TypeOK /\ allocation \in Nat
  BY DEF IInv
<1>2. /\ \A d \in Budgets : d # b => budgets'[d] = budgets[d]
      /\ budgets'[b].committed = budgets[b].committed + allocation
      /\ budgets'[b].maxAllocation = budgets[b].maxAllocation
      /\ budgets[b].committed + allocation <= budgets[b].maxAllocation
  BY <1>1 DEF BindPaycard, IsSpendAllowed, TypeOK, BudgetType
<1>3. /\ bindings[p] = NoBinding
      /\ bindings' = [bindings EXCEPT ![p] = [budget |-> b, allocation |-> allocation]]
  BY DEF BindPaycard, Unbound
<1>4. Allocation'[p] = allocation /\ \A q \in Paycards : q # p => Allocation'[q] = Allocation[q]
  BY <1>1, <1>3 DEF Allocation, TypeOK
<1>5. \A d \in Budgets : p \notin BoundTo(d) /\ BoundTo(d) \subseteq Paycards
  BY <1>3 DEF BoundTo, NoBinding
<1>6. /\ BoundTo(b)' = BoundTo(b) \cup {p}
      /\ \A d \in Budgets : d # b => BoundTo(d)' = BoundTo(d)
  BY <1>1, <1>3, <1>5 DEF BoundTo, TypeOK, NoBinding
<1>7. \A q \in Paycards : Allocation'[q] \in Int
  BY <1>1, <1>4, AllocationTyped
<1> SUFFICES ASSUME NEW d \in Budgets PROVE Backed(d)'
  BY BackedAll DEF CommittedBacked, Backed, Allocation
<1> DEFINE S == BoundTo(d)
<1>8. IsFiniteSet(S) /\ p \notin S /\ S \subseteq Paycards
  BY <1>5, BoundFinite
<1>9. Backed(d)
  BY BackedAll
<1>10. SumFunctionOnSet(Allocation', S) = SumFunctionOnSet(Allocation, S)
  <2>1. \A q \in S : Allocation'[q] = Allocation[q]
    BY <1>4, <1>8
  <2> HIDE DEF S
  <2> QED  BY <1>8, <2>1, SumSame
<1>11. CASE d # b
  BY <1>2, <1>6, <1>9, <1>10, <1>11 DEF Backed
<1>12. CASE d = b
  <2>1. SumFunctionOnSet(Allocation', S \cup {p})
          = SumFunctionOnSet(Allocation', S) + Allocation'[p]
    <3>1. \A q \in S \cup {p} : Allocation'[q] \in Int
      BY <1>7, <1>8
    <3> HIDE DEF S
    <3> QED  BY <1>8, <3>1, SumJoin
  <2> QED  BY <1>2, <1>4, <1>6, <1>9, <1>10, <1>12, <2>1 DEF Backed
<1> QED  BY <1>11, <1>12

LEMMA StepBacked == IInv /\ CommittedBacked /\ [Next]_vars => CommittedBacked'
<1> SUFFICES ASSUME IInv, CommittedBacked, [Next]_vars PROVE CommittedBacked'
  OBVIOUS
<1>1. ASSUME UNCHANGED bindings,
             \A b \in Budgets : /\ budgets'[b].committed = budgets[b].committed
                                /\ budgets'[b].committed <= budgets'[b].maxAllocation
      PROVE  CommittedBacked'
  BY <1>1 DEF CommittedBacked, BoundTo
<1>2. CASE UNCHANGED <<budgets, bindings>>
  BY <1>1, <1>2 DEF CommittedBacked
<1>3. ASSUME NEW b \in Budgets, NEW max \in Amounts, NEW velocity \in Amounts,
             NEW until \in 0 .. MaxTime, CreateBudget(b, max, velocity, until)
      PROVE  CommittedBacked'
  <2>1. budgets[b].committed = 0 /\ budgets'[b].committed = 0
    BY <1>3 DEF CreateBudget, Creatable, Exists, NoBudget, IInv, TypeOK
  <2>2. budgets'[b].maxAllocation = max /\ 0 <= max
    BY <1>3, RegistryAssumption DEF CreateBudget, NoBudget, IInv, TypeOK
  <2>3. \A d \in Budgets : d # b => budgets'[d] = budgets[d]
    BY <1>3 DEF CreateBudget, IInv, TypeOK
  <2>4. UNCHANGED bindings
    BY <1>3 DEF CreateBudget
  <2> QED  BY <1>1, <2>1, <2>2, <2>3, <2>4 DEF CommittedBacked
<1>4. ASSUME NEW a \in Accounts, NEW b \in Budgets, HaltBudget(a, b)
      PROVE  CommittedBacked'
  <2>1. \A d \in Budgets : /\ budgets'[d].committed = budgets[d].committed
                           /\ budgets'[d].maxAllocation = budgets[d].maxAllocation
    BY <1>4 DEF HaltBudget, IInv, TypeOK, BudgetType
  <2> QED  BY <1>1, <1>4, <2>1 DEF HaltBudget, CommittedBacked
<1> QED
  BY <1>2, <1>3, <1>4, BindKeepsBacked DEF Next, Tick, vars

(* The invariant holds of every run (AgentBudgetRegistry).                 *)
THEOREM RegistryInvariant == Spec => []IInv
<1> QED  BY InitIInv, StepIInv, PTL DEF Spec

(* Every stored integer fits uint256 and every list holds paycards         *)
(* (createBudget, bindPaycard).                                            *)
THEOREM RegistryTypeCorrect == Spec => []TypeOK
<1>1. IInv => TypeOK
  BY DEF IInv
<1> QED  BY <1>1, RegistryInvariant, PTL

(* A paycard counts against exactly one budget, which lists it once        *)
(* (bindPaycard, getBudgetPaycards).                                       *)
THEOREM PaycardsListedOnce == Spec => []ListedOnce
<1>1. IInv => ListedOnce
  BY DEF IInv
<1> QED  BY <1>1, RegistryInvariant, PTL

(* What a budget has committed is the sum of its paycards' allocations and *)
(* never more than its owner allowed (isSpendAllowed, bindPaycard).        *)
THEOREM CommitmentsBacked == Spec => []CommittedBacked
<1>1. Init => CommittedBacked
  <2> SUFFICES ASSUME Init, NEW b \in Budgets PROVE Backed(b)
    BY BackedAll
  <2>1. BoundTo(b) = {}
    BY RegistryAssumption DEF Init, BoundTo, NoBinding
  <2>2. SumFunctionOnSet(Allocation, {}) = 0
    BY SumEmpty
  <2> QED  BY <2>1, <2>2 DEF Init, Backed, NoBudget
<1> QED  BY <1>1, StepBacked, RegistryInvariant, PTL DEF Spec

(* A halted or expired budget never commits anything again (haltBudget,    *)
(* isBudgetActive).                                                        *)
THEOREM InactiveStays == Spec => InactiveForGood
<1> DEFINE Stays(b) ==
      Exists(b) /\ ~IsBudgetActive(b) =>
        budgets'[b].committed = budgets[b].committed /\ ~IsBudgetActive(b)'
<1>1. ASSUME IInv, [Next]_vars, NEW b \in Budgets
      PROVE  Stays(b)
  <2> SUFFICES ASSUME Exists(b), ~IsBudgetActive(b)
               PROVE  budgets'[b].committed = budgets[b].committed /\ ~IsBudgetActive(b)'
    OBVIOUS
  <2> USE <1>1, RegistryAssumption DEF IInv
  <2>1. CASE Tick
    BY <2>1 DEF Tick, IsBudgetActive, Exists, TypeOK, BudgetType
  <2>2. ASSUME NEW d \in Budgets, NEW max \in Amounts, NEW velocity \in Amounts,
               NEW until \in 0 .. MaxTime, CreateBudget(d, max, velocity, until)
        PROVE  Stays(b)
    <3>1. d # b
      BY <2>2 DEF CreateBudget, Creatable
    <3> QED  BY <2>2, <3>1 DEF CreateBudget, IsBudgetActive, Exists, TypeOK
  <2>3. ASSUME NEW a \in Accounts, NEW d \in Budgets, HaltBudget(a, d)
        PROVE  Stays(b)
    BY <2>3 DEF HaltBudget, IsBudgetActive, Exists, TypeOK, BudgetType
  <2>4. ASSUME NEW a \in Accounts, NEW d \in Budgets, NEW p \in Paycards,
               NEW allocation \in Amounts, NEW velocity \in Amounts,
               BindPaycard(a, d, p, allocation, velocity)
        PROVE  Stays(b)
    <3>1. d # b
      BY <2>4 DEF BindPaycard
    <3> QED  BY <2>4, <3>1 DEF BindPaycard, IsBudgetActive, Exists, TypeOK
  <2>5. CASE UNCHANGED vars
    BY <2>5 DEF vars, IsBudgetActive, Exists
  <2> QED  BY <2>1, <2>2, <2>3, <2>4, <2>5 DEF Next
<1>2. IInv /\ [Next]_vars => [\A b \in Budgets : Stays(b)]_vars
  BY <1>1
<1>3. InactiveForGood <=> [][\A b \in Budgets : Stays(b)]_vars
  BY DEF InactiveForGood
<1> QED  BY <1>2, <1>3, RegistryInvariant, PTL DEF Spec
-------------------------------------------------------------------------------
(***************************************************************************)
(* Cards (CardFunding): what makes a card's nonce stale, for every number  *)
(* of cards, holders and payments.                                         *)
(***************************************************************************)

(* The invariant behind StaleMeansClaimed: the lane of a card has moved    *)
(* only if the card was opened, and only such a card was called stale.     *)
LaneInvariant ==
  /\ laneNonce \in [Lanes -> Nat]
  /\ \A c \in Cards : laneNonce[c] # 0 => c \in opened
  /\ told \subseteq opened

Stages == {"idle", "permit", "permitting", "reread", "open", "opening"}

(* Transactions name a card when they open one, and payments of requests   *)
(* use lane 0: what clients put into the pool.                             *)
PoolNamesCards ==
  /\ \A tx \in pool : tx.kind \in {"permit", "open"} => tx.card \in Cards
  /\ client \in [Holders -> [stage : Stages, card : Cards \cup {NoCard}]]
  /\ \A h \in Holders : client[h].stage # "idle" => client[h].card \in Cards

(* No step disturbs what is in the pool or in a client's hand.             *)
LEMMA PoolStep == ASSUME PoolNamesCards, [FundingNext]_fundingVars PROVE PoolNamesCards'
<1> USE DEF PoolNamesCards, Stages, Move, Idle
<1>1. ASSUME NEW c \in Cards, IssueCard(c) \/ Expire(c) \/ RelayClaim(c)
      PROVE PoolNamesCards'
  BY <1>1 DEF IssueCard, Expire, RelayClaim, Tx
<1>2. ASSUME NEW tx \in pool, Mine(tx) PROVE PoolNamesCards'
  BY <1>2 DEF Mine
<1>3. ASSUME NEW h \in Holders, Claim(h) PROVE PoolNamesCards'
  <2>1. ASSUME NEW c \in Cards, ReadFunding(h, c) PROVE PoolNamesCards'
    BY <2>1 DEF ReadFunding
  <2>2. CASE SendPermit(h)
    BY <2>2 DEF SendPermit, PermitTx, Tx
  <2>3. CASE AwaitPermit(h)
    BY <2>3 DEF AwaitPermit
  <2>4. CASE RereadAllowance(h)
    BY <2>4 DEF RereadAllowance
  <2>5. CASE SendOpen(h)
    BY <2>5 DEF SendOpen, OpenTx, Tx
  <2>6. CASE AwaitOpen(h)
    BY <2>6 DEF AwaitOpen
  <2> QED BY <1>3, <2>1, <2>2, <2>3, <2>4, <2>5, <2>6 DEF Claim
<1>4. ASSUME Pay PROVE PoolNamesCards'
  BY <1>4 DEF Pay, StartPayment, Approve, AwaitApproval, SendPayment,
              AwaitPayment, ApproveTx, PayTx, Tx
<1>5. CASE UNCHANGED fundingVars
  BY <1>5 DEF fundingVars
<1> QED BY <1>1, <1>2, <1>3, <1>4, <1>5 DEF FundingNext

(* Only the opening of a card moves its lane: a payment moves lane 0.      *)
LEMMA LaneStep ==
  ASSUME LaneInvariant, PoolNamesCards, [FundingNext]_fundingVars PROVE LaneInvariant'
<1> USE FundingAssumption DEF LaneInvariant, Lanes, Default, LaneOf
<1>1. ASSUME NEW tx \in pool, Mine(tx) PROVE LaneInvariant'
  <2>1. CASE ~Valid(tx)
    BY <1>1, <2>1 DEF Mine, chain
  <2>2. CASE Land(tx)
    <3>1. CASE tx.kind = "open" /\ Take(Amount[tx.card], tx.card)
               /\ opened' = opened \cup {tx.card}
      <4>1. tx.card \in Cards BY <3>1 DEF PoolNamesCards
      <4> QED BY <1>1, <3>1, <4>1 DEF Take, Mine
    <3>2. CASE Take(Request, NoCard) /\ UNCHANGED opened
      BY <1>1, <3>2 DEF Take, Mine
    <3>3. CASE UNCHANGED <<laneNonce, opened>>
      BY <1>1, <3>3 DEF Mine
    <3> QED BY <2>2, <3>1, <3>2, <3>3 DEF Land
  <2> QED BY <1>1, <2>1, <2>2 DEF Mine
<1>2. ASSUME NEW h \in Holders, NEW c \in Cards, ReadFunding(h, c)
      PROVE LaneInvariant'
  BY <1>2 DEF ReadFunding, Stale, chain
<1>3. CASE UNCHANGED <<chain, told>>
  BY <1>3 DEF chain
<1>4. ASSUME NEW c \in Cards, IssueCard(c) \/ Expire(c) \/ RelayClaim(c)
      PROVE UNCHANGED <<chain, told>>
  BY <1>4 DEF IssueCard, Expire, RelayClaim
<1>5. ASSUME NEW h \in Holders, SendPermit(h) \/ AwaitPermit(h)
               \/ RereadAllowance(h) \/ SendOpen(h) \/ AwaitOpen(h)
      PROVE UNCHANGED <<chain, told>>
  BY <1>5 DEF SendPermit, AwaitPermit, RereadAllowance, SendOpen, AwaitOpen
<1>6. ASSUME Pay PROVE UNCHANGED <<chain, told>>
  BY <1>6 DEF Pay, StartPayment, Approve, AwaitApproval, SendPayment, AwaitPayment
<1>7. CASE UNCHANGED fundingVars
  BY <1>3, <1>7 DEF fundingVars
<1> QED BY <1>1, <1>2, <1>3, <1>4, <1>5, <1>6, <1>7 DEF FundingNext, Claim

(* Lanes are independent: whoever is told that a card is stale or already  *)
(* claimed is told the truth, whatever the payer pays and whichever other  *)
(* cards are claimed (selectUnusedRailsCardLane, claimRailsCard).          *)
THEOREM StaleIsTrue == FundingSpec => []StaleMeansClaimed
<1> DEFINE LaneIInv == LaneInvariant /\ PoolNamesCards
<1>1. FundingInit => LaneIInv
  BY DEF FundingInit, LaneInvariant, PoolNamesCards, Stages, Idle, Lanes
<1>2. LaneIInv /\ [FundingNext]_fundingVars => LaneIInv'
  BY PoolStep, LaneStep
<1>3. LaneIInv => StaleMeansClaimed
  BY DEF LaneInvariant, StaleMeansClaimed
<1> HIDE DEF LaneIInv
<1> QED BY <1>1, <1>2, <1>3, PTL DEF FundingSpec
===============================================================================
