------------------------------ MODULE FiniteSums -------------------------------
(***************************************************************************)
(* Lemmas about SumFunctionOnSet, the sum of a function's values over a    *)
(* finite set, for the proofs of the invariants that are sums.  The        *)
(* library's induction theorems take a predicate, which the provers cannot *)
(* instantiate; here induction is the well-ordering of the naturals,       *)
(* applied to the set of the cardinalities of counterexamples.             *)
(***************************************************************************)
EXTENDS Integers, FiniteSets, Functions, FiniteSetTheorems,
        WellFoundedInduction, TLAPS

LEMMA NatOrdered == IsWellFoundedOn({ss \in Nat \X Nat : ss[1] < ss[2]}, Nat)
BY NatLessThanWellFounded DEF OpToRel

(* Every set of naturals has a least element.                              *)
LEMMA LeastNat ==
  ASSUME NEW T \in SUBSET Nat, T # {}
  PROVE  \E x \in T : \A y \in T : x <= y
<1> DEFINE R == {ss \in Nat \X Nat : ss[1] < ss[2]}
<1>1. IsWellFoundedOn(R, Nat)
  BY NatOrdered
<1> HIDE DEF R
<1>2. PICK x \in T : \A y \in T : ~ (<<y, x>> \in R)
  BY <1>1, WFMin
<1>3. ASSUME NEW y \in T PROVE x <= y
  <2>1. ~ (<<y, x>> \in R) /\ y \in Nat /\ x \in Nat
    BY <1>2
  <2>2. ~ (y < x)
    BY <2>1 DEF R
  <2> QED  BY <2>1, <2>2
<1> QED  BY <1>3

(* A property of the subsets of a finite set that a set has when it has    *)
(* its subsets with one element less holds of all of them.                 *)
LEMMA SubsetInduction ==
  ASSUME NEW S, IsFiniteSet(S), NEW T,
         \A s \in SUBSET S : (\A x \in s : s \ {x} \in T) => s \in T
  PROVE  \A s \in SUBSET S : s \in T
<1> DEFINE Bad == {s \in SUBSET S : s \notin T}
           Sizes == {Cardinality(s) : s \in Bad}
<1> SUFFICES ASSUME Bad # {} PROVE FALSE
  OBVIOUS
<1>1. \A s \in SUBSET S : IsFiniteSet(s) /\ Cardinality(s) \in Nat
  BY FS_Subset, FS_CardinalityType
<1>2. PICK n \in Sizes : \A m \in Sizes : n <= m
  <2>1. Sizes \in SUBSET Nat /\ Sizes # {}
    BY <1>1
  <2> HIDE DEF Sizes
  <2> QED  BY <2>1, LeastNat
<1>3. PICK s \in Bad : n = Cardinality(s)
  BY <1>2
<1>4. ASSUME NEW x \in s PROVE s \ {x} \in T
  <2>1. IsFiniteSet(s) /\ Cardinality(s \ {x}) = Cardinality(s) - 1
    BY <1>1, FS_RemoveElement
  <2>2. s \ {x} \in SUBSET S
    OBVIOUS
  <2>3. s \ {x} \notin Bad
    <3> SUFFICES ASSUME s \ {x} \in Bad PROVE FALSE
      OBVIOUS
    <3>1. Cardinality(s \ {x}) \in Sizes
      OBVIOUS
    <3> HIDE DEF Sizes, Bad
    <3>2. Cardinality(s) <= Cardinality(s) - 1 /\ Cardinality(s) \in Nat
      BY <1>1, <1>2, <1>3, <2>1, <3>1 DEF Bad
    <3> QED  BY <3>2
  <2> QED  BY <2>2, <2>3
<1> QED  BY <1>3, <1>4
-------------------------------------------------------------------------------
(* The element that the sum takes out of a set.                            *)
Picked(s) == CHOOSE x \in s : TRUE

(* g maps each subset of S to the sum of f over it, as SumFunctionOnSet    *)
(* computes it.                                                            *)
Sums(g, f, S) ==
  g = [s \in SUBSET S |->
         IF s = {} THEN 0 ELSE f[Picked(s)] + g[s \ {Picked(s)}]]

LEMMA PickedIn == ASSUME NEW s, s # {} PROVE Picked(s) \in s
BY DEF Picked

LEMMA SumIsChosen ==
  ASSUME NEW f, NEW S
  PROVE  SumFunctionOnSet(f, S) = (CHOOSE g : Sums(g, f, S))[S]
BY DEF SumFunctionOnSet, FoldFunctionOnSet, MapThenFoldSet, Sums, Picked

(* The same of the subsets that have at most n elements.                   *)
SumsUpTo(n, g, f, S) ==
  g = [s \in {t \in SUBSET S : Cardinality(t) <= n} |->
         IF s = {} THEN 0 ELSE f[Picked(s)] + g[s \ {Picked(s)}]]

LEMMA PartialSums ==
  ASSUME NEW f, NEW S, IsFiniteSet(S)
  PROVE  \A n \in Nat : \E g : SumsUpTo(n, g, f, S)
<1> DEFINE Upto(n) == {t \in SUBSET S : Cardinality(t) <= n}
           Rec(g, D) == [s \in D |->
              IF s = {} THEN 0 ELSE f[Picked(s)] + g[s \ {Picked(s)}]]
           Bad == {n \in Nat : ~ \E g : g = Rec(g, Upto(n))}
<1> SUFFICES ASSUME Bad # {} PROVE FALSE
  BY DEF SumsUpTo
<1>1. PICK n \in Bad : \A m \in Bad : n <= m
  <2>1. Bad \in SUBSET Nat
    OBVIOUS
  <2> HIDE DEF Bad
  <2> QED  BY <2>1, LeastNat
<1>2. \A s \in SUBSET S : IsFiniteSet(s) /\ Cardinality(s) \in Nat
  BY FS_Subset, FS_CardinalityType
<1>3. CASE n = 0
  <2> DEFINE g == [s \in Upto(0) |-> 0]
  <2>1. \A s \in Upto(0) : s = {}
    <3> TAKE s \in Upto(0)
    <3>1. IsFiniteSet(s) /\ Cardinality(s) = 0
      BY <1>2
    <3> QED  BY <3>1, FS_EmptySet
  <2>2. Rec(g, Upto(0)) = g
    BY <2>1
  <2> HIDE DEF g, Rec, Upto
  <2> QED  BY <1>1, <1>3, <2>2
<1>4. CASE n # 0
  <2>1. n - 1 \in Nat /\ n - 1 \notin Bad /\ n \in Nat
    <3>1. n \in Nat /\ n - 1 \in Nat
      BY <1>4
    <3>2. n - 1 \notin Bad
      <4> HIDE DEF Bad
      <4> QED  BY <1>1, <3>1
    <3> QED  BY <3>1, <3>2
  <2>2. PICK h : h = Rec(h, Upto(n - 1))
    BY <2>1
  <2> DEFINE g == Rec(h, Upto(n))
  <2>3. \A s \in Upto(n - 1) : s \in Upto(n) /\ g[s] = h[s]
    <3> TAKE s \in Upto(n - 1)
    <3>1. s \in Upto(n)
      BY <2>1, <1>2
    <3>2. h[s] = IF s = {} THEN 0 ELSE f[Picked(s)] + h[s \ {Picked(s)}]
      BY <2>2
    <3>3. g[s] = IF s = {} THEN 0 ELSE f[Picked(s)] + h[s \ {Picked(s)}]
      BY <3>1
    <3> QED  BY <3>1, <3>2, <3>3
  <2>4. \A s \in Upto(n) : s # {} => s \ {Picked(s)} \in Upto(n - 1)
    <3> SUFFICES ASSUME NEW s \in Upto(n), s # {}
                 PROVE  s \ {Picked(s)} \in Upto(n - 1)
      OBVIOUS
    <3>1. Picked(s) \in s /\ IsFiniteSet(s) /\ Cardinality(s) \in Nat
      BY <1>2, PickedIn
    <3>2. Cardinality(s \ {Picked(s)}) = Cardinality(s) - 1
      BY <3>1, FS_RemoveElement
    <3> QED  BY <2>1, <3>1, <3>2
  <2>5. \A s \in Upto(n) :
          g[s] = IF s = {} THEN 0 ELSE f[Picked(s)] + g[s \ {Picked(s)}]
    <3> TAKE s \in Upto(n)
    <3>1. g[s] = IF s = {} THEN 0 ELSE f[Picked(s)] + h[s \ {Picked(s)}]
      OBVIOUS
    <3> QED  BY <2>3, <2>4, <3>1
  <2>6. g = Rec(g, Upto(n))
    <3> HIDE DEF Upto
    <3>1. \A s \in Upto(n) : Rec(h, Upto(n))[s] = Rec(g, Upto(n))[s]
      BY <2>5
    <3> QED  BY <3>1
  <2> HIDE DEF g, Rec, Upto
  <2> QED  BY <1>1, <2>6
<1> QED  BY <1>3, <1>4

(* So the function that SumFunctionOnSet chooses is one.                   *)
LEMMA SumsExist ==
  ASSUME NEW f, NEW S, IsFiniteSet(S)
  PROVE  \E g : Sums(g, f, S) /\ SumFunctionOnSet(f, S) = g[S]
<1> DEFINE n == Cardinality(S)
<1>1. n \in Nat
  BY FS_CardinalityType
<1>2. {t \in SUBSET S : Cardinality(t) <= n} = SUBSET S
  <2>1. \A t \in SUBSET S : Cardinality(t) <= n
    BY FS_Subset
  <2> QED  BY <2>1
<1>3. \E g : Sums(g, f, S)
  <2> HIDE DEF n
  <2>1. PICK g : SumsUpTo(n, g, f, S)
    BY <1>1, PartialSums
  <2>2. Sums(g, f, S)
    BY <1>2, <2>1 DEF Sums, SumsUpTo
  <2> QED  BY <2>2
<1>4. Sums(CHOOSE g : Sums(g, f, S), f, S)
  BY <1>3
<1> QED  BY <1>4, SumIsChosen
(* One step of a sum.                                                      *)
LEMMA SumsStep ==
  ASSUME NEW g, NEW f, NEW S, Sums(g, f, S), NEW s \in SUBSET S, s # {}
  PROVE  /\ Picked(s) \in s /\ s \ {Picked(s)} \in SUBSET S
         /\ g[s] = f[Picked(s)] + g[s \ {Picked(s)}]
<1>1. Picked(s) \in s
  BY PickedIn
<1> QED  BY <1>1 DEF Sums

LEMMA SumsInt ==
  ASSUME NEW S, IsFiniteSet(S), NEW f, \A x \in S : f[x] \in Int,
         NEW g, Sums(g, f, S)
  PROVE  \A s \in SUBSET S : g[s] \in Int
<1> DEFINE T == {s \in SUBSET S : g[s] \in Int}
<1>1. ASSUME NEW s \in SUBSET S, \A x \in s : s \ {x} \in T
      PROVE  s \in T
  <2>1. CASE s = {}
    BY <2>1 DEF Sums
  <2>2. CASE s # {}
    <3>1. g[s] = f[Picked(s)] + g[s \ {Picked(s)}] /\ Picked(s) \in s
      BY <2>2, SumsStep
    <3>2. g[s \ {Picked(s)}] \in Int /\ f[Picked(s)] \in Int
      BY <1>1, <3>1
    <3> QED  BY <3>1, <3>2
  <2> QED  BY <2>1, <2>2
<1> HIDE DEF T
<1>2. \A s \in SUBSET S : s \in T
  BY <1>1, SubsetInduction
<1> QED  BY <1>2 DEF T

(* The order in which elements are taken out makes no difference.          *)
LEMMA SumsRemove ==
  ASSUME NEW S, IsFiniteSet(S), NEW f, \A x \in S : f[x] \in Int,
         NEW g, Sums(g, f, S)
  PROVE  \A s \in SUBSET S : \A x \in s : g[s] = f[x] + g[s \ {x}]
<1> DEFINE Splits(s) == \A x \in s : g[s] = f[x] + g[s \ {x}]
           T == {s \in SUBSET S : Splits(s)}
<1>0. \A s \in SUBSET S : g[s] \in Int
  BY SumsInt
<1>1. ASSUME NEW s \in SUBSET S, \A x \in s : s \ {x} \in T
      PROVE  s \in T
  <2> SUFFICES ASSUME NEW x \in s PROVE g[s] = f[x] + g[s \ {x}]
    OBVIOUS
  <2> DEFINE p == Picked(s)
  <2>1. p \in s /\ g[s] = f[p] + g[s \ {p}]
    BY SumsStep
  <2> HIDE DEF p
  <2>2. CASE x = p
    BY <2>1, <2>2
  <2>3. CASE x # p
    <3>1. g[s \ {p}] = f[x] + g[(s \ {p}) \ {x}]
      BY <1>1, <2>1, <2>3
    <3>2. g[s \ {x}] = f[p] + g[(s \ {x}) \ {p}]
      BY <1>1, <2>1, <2>3
    <3>3. (s \ {p}) \ {x} = (s \ {x}) \ {p}
      OBVIOUS
    <3> DEFINE rest == g[(s \ {x}) \ {p}]
               fx == f[x]
               fp == f[p]
    <3>4. fx \in Int /\ fp \in Int /\ rest \in Int
      BY <1>0, <2>1
    <3>5. g[s] = fp + (fx + rest) /\ g[s \ {x}] = fp + rest
      BY <2>1, <3>1, <3>2, <3>3
    <3> HIDE DEF rest, fx, fp
    <3>6. fp + (fx + rest) = fx + (fp + rest)
      BY <3>4
    <3> QED  BY <3>5, <3>6 DEF fx
  <2> QED  BY <2>2, <2>3
<1> HIDE DEF T
<1>2. \A s \in SUBSET S : s \in T
  BY <1>1, SubsetInduction
<1> QED  BY <1>2 DEF T

(* Sums of functions that agree are equal, whatever larger set the partial *)
(* sums of one of them range over.                                         *)
LEMMA SumsAgree ==
  ASSUME NEW U, NEW S \in SUBSET U, IsFiniteSet(S),
         NEW f, NEW h, \A x \in S : f[x] = h[x],
         NEW g, Sums(g, f, U), NEW k, Sums(k, h, S)
  PROVE  g[S] = k[S]
<1> DEFINE T == {s \in SUBSET S : g[s] = k[s]}
<1>1. ASSUME NEW s \in SUBSET S, \A x \in s : s \ {x} \in T
      PROVE  s \in T
  <2>0. s \in SUBSET U
    OBVIOUS
  <2>1. CASE s = {}
    BY <2>0, <2>1 DEF Sums
  <2>2. CASE s # {}
    <3>1. /\ g[s] = f[Picked(s)] + g[s \ {Picked(s)}] /\ Picked(s) \in s
          /\ k[s] = h[Picked(s)] + k[s \ {Picked(s)}]
      BY <2>0, <2>2, SumsStep
    <3>2. g[s \ {Picked(s)}] = k[s \ {Picked(s)}] /\ f[Picked(s)] = h[Picked(s)]
      BY <1>1, <3>1
    <3> QED  BY <3>1, <3>2
  <2> QED  BY <2>1, <2>2
<1> HIDE DEF T
<1>2. \A s \in SUBSET S : s \in T
  BY <1>1, SubsetInduction
<1> QED  BY <1>2 DEF T

-------------------------------------------------------------------------------
(* What the proofs use.                                                    *)

LEMMA SumEmpty == ASSUME NEW f PROVE SumFunctionOnSet(f, {}) = 0
<1>1. PICK g : Sums(g, f, {}) /\ SumFunctionOnSet(f, {}) = g[{}]
  BY SumsExist, FS_EmptySet
<1> QED  BY <1>1 DEF Sums

LEMMA SumInt ==
  ASSUME NEW S, IsFiniteSet(S), NEW f, \A x \in S : f[x] \in Int
  PROVE  SumFunctionOnSet(f, S) \in Int
<1>1. PICK g : Sums(g, f, S) /\ SumFunctionOnSet(f, S) = g[S]
  BY SumsExist
<1> QED  BY <1>1, SumsInt

(* Sums of functions that agree on the set are equal.                      *)
LEMMA SumSame ==
  ASSUME NEW S, IsFiniteSet(S), NEW f, NEW h, \A x \in S : f[x] = h[x]
  PROVE  SumFunctionOnSet(f, S) = SumFunctionOnSet(h, S)
<1>1. PICK g : Sums(g, f, S) /\ SumFunctionOnSet(f, S) = g[S]
  BY SumsExist
<1>2. PICK k : Sums(k, h, S) /\ SumFunctionOnSet(h, S) = k[S]
  BY SumsExist
<1>3. S \in SUBSET S
  OBVIOUS
<1>4. g[S] = k[S]
  BY <1>1, <1>2, <1>3, SumsAgree
<1> QED  BY <1>1, <1>2, <1>4

(* A sum is one of its values and the sum of the others.                   *)
LEMMA SumSplit ==
  ASSUME NEW S, IsFiniteSet(S), NEW f, \A y \in S : f[y] \in Int, NEW x \in S
  PROVE  /\ SumFunctionOnSet(f, S) = f[x] + SumFunctionOnSet(f, S \ {x})
         /\ SumFunctionOnSet(f, S \ {x}) \in Int
<1> DEFINE R == S \ {x}
<1>1. IsFiniteSet(R) /\ R \in SUBSET S
  BY FS_Subset
<1>2. PICK g : Sums(g, f, S) /\ SumFunctionOnSet(f, S) = g[S]
  BY SumsExist
<1>3. PICK k : Sums(k, f, R) /\ SumFunctionOnSet(f, R) = k[R]
  BY <1>1, SumsExist
<1>4. g[S] = f[x] + g[R]
  BY <1>2, SumsRemove
<1> HIDE DEF R
<1>5. g[R] = k[R]
  BY <1>1, <1>2, <1>3, SumsAgree
<1>6. SumFunctionOnSet(f, R) \in Int
  BY <1>1, SumInt
<1> QED  BY <1>2, <1>3, <1>4, <1>5, <1>6 DEF R

(* When one value changes, the sum changes by as much.                     *)
LEMMA SumChange ==
  ASSUME NEW S, IsFiniteSet(S), NEW x \in S,
         NEW f, \A y \in S : f[y] \in Int, NEW h, \A y \in S : h[y] \in Int,
         \A y \in S : y # x => h[y] = f[y]
  PROVE  SumFunctionOnSet(h, S) = SumFunctionOnSet(f, S) - f[x] + h[x]
<1> DEFINE R == S \ {x}
<1>1. IsFiniteSet(R) /\ \A y \in R : f[y] = h[y]
  BY FS_Subset
<1>2. SumFunctionOnSet(f, R) = SumFunctionOnSet(h, R)
  <2> HIDE DEF R
  <2> QED  BY <1>1, SumSame
<1>3. /\ SumFunctionOnSet(f, S) = f[x] + SumFunctionOnSet(f, R)
      /\ SumFunctionOnSet(h, S) = h[x] + SumFunctionOnSet(h, R)
      /\ SumFunctionOnSet(f, R) \in Int /\ SumFunctionOnSet(h, R) \in Int
  BY SumSplit
<1>4. f[x] \in Int /\ h[x] \in Int
  OBVIOUS
<1> HIDE DEF R
<1> QED  BY <1>2, <1>3, <1>4

(* When an element joins the set, its value joins the sum.                 *)
LEMMA SumJoin ==
  ASSUME NEW S, IsFiniteSet(S), NEW x, x \notin S,
         NEW f, \A y \in S \cup {x} : f[y] \in Int
  PROVE  SumFunctionOnSet(f, S \cup {x}) = SumFunctionOnSet(f, S) + f[x]
<1> DEFINE U == S \cup {x}
<1>1. IsFiniteSet(U) /\ x \in U /\ U \ {x} = S
  BY FS_AddElement
<1>2. \A y \in U : f[y] \in Int
  OBVIOUS
<1> HIDE DEF U
<1>3. /\ SumFunctionOnSet(f, U) = f[x] + SumFunctionOnSet(f, S)
      /\ SumFunctionOnSet(f, S) \in Int /\ f[x] \in Int
  BY <1>1, <1>2, SumSplit
<1> QED  BY <1>3 DEF U

(* A sum of naturals is a natural and no less than any of its values.      *)
LEMMA SumNat ==
  ASSUME NEW S, IsFiniteSet(S), NEW f, \A y \in S : f[y] \in Nat
  PROVE  /\ SumFunctionOnSet(f, S) \in Nat
         /\ \A x \in S : f[x] <= SumFunctionOnSet(f, S)
<1> DEFINE T == {s \in SUBSET S : SumFunctionOnSet(f, s) \in Nat}
<1>1. ASSUME NEW s \in SUBSET S, \A x \in s : s \ {x} \in T
      PROVE  s \in T
  <2>1. CASE s = {}
    BY <2>1, SumEmpty
  <2>2. CASE s # {}
    <3>1. PICK x \in s : TRUE
      BY <2>2
    <3>2. IsFiniteSet(s) /\ \A y \in s : f[y] \in Int
      BY FS_Subset
    <3>3. SumFunctionOnSet(f, s) = f[x] + SumFunctionOnSet(f, s \ {x})
      BY <3>2, SumSplit
    <3>4. SumFunctionOnSet(f, s \ {x}) \in Nat /\ f[x] \in Nat
      BY <1>1
    <3> QED  BY <3>3, <3>4
  <2> QED  BY <2>1, <2>2
<1> HIDE DEF T
<1>2. \A s \in SUBSET S : s \in T
  BY <1>1, SubsetInduction
<1>3. \A s \in SUBSET S : SumFunctionOnSet(f, s) \in Nat
  BY <1>2 DEF T
<1>4. ASSUME NEW x \in S PROVE f[x] <= SumFunctionOnSet(f, S)
  <2>1. \A y \in S : f[y] \in Int
    OBVIOUS
  <2>2. SumFunctionOnSet(f, S) = f[x] + SumFunctionOnSet(f, S \ {x})
    BY <2>1, SumSplit
  <2>3. SumFunctionOnSet(f, S \ {x}) \in Nat /\ f[x] \in Nat
    BY <1>3
  <2> QED  BY <2>2, <2>3
<1> QED  BY <1>3, <1>4
(* A sum over a part of the set is no greater.                             *)
LEMMA SumPart ==
  ASSUME NEW S, IsFiniteSet(S), NEW f, \A y \in S : f[y] \in Nat,
         NEW P \in SUBSET S
  PROVE  SumFunctionOnSet(f, P) <= SumFunctionOnSet(f, S)
<1> DEFINE sum(s) == SumFunctionOnSet(f, s)
           T == {s \in SUBSET S : sum(P \cap s) <= sum(s)}
<1>1. ASSUME NEW s \in SUBSET S
      PROVE  /\ IsFiniteSet(s) /\ sum(s) \in Nat
             /\ \A x \in s : sum(s) = f[x] + sum(s \ {x})
  <2>1. IsFiniteSet(s) /\ (\A y \in s : f[y] \in Nat) /\ \A y \in s : f[y] \in Int
    BY FS_Subset
  <2> QED  BY <2>1, SumNat, SumSplit
<1> HIDE DEF sum
<1>2. ASSUME NEW s \in SUBSET S, \A x \in s : s \ {x} \in T
      PROVE  s \in T
  <2>1. CASE s = {}
    <3>1. P \cap s = s /\ sum(s) \in Nat
      BY <1>1, <2>1
    <3> QED  BY <3>1
  <2>2. CASE s # {}
    <3>1. PICK x \in s : TRUE
      BY <2>2
    <3> DEFINE r == s \ {x}
    <3>2. sum(s) = f[x] + sum(r) /\ f[x] \in Nat
      BY <1>1
    <3>3. r \in SUBSET S /\ P \cap r \in SUBSET S /\ P \cap s \in SUBSET S
      OBVIOUS
    <3>4. sum(P \cap r) <= sum(r)
      BY <1>2, <3>1
    <3>5. CASE x \in P
      <4>1. x \in P \cap s /\ (P \cap s) \ {x} = P \cap r
        BY <3>5
      <4>2. sum(P \cap s) = f[x] + sum(P \cap r)
        BY <1>1, <3>3, <4>1
      <4>3. sum(P \cap r) \in Nat /\ sum(r) \in Nat
        BY <1>1, <3>3
      <4>4. sum(P \cap s) <= sum(s)
        BY <3>2, <3>4, <4>2, <4>3
      <4> QED  BY <4>4
    <3>6. CASE x \notin P
      <4>1. sum(P \cap s) = sum(P \cap r)
        <5>1. P \cap s = P \cap r
          BY <3>6
        <5> QED  BY <5>1, Zenon
      <4>2. sum(r) \in Nat /\ sum(P \cap r) \in Nat
        BY <1>1, <3>3
      <4> HIDE DEF r
      <4>3. sum(P \cap s) <= sum(s)
        BY <3>2, <3>4, <4>1, <4>2
      <4> QED  BY <4>3
    <3> QED  BY <3>5, <3>6
  <2> QED  BY <2>1, <2>2
<1> HIDE DEF T
<1>3. \A s \in SUBSET S : s \in T
  BY <1>2, SubsetInduction
<1>4. S \in SUBSET S /\ P \cap S = P
  OBVIOUS
<1>5. sum(P \cap S) <= sum(S)
  BY <1>3, <1>4 DEF T
<1> QED  BY <1>4, <1>5 DEF sum
================================================================================
