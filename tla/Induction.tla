----------------------------- MODULE Induction -----------------------------
(***************************************************************************)
(* Induction and recursive functions over the natural numbers, stated with *)
(* sets instead of predicates: a proof applies them to {n \in Nat : P(n)}. *)
(* They rest on the strict inclusion of finite sets being well-founded.    *)
(***************************************************************************)
EXTENDS Integers, FiniteSetTheorems, TLAPS

\* A set of numbers that holds 0 and every successor holds all.
THEOREM NaturalsAreInductive ==
  ASSUME NEW S \in SUBSET Nat, 0 \in S, \A n \in S : n + 1 \in S
  PROVE  S = Nat
  <1> SUFFICES ASSUME NEW k \in Nat, k \notin S PROVE FALSE OBVIOUS
  <1> DEFINE T == {0..n : n \in Nat \ S}
             R == StrictSubsetOrdering(Nat)
  <1>1. IsWellFoundedOn(R, FiniteSubsetsOf(Nat)) BY FS_StrictSubsetOrderingWellFounded
  <1>2. T \subseteq FiniteSubsetsOf(Nat)
    <2> SUFFICES ASSUME NEW n \in Nat \ S PROVE 0..n \in FiniteSubsetsOf(Nat) OBVIOUS
    <2>1. IsFiniteSet(0..n) BY FS_Interval
    <2> QED BY <2>1 DEF FiniteSubsetsOf
  <1>3. T # {} OBVIOUS
  <1> HIDE DEF R
  <1>4. \E u \in T : \A v \in T : ~(<<v, u>> \in R)
    <2> HIDE DEF T
    <2> QED BY <1>1, <1>2, <1>3, WFMin
  <1>5. PICK n \in Nat \ S : \A v \in T : ~(<<v, 0..n>> \in R) BY <1>4
  <1>6. n # 0 /\ n - 1 \in Nat /\ (n - 1) + 1 = n OBVIOUS
  <1>7. n - 1 \notin S BY <1>6
  <1>8. 0..(n-1) \in T BY <1>6, <1>7
  <1>9. <<0..(n-1), 0..n>> \in R
    <2>1. 0..(n-1) \subseteq 0..n /\ 0..(n-1) # 0..n BY <1>6
    <2>2. 0..(n-1) \in SUBSET Nat /\ 0..n \in SUBSET Nat BY <1>6
    <2> QED BY <2>1, <2>2 DEF R, StrictSubsetOrdering
  <1> QED BY <1>5, <1>8, <1>9

\* A set of numbers that is not empty has a least one.
THEOREM LeastExists ==
  ASSUME NEW S \in SUBSET Nat, S # {}
  PROVE  \E m \in S : \A n \in S : m <= n
  <1> SUFFICES ASSUME \A m \in S : \E n \in S : n < m PROVE FALSE OBVIOUS
  <1> DEFINE T == {n \in Nat : \A k \in 0..n : k \notin S}
  <1>1. 0 \in T OBVIOUS
  <1>2. \A n \in T : n + 1 \in T
    <2> SUFFICES ASSUME NEW n \in Nat, \A k \in 0..n : k \notin S, n + 1 \in S PROVE FALSE
      OBVIOUS
    <2>1. PICK m \in S : m < n + 1 OBVIOUS
    <2> QED BY <2>1
  <1> HIDE DEF T
  <1>3. T = Nat
    <2>1. T \in SUBSET Nat BY DEF T
    <2> QED BY <1>1, <1>2, <2>1, NaturalsAreInductive
  <1>4. PICK k \in S : TRUE OBVIOUS
  <1>5. k \in T /\ k \in 0..k BY <1>3
  <1> QED BY <1>5 DEF T

\* What holds of the first place of a finite row, and passes from each place to
\* the next, holds of all: S is the set of the places it holds of.
THEOREM PlacesAreInductive ==
  ASSUME NEW n \in Nat, NEW S, 0 \in S, \A i \in 1..n : i - 1 \in S => i \in S
  PROVE  0..n \subseteq S
  <1> DEFINE T == {i \in Nat : i <= n => i \in S}
  <1>1. \A i \in T : i + 1 \in T
    <2> SUFFICES ASSUME NEW i \in Nat, i <= n => i \in S, i + 1 <= n PROVE i + 1 \in S
      OBVIOUS
    <2>1. i + 1 \in 1..n /\ (i + 1) - 1 = i /\ i <= n OBVIOUS
    <2> QED BY <2>1
  <1>2. 0 \in T OBVIOUS
  <1>3. T \in SUBSET Nat OBVIOUS
  <1> HIDE DEF T
  <1>4. T = Nat BY <1>1, <1>2, <1>3, NaturalsAreInductive
  <1> QED BY <1>4 DEF T

\* f begins with first and goes on from place to place by the steps in G.
Follows(f, n, first, G) == f[0] = first /\ \A i \in 1..n : f[i] = G[i][f[i-1]]

\* Such a function exists, whatever the steps are.
THEOREM RecursionExists ==
  ASSUME NEW n \in Nat, NEW X, NEW first \in X, NEW G \in [1..n -> [X -> X]]
  PROVE  \E f \in [0..n -> X] : Follows(f, n, first, G)
  <1> DEFINE Upto(m) == \E f \in [0..m -> X] : f[0] = first /\ \A i \in 1..m : f[i] = G[i][f[i-1]]
             S == {m \in 0..n : Upto(m)}
  <1>1. 0 \in S
    <2> DEFINE f == [i \in 0..0 |-> first]
    <2>1. f \in [0..0 -> X] /\ f[0] = first /\ \A i \in 1..0 : f[i] = G[i][f[i-1]] OBVIOUS
    <2>2. Upto(0) BY <2>1
    <2> QED BY <2>2
  <1>2. ASSUME NEW m \in 1..n, m - 1 \in S PROVE m \in S
    <2>1. PICK f \in [0..(m-1) -> X] : f[0] = first /\ \A i \in 1..(m-1) : f[i] = G[i][f[i-1]]
      BY <1>2
    <2> DEFINE g == [i \in 0..m |-> IF i = m THEN G[m][f[m-1]] ELSE f[i]]
    <2>2. m - 1 \in 0..(m-1) /\ \A i \in 0..m : i # m => i \in 0..(m-1) OBVIOUS
    <2>3. G[m][f[m-1]] \in X BY <2>1, <2>2
    <2>4. g \in [0..m -> X] BY <2>1, <2>2, <2>3
    <2>5. g[0] = first BY <2>1
    <2>6. ASSUME NEW i \in 1..m PROVE g[i] = G[i][g[i-1]]
      <3>1. i \in 0..m /\ i - 1 \in 0..m /\ i - 1 # m OBVIOUS
      <3>2. g[i-1] = f[i-1] BY <3>1
      <3>3. CASE i = m BY <3>1, <3>2, <3>3
      <3>4. CASE i # m
        <4>1. i \in 1..(m-1) BY <3>4
        <4>2. g[i] = f[i] BY <3>1, <3>4
        <4> HIDE DEF g
        <4> QED BY <2>1, <3>2, <4>1, <4>2
      <3> QED BY <3>3, <3>4
    <2> HIDE DEF g
    <2>7. Upto(m) BY <2>4, <2>5, <2>6
    <2> HIDE DEF Upto
    <2> QED BY <2>7
  <1> HIDE DEF S
  <1>3. 0..n \subseteq S BY <1>1, <1>2, PlacesAreInductive
  <1>4. n \in 0..n OBVIOUS
  <1> QED BY <1>3, <1>4 DEF S, Follows
=============================================================================
