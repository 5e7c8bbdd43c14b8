----------------------------- MODULE Induction -----------------------------
(***************************************************************************)
(* Induction and recursion over an interval of naturals, stated about sets *)
(* and functions instead of predicates.  The library's induction theorems  *)
(* take an operator, which the provers at hand cannot instantiate; here    *)
(* the statement proved by induction is a set of numbers.                  *)
(***************************************************************************)
EXTENDS Integers, FiniteSetTheorems, WellFoundedInduction, TLAPS

(* A set that holds 0 and the successor of each of its members holds every *)
(* natural number: a least interval 0 .. n with n outside it cannot exist, *)
(* since strict inclusion of finite sets is well-founded.                  *)
LEMMA NaturalsBySuccessor ==
  ASSUME NEW S \in SUBSET Nat, 0 \in S, \A n \in S : n + 1 \in S
  PROVE  S = Nat
<1> SUFFICES ASSUME S # Nat PROVE FALSE
  OBVIOUS
<1> DEFINE R == StrictSubsetOrdering(Nat)
           T == {0 .. n : n \in Nat \ S}
<1>1. IsWellFoundedOn(R, FiniteSubsetsOf(Nat))
  BY FS_StrictSubsetOrderingWellFounded
<1>2. T \subseteq FiniteSubsetsOf(Nat)
  <2>1. ASSUME NEW n \in Nat PROVE 0 .. n \in SUBSET Nat /\ IsFiniteSet(0 .. n)
    BY FS_Interval
  <2> QED
    BY <2>1 DEF FiniteSubsetsOf
<1>3. T # {}
  OBVIOUS
<1>4. PICK x \in T : \A y \in T : ~ (<<y, x>> \in R)
  <2> HIDE DEF R, T
  <2> QED
    BY <1>1, <1>2, <1>3, WFMin
<1>5. PICK n \in Nat \ S : x = 0 .. n
  BY <1>4
<1>6. n # 0 /\ n - 1 \in Nat \ S
  BY <1>5
<1>7. 0 .. (n - 1) \in T
  BY <1>6
<1>8. <<0 .. (n - 1), x>> \in R
  <2>1. 0 .. (n - 1) \in SUBSET Nat /\ x \in SUBSET Nat
    BY <1>5
  <2>2. 0 .. (n - 1) \subseteq x /\ n \in x /\ n \notin 0 .. (n - 1)
    BY <1>5
  <2> QED
    BY <2>1, <2>2 DEF StrictSubsetOrdering
<1> QED
  BY <1>4, <1>7, <1>8

(* The same for an interval.                                               *)
LEMMA IntervalBySuccessor ==
  ASSUME NEW N \in Nat, NEW S, 0 \in S, \A n \in 1 .. N : n - 1 \in S => n \in S
  PROVE  \A n \in 0 .. N : n \in S
<1> DEFINE T == {n \in Nat : n <= N => n \in S}
<1>1. 0 \in T /\ \A n \in T : n + 1 \in T
  <2>1. ASSUME NEW n \in T, n + 1 <= N PROVE n + 1 \in S
    <3>1. n + 1 \in 1 .. N /\ (n + 1) - 1 = n /\ n \in S
      BY <2>1
    <3> QED
      BY <3>1
  <2> QED
    BY <2>1
<1>2. T = Nat
  <2> HIDE DEF T
  <2>1. T \in SUBSET Nat
    BY DEF T
  <2> QED
    BY <1>1, <2>1, NaturalsBySuccessor
<1> QED
  BY <1>2

(* A set of naturals with a member has a least one.                        *)
LEMMA LeastNatural ==
  ASSUME NEW S \in SUBSET Nat, S # {}
  PROVE  \E m \in S : \A n \in S : m <= n
<1> SUFFICES ASSUME \A m \in S : \E n \in S : n < m PROVE FALSE
  OBVIOUS
<1> DEFINE T == {k \in Nat : \A n \in S : k <= n}
<1>1. 0 \in T /\ \A k \in T : k + 1 \in T
  OBVIOUS
<1>2. T = Nat
  <2> HIDE DEF T
  <2>1. T \in SUBSET Nat
    BY DEF T
  <2> QED
    BY <1>1, <2>1, NaturalsBySuccessor
<1>3. PICK n \in S : TRUE
  OBVIOUS
<1>4. n + 1 \in T
  BY <1>2
<1> QED
  BY <1>3, <1>4

(* Some function on 0 .. N starts from base and follows the steps.         *)
Recursion(N, V, base, step) ==
  \E f \in [0 .. N -> V] : f[0] = base /\ \A n \in 1 .. N : f[n] = step[n][f[n - 1]]

(* From a value and a step for every number, a function is defined by      *)
(* recursion.  The steps are a function from numbers to functions.         *)
LEMMA IntervalRecursion ==
  ASSUME NEW N \in Nat, NEW V, NEW base \in V, NEW step \in [1 .. N -> [V -> V]]
  PROVE  Recursion(N, V, base, step)
<1> USE DEF Recursion
<1> DEFINE Fits(f, m) == f[0] = base /\ \A n \in 1 .. m : f[n] = step[n][f[n - 1]]
           S == {m \in 0 .. N : \E f \in [0 .. m -> V] : Fits(f, m)}
<1>1. 0 \in S
  <2>1. [i \in 0 .. 0 |-> base] \in [0 .. 0 -> V] /\ Fits([i \in 0 .. 0 |-> base], 0)
    OBVIOUS
  <2>2. \E f \in [0 .. 0 -> V] : Fits(f, 0)
    <3> HIDE DEF Fits
    <3> QED
      BY <2>1
  <2> QED
    BY <2>2
<1>2. ASSUME NEW m \in 1 .. N, m - 1 \in S PROVE m \in S
  <2>1. PICK f \in [0 .. m - 1 -> V] : Fits(f, m - 1)
    BY <1>2
  <2> DEFINE g == [i \in 0 .. m |-> IF i = m THEN step[m][f[m - 1]] ELSE f[i]]
  <2>2. step[m][f[m - 1]] \in V
    OBVIOUS
  <2>3. g \in [0 .. m -> V]
    BY <2>2
  <2>4. \A i \in 0 .. m - 1 : g[i] = f[i]
    OBVIOUS
  <2>5. ASSUME NEW n \in 1 .. m PROVE g[n] = step[n][g[n - 1]]
    <3>1. CASE n = m
      BY <3>1
    <3>2. CASE n # m
      <4>1. n \in 1 .. m - 1 /\ n - 1 \in 0 .. m - 1 /\ n \in 0 .. m - 1
        BY <3>2
      <4>2. f[n] = step[n][f[n - 1]]
        BY <4>1, <2>1
      <4> QED
        BY <4>1, <4>2, <2>4
    <3> QED
      BY <3>1, <3>2
  <2>6. Fits(g, m)
    BY <2>1, <2>4, <2>5
  <2>7. \E h \in [0 .. m -> V] : Fits(h, m)
    <3> HIDE DEF Fits, g
    <3> QED
      BY <2>3, <2>6
  <2> QED
    BY <2>7
<1>3. N \in S
  <2> HIDE DEF S
  <2>1. \A n \in 0 .. N : n \in S
    BY <1>1, <1>2, IntervalBySuccessor
  <2> QED
    BY <2>1
<1> QED
  BY <1>3
=============================================================================
