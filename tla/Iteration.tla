-------------------------------- MODULE Iteration --------------------------------
(***************************************************************************)
(* What the proofs need of natural numbers and of functions defined by        *)
(* recursion over them: the counterexample to look at is the least one, and a *)
(* recursion one step at a time does define a function.                       *)
(***************************************************************************)
EXTENDS Integers, WellFoundedInduction, TLAPS

(* A set of natural numbers has a least member.                               *)
LEMMA Least ==
  ASSUME NEW T \in SUBSET Nat, T # {}
  PROVE  \E n \in T : \A m \in T : n <= m
  <1>1. PICK n \in T : \A m \in T : <<m, n>> \notin OpToRel(<, Nat)
    BY WFMin, NatLessThanWellFounded
  <1>2. \A m \in T : ~ (m < n)
    BY <1>1, Zenon DEF OpToRel
  <1>3. \A m \in T : n <= m
    BY <1>2
  <1> QED BY <1>3

(* f is what n steps make of a start, each a function of the one before.      *)
Steps(S, n) == [1..n -> [S -> S]]
IsIteration(f, S, n, start, step) ==
  f \in [0..n -> S] /\ f[0] = start /\ \A i \in 1..n : f[i] = step[i][f[i - 1]]

LEMMA SomeIterates ==
  ASSUME NEW S, NEW n \in Nat, NEW start \in S, NEW step \in Steps(S, n)
  PROVE  \E f : IsIteration(f, S, n, start, step)
  <1> USE DEF Steps
  <1> DEFINE Reaches(k) == \E f : IsIteration(f, S, k, start, step)
             T == {k \in 0..n : ~ Reaches(k)}
  <1>0. SUFFICES ASSUME T # {} PROVE FALSE
    <2>1. n \in 0..n
      OBVIOUS
    <2>2. T = {} => Reaches(n)
      <3> HIDE DEF Reaches
      <3> QED BY <2>1
    <2> QED BY <2>2
  <1>1. PICK k \in T : \A m \in T : k <= m
    <2>1. T \in SUBSET Nat
      OBVIOUS
    <2> HIDE DEF T
    <2> QED BY <1>0, <2>1, Least
  <1>2. k # 0
    <2>1. IsIteration([i \in 0..0 |-> start], S, 0, start, step)
      BY DEF IsIteration
    <2> QED BY <2>1
  <1>3. k - 1 \in 0..n /\ k \in 1..n /\ k - 1 \notin T
    BY <1>1, <1>2
  <1>4. PICK f : IsIteration(f, S, k - 1, start, step)
    BY <1>3
  <1> DEFINE longer == [i \in 0..k |-> IF i = k THEN step[k][f[k - 1]] ELSE f[i]]
  <1>5. f[k - 1] \in S /\ step[k][f[k - 1]] \in S
    BY <1>3, <1>4 DEF IsIteration
  <1>6. longer \in [0..k -> S]
    BY <1>3, <1>4, <1>5 DEF IsIteration
  <1>7. longer[0] = start
    BY <1>2, <1>3, <1>4 DEF IsIteration
  <1>8. ASSUME NEW i \in 1..k PROVE longer[i] = step[i][longer[i - 1]]
    <2>1. i - 1 \in 0..k /\ i - 1 # k /\ longer[i - 1] = f[i - 1]
      BY <1>3
    <2>2. CASE i = k
      BY <2>1, <2>2
    <2>3. CASE i # k
      BY <1>3, <1>4, <2>1, <2>3 DEF IsIteration
    <2> QED BY <2>2, <2>3
  <1>9. IsIteration(longer, S, k, start, step)
    <2> HIDE DEF longer
    <2> QED BY <1>6, <1>7, <1>8 DEF IsIteration
  <1> QED BY <1>1, <1>9

(* A function with that recursion takes its values where the steps do.       *)
LEMMA RecursionIterates ==
  ASSUME NEW S, NEW n \in Nat, NEW start \in S, NEW step \in Steps(S, n),
         NEW f, f = [i \in 0..n |-> f[i]], f[0] = start, \A i \in 1..n : f[i - 1] \in S => f[i] = step[i][f[i - 1]]
  PROVE  IsIteration(f, S, n, start, step)
  <1> DEFINE T == {i \in 0..n : f[i] \notin S}
  <1>1. ASSUME T # {} PROVE FALSE
    <2>1. PICK k \in T : \A m \in T : k <= m
      <3>1. T \in SUBSET Nat
        OBVIOUS
      <3> HIDE DEF T
      <3> QED BY <1>1, <3>1, Least
    <2>2. k \in 1..n /\ k - 1 \in 0..n /\ k - 1 \notin T
      BY <2>1
    <2>3. f[k - 1] \in S /\ f[k] = step[k][f[k - 1]]
      BY <2>2
    <2> QED BY <2>1, <2>2, <2>3 DEF Steps
  <1>2. \A i \in 0..n : f[i] \in S
    BY <1>1
  <1>3. \A i \in 1..n : i - 1 \in 0..n
    OBVIOUS
  <1> QED BY <1>2, <1>3 DEF IsIteration
===============================================================================
