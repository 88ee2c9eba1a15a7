------------------------------ MODULE Induction ------------------------------
(***************************************************************************)
(* Induction over the natural numbers and recursion over the indices of a  *)
(* sequence, about sets and functions where NaturalsInduction is about     *)
(* operators: the form in which the sums of the options and the filter of  *)
(* the DNS statistics are reasoned about.                                  *)
(***************************************************************************)
EXTENDS Integers, WellFoundedInduction, TLAPS

\* A set of natural numbers has a smallest one.
THEOREM SmallestNumber ==
  ASSUME NEW T, T \subseteq Nat, T # {}
  PROVE  \E x \in T : \A y \in T : x <= y
<1> DEFINE R == OpToRel(<, Nat)
<1>1. PICK x \in T : \A y \in T : ~(<<y, x>> \in R)
  <2>1. IsWellFoundedOn(R, Nat)
    BY NatLessThanWellFounded
  <2> HIDE DEF R
  <2>2. QED
    BY <2>1, WFMin
<1>2. ASSUME NEW y \in T PROVE x <= y
  <2>1. x \in Nat /\ y \in Nat
    OBVIOUS
  <2>2. y < x => <<y, x>> \in R
    BY <2>1 DEF OpToRel
  <2>3. ~(y < x)
    BY <1>1, <2>2, Zenon
  <2>4. QED
    BY <2>1, <2>3
<1>3. QED
  BY <1>2

\* A set with 0 and the successor of each of its numbers has all of them.
THEOREM NatSetInduction ==
  ASSUME NEW S, 0 \in S, \A n \in Nat : n \in S => n + 1 \in S
  PROVE  Nat \subseteq S
<1> SUFFICES ASSUME Nat \ S # {} PROVE FALSE
  OBVIOUS
<1>1. PICK x \in Nat \ S : \A y \in Nat \ S : x <= y
  BY SmallestNumber
<1>2. x - 1 \in Nat /\ ~(x <= x - 1) /\ (x - 1) + 1 = x
  OBVIOUS
<1>3. x - 1 \in S
  BY <1>1, <1>2
<1>4. QED
  BY <1>2, <1>3

\* Induction up to a bound.
THEOREM IndexInduction ==
  ASSUME NEW N \in Nat, NEW S, 0 \in S, \A n \in 1 .. N : n - 1 \in S => n \in S
  PROVE  0 .. N \subseteq S
<1> DEFINE T == {n \in Nat : n <= N => n \in S}
<1>1. 0 \in T
  OBVIOUS
<1>2. ASSUME NEW n \in Nat, n \in T PROVE n + 1 \in T
  <2>1. CASE n + 1 <= N
    <3>1. n + 1 \in 1 .. N /\ (n + 1) - 1 = n /\ n \in S
      BY <1>2, <2>1
    <3>2. QED
      BY <3>1
  <2>2. QED
    BY <2>1
<1>3. Nat \subseteq T
  <2> HIDE DEF T
  <2>1. QED
    BY <1>1, <1>2, NatSetInduction
<1>4. QED
  BY <1>3

\* The values of a function over 0 .. N, by the first and by the step from each
\* to the next.
Follows(g, N, c, step) == g[0] = c /\ \A n \in 1 .. N : g[n] = step[n][g[n - 1]]

\* There is such a function.
THEOREM IndexRecursion ==
  ASSUME NEW N \in Nat, NEW V, NEW c \in V, NEW step \in [1 .. N -> [V -> V]]
  PROVE  \E g \in [0 .. N -> V] : Follows(g, N, c, step)
<1> DEFINE S == {m \in 0 .. N : \E g \in [0 .. m -> V] : Follows(g, m, c, step)}
<1>1. 0 \in S
  <2> DEFINE h == [n \in 0 .. 0 |-> c]
  <2>1. h \in [0 .. 0 -> V] /\ Follows(h, 0, c, step) /\ 0 \in 0 .. N
    BY DEF Follows
  <2> HIDE DEF h
  <2>2. QED
    BY <2>1, Zenon
<1>2. ASSUME NEW m \in 1 .. N, m - 1 \in S PROVE m \in S
  <2>1. PICK g \in [0 .. m - 1 -> V] : Follows(g, m - 1, c, step)
    BY <1>2
  <2> DEFINE h == [n \in 0 .. m |-> IF n = m THEN step[m][g[m - 1]] ELSE g[n]]
  <2>2. g[m - 1] \in V /\ step[m][g[m - 1]] \in V
    <3>1. m - 1 \in 0 .. m - 1
      OBVIOUS
    <3>2. g[m - 1] \in V
      BY <2>1, <3>1
    <3>3. QED
      BY <3>2
  <2>3. h \in [0 .. m -> V]
    <3>1. ASSUME NEW n \in 0 .. m, n # m PROVE g[n] \in V
      <4>1. n \in 0 .. m - 1
        BY <3>1
      <4>2. QED
        BY <2>1, <4>1
    <3>2. QED
      BY <2>2, <3>1
  <2>4. h[0] = c
    BY <2>1 DEF Follows
  <2>5. ASSUME NEW n \in 1 .. m PROVE h[n] = step[n][h[n - 1]]
    <3>1. n - 1 \in 0 .. m /\ n - 1 # m
      OBVIOUS
    <3>2. h[n - 1] = g[n - 1]
      BY <3>1
    <3>3. CASE n = m
      <4>1. h[m] = step[m][g[m - 1]]
        OBVIOUS
      <4> HIDE DEF h
      <4>2. QED
        BY <3>2, <3>3, <4>1
    <3>4. CASE n # m
      <4>1. n \in 1 .. m - 1
        BY <3>4
      <4>2. g[n] = step[n][g[n - 1]]
        BY <2>1, <4>1 DEF Follows
      <4>3. h[n] = g[n]
        BY <3>4
      <4>4. QED
        BY <3>2, <4>2, <4>3
    <3>5. QED
      BY <3>3, <3>4
  <2>6. m \in 0 .. N
    OBVIOUS
  <2>7. Follows(h, m, c, step)
    BY <2>4, <2>5 DEF Follows
  <2> HIDE DEF h
  <2>8. QED
    BY <2>3, <2>6, <2>7, Zenon
<1>3. N \in S
  <2>1. 0 .. N \subseteq S
    <3> HIDE DEF S
    <3>1. QED
      BY <1>1, <1>2, IndexInduction
  <2>2. N \in 0 .. N
    OBVIOUS
  <2> HIDE DEF S
  <2>3. QED
    BY <2>1, <2>2
<1>4. QED
  BY <1>3

=============================================================================
