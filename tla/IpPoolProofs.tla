----------------------------- MODULE IpPoolProofs -----------------------------
(***************************************************************************)
(* What TLAPS proves of the IP ranges, for any numbers of addresses: that  *)
(* the blocks of a network are intervals, and that the size of a pool of   *)
(* any number of disjoint ranges is the number of addresses in it.         *)
(***************************************************************************)
EXTENDS IpPool, FiniteSetTheorems, Induction, TLAPS

USE DEF NoIP, Addresses

\* What the proofs need of the addresses.
LEMMA Numbers ==
  /\ V6Size \in Nat \ {0} /\ V4Size \in Nat \ {0} /\ MappedBase \in Nat
  /\ \A ip \in Private : ip \in 0 .. V6Size - 1
  /\ \A ip \in Private \ IPv4 : ip > MappedBase
BY Zenon, AddressAssumption

\* Blocks are intervals: an address between two addresses of a block is in it.
LEMMA BlocksConvex ==
  ASSUME NEW k \in Nat \ {0}, NEW s \in Nat, NEW e \in Nat, NEW i \in Nat,
         s <= i, i <= e, s \div k = e \div k
  PROVE  i \div k = s \div k
<1> DEFINE q == s \div k
<1>1. q \in Int /\ k * q <= s /\ e < k * (q + 1)
  OBVIOUS
<1>2. k * q <= i /\ i < k * (q + 1)
  BY <1>1
<1>3. QED
  BY <1>2

-----------------------------------------------------------------------------
\* What the recursive definition of PoolSize says: its sum is a function with
\* the values that the definition names.
LEMMA PoolSizeSum ==
  ASSUME NEW pool \in Seq(Networks),
         \A i \in DOMAIN pool : RangeSize(pool[i]) \in Nat,
         MaxInt64 \in Nat
  PROVE  \E sum \in [0 .. Len(pool) -> Int] :
           /\ sum[0] = 0
           /\ \A n \in 1 .. Len(pool) :
                sum[n] = Wrap64(sum[n - 1] + RangeSize(pool[n]))
           /\ PoolSize(pool) = sum[Len(pool)]
<1> DEFINE N == Len(pool)
           Next1(n, s) == Wrap64(s + RangeSize(pool[n]))
           Def(g) == [n \in 0 .. N |-> IF n = 0 THEN 0 ELSE Next1(n, g[n - 1])]
           step == [n \in 1 .. N |-> [s \in Int |-> Next1(n, s)]]
           Sum == CHOOSE g : g = Def(g)
<1>1. N \in Nat /\ DOMAIN pool = 1 .. N
  OBVIOUS
<1>2. \A n \in 1 .. N, s \in Int : Next1(n, s) \in Int
  BY <1>1 DEF Wrap64
<1>3. PICK g \in [0 .. N -> Int] : g = Def(g)
  <2>1. step \in [1 .. N -> [Int -> Int]] /\ 0 \in Int
    <3> HIDE DEF Next1, N
    <3>1. QED
      BY <1>2
  <2>2. PICK g \in [0 .. N -> Int] : Follows(g, N, 0, step)
    <3> HIDE DEF step, N
    <3>1. QED
      BY <1>1, <2>1, IndexRecursion
  <2>3. ASSUME NEW n \in 0 .. N, n # 0 PROVE g[n] = Next1(n, g[n - 1])
    <3>1. n \in 1 .. N /\ n - 1 \in 0 .. N
      BY <2>3
    <3>2. g[n - 1] \in Int
      BY <3>1, <2>2
    <3> HIDE DEF Next1, N
    <3>3. QED
      BY <2>2, <3>1, <3>2 DEF Follows
  <2>4. g = Def(g)
    <3> HIDE DEF Next1, N
    <3>1. QED
      BY <2>2, <2>3 DEF Follows
  <2> HIDE DEF Def
  <2>5. QED
    BY <2>2, <2>4, Zenon
<1>4. Sum = Def(Sum)
  <2> HIDE DEF Def
  <2>1. QED
    BY <1>3, Zenon
<1>5. PoolSize(pool) = Sum[N]
  <2>1. ~ \E i \in DOMAIN pool : RangeSize(pool[i]) = -1
    OBVIOUS
  <2>2. QED
    BY <2>1, Zenon DEF PoolSize
<1>6. Sum[0] = 0 /\ \A n \in 1 .. N : Sum[n] = Next1(n, Sum[n - 1])
  <2> HIDE DEF Sum, Next1, N
  <2>1. QED
    BY <1>1, <1>4
<1>7. Sum \in [0 .. N -> Int]
  <2> DEFINE S == {n \in 0 .. N : Sum[n] \in Int}
  <2> HIDE DEF Sum, Next1, N
  <2>1. 0 \in S
    BY <1>1, <1>6
  <2>2. \A n \in 1 .. N : n - 1 \in S => n \in S
    <3> SUFFICES ASSUME NEW n \in 1 .. N, n - 1 \in S PROVE n \in S
      OBVIOUS
    <3>1. n \in 0 .. N /\ Sum[n - 1] \in Int
      BY <1>1
    <3>2. Sum[n] = Next1(n, Sum[n - 1])
      BY <1>6
    <3>3. Next1(n, Sum[n - 1]) \in Int
      BY <1>2, <3>1
    <3>4. QED
      BY <3>1, <3>2, <3>3
  <2>3. 0 .. N \subseteq S
    <3> HIDE DEF S
    <3>1. QED
      BY <1>1, <2>1, <2>2, IndexInduction
  <2>4. QED
    BY <1>4, <2>3
<1> HIDE DEF Sum
<1>8. QED
  BY <1>5, <1>6, <1>7

\* A sum that fits an int64 does not wrap.
LEMMA NoWrap ==
  ASSUME MaxInt64 \in Nat, NEW n \in 0 .. MaxInt64 PROVE Wrap64(n) = n
BY DEF Wrap64

\* The size of a pool of disjoint ranges is the number of its addresses: the
\* sum over the first ranges is the number of addresses in them.
THEOREM DisjointSize ==
  ASSUME NEW pool \in Seq(Networks),
         \A i \in DOMAIN pool : IsValid(pool[i]),
         \A i, j \in DOMAIN pool :
           i # j => pool[i].end < pool[j].start \/ pool[j].end < pool[i].start,
         Cardinality({ip \in Addresses : PoolContains(pool, ip)}) <= MaxInt64
  PROVE  PoolSize(pool) = Cardinality({ip \in Addresses : PoolContains(pool, ip)})
<1> DEFINE N == Len(pool)
           Range1(i) == pool[i].start .. pool[i].end
           C == {ip \in Addresses : PoolContains(pool, ip)}
           Upto(n) == {ip \in Addresses : \E i \in 1 .. n : ip \in Range1(i)}
<1>0. MaxInt64 \in Nat /\ V6Size \in Nat
  BY AddressAssumption, Zenon
<1>1. N \in Nat /\ DOMAIN pool = 1 .. N
  OBVIOUS
<1>2. ASSUME NEW i \in 1 .. N
      PROVE /\ pool[i].start \in Addresses /\ pool[i].end \in Addresses
            /\ pool[i].start < pool[i].end
  <2>1. pool[i] \in Networks /\ IsValid(pool[i])
    BY <1>1
  <2>2. QED
    BY <2>1 DEF Networks, IsValid
<1>3. C = Upto(N)
  <2>1. ASSUME NEW ip \in Addresses, NEW i \in 1 .. N
        PROVE  Contains(pool[i], ip) <=> ip \in Range1(i)
    BY <1>0, <1>2 DEF Contains
  <2> HIDE DEF N
  <2>2. QED
    BY <1>1, <2>1 DEF PoolContains
<1>4. IsFiniteSet(C) /\ Cardinality(C) \in Nat
  <2>1. IsFiniteSet(Addresses)
    BY <1>0, FS_Interval
  <2>2. C \subseteq Addresses
    OBVIOUS
  <2> HIDE DEF C
  <2>3. QED
    BY <2>1, <2>2, FS_Subset, FS_CardinalityType
<1>5. ASSUME NEW T, T \subseteq C
      PROVE IsFiniteSet(T) /\ Cardinality(T) \in Nat /\ Cardinality(T) <= MaxInt64
  <2> HIDE DEF C
  <2>1. IsFiniteSet(T) /\ Cardinality(T) <= Cardinality(C)
    BY <1>4, <1>5, FS_Subset
  <2>2. Cardinality(T) \in Nat
    BY <2>1, FS_CardinalityType
  <2>3. Cardinality(C) <= MaxInt64
    BY DEF C
  <2>4. QED
    BY <1>0, <1>4, <2>1, <2>2, <2>3
<1>6. ASSUME NEW n \in 0 .. N PROVE Upto(n) \subseteq C
  BY <1>1, <1>3
<1>7. ASSUME NEW i \in 1 .. N
      PROVE  /\ Range1(i) \subseteq C
             /\ IsFiniteSet(Range1(i))
             /\ RangeSize(pool[i]) = Cardinality(Range1(i))
             /\ RangeSize(pool[i]) \in Nat
  <2>1. Range1(i) \subseteq C
    BY <1>0, <1>2, <1>3
  <2>2. /\ IsFiniteSet(Range1(i))
        /\ Cardinality(Range1(i)) = pool[i].end - pool[i].start + 1
    <3>1. pool[i].start \in Int /\ pool[i].end \in Int /\ pool[i].start < pool[i].end
      BY <1>0, <1>2
    <3> DEFINE a == pool[i].start
               b == pool[i].end
    <3>2. /\ IsFiniteSet(a .. b)
          /\ Cardinality(a .. b) = IF a > b THEN 0 ELSE b - a + 1
      <4> HIDE DEF a, b
      <4>1. a \in Int /\ b \in Int
        BY <3>1 DEF a, b
      <4>2. QED
        BY <4>1, FS_Interval
    <3>3. QED
      BY <3>1, <3>2
  <2>3. Cardinality(Range1(i)) \in Nat /\ Cardinality(Range1(i)) <= MaxInt64
    BY <1>5, <2>1
  <2>4. RangeSize(pool[i]) = Cardinality(Range1(i))
    <3> HIDE DEF N
    <3>1. QED
      BY <1>0, <1>2, <2>2, <2>3 DEF RangeSize
  <2>5. QED
    BY <2>1, <2>2, <2>3, <2>4
<1>8. PICK sum \in [0 .. N -> Int] :
        /\ sum[0] = 0
        /\ \A n \in 1 .. N : sum[n] = Wrap64(sum[n - 1] + RangeSize(pool[n]))
        /\ PoolSize(pool) = sum[N]
  BY <1>0, <1>1, <1>7, PoolSizeSum
<1> DEFINE S == {n \in 0 .. N : sum[n] = Cardinality(Upto(n))}
<1>9. 0 \in S
  <2>1. Upto(0) = {}
    OBVIOUS
  <2>2. Cardinality(Upto(0)) = 0 /\ 0 \in 0 .. N
    BY <1>1, <2>1, FS_EmptySet
  <2> HIDE DEF Upto
  <2>3. QED
    BY <1>8, <2>2
<1>10. ASSUME NEW n \in 1 .. N, n - 1 \in S PROVE n \in S
  <2>1. n - 1 \in 0 .. N /\ n \in 0 .. N
    OBVIOUS
  <2>2. Upto(n) = Upto(n - 1) \cup Range1(n)
    <3>1. 1 .. n = (1 .. n - 1) \cup {n}
      OBVIOUS
    <3>2. Range1(n) \subseteq Addresses
      BY <1>0, <1>2
    <3> HIDE DEF Range1
    <3>3. QED
      BY <3>1, <3>2
  <2>3. Upto(n - 1) \cap Range1(n) = {}
    <3> SUFFICES ASSUME NEW i \in 1 .. n - 1, NEW ip \in Range1(i), ip \in Range1(n)
                 PROVE  FALSE
      OBVIOUS
    <3>1. i \in 1 .. N /\ i # n
      OBVIOUS
    <3>2. pool[i].end < pool[n].start \/ pool[n].end < pool[i].start
      BY <1>1, <3>1
    <3>3. QED
      BY <1>0, <1>2, <3>1, <3>2
  <2>4. IsFiniteSet(Upto(n - 1)) /\ Cardinality(Upto(n - 1)) \in Nat
    BY <1>5, <1>6, <2>1
  <2>5. Cardinality(Upto(n)) = Cardinality(Upto(n - 1)) + RangeSize(pool[n])
    <3>1. Cardinality(Upto(n - 1) \cap Range1(n)) = 0
      BY <2>3, FS_EmptySet
    <3>2. IsFiniteSet(Range1(n)) /\ RangeSize(pool[n]) = Cardinality(Range1(n))
          /\ RangeSize(pool[n]) \in Nat
      BY <1>7
    <3> HIDE DEF Upto, Range1
    <3>3. Cardinality(Upto(n - 1) \cup Range1(n)) =
             Cardinality(Upto(n - 1)) + Cardinality(Range1(n))
             - Cardinality(Upto(n - 1) \cap Range1(n))
      BY <2>4, <3>2, FS_Union
    <3>4. QED
      BY <2>2, <2>4, <3>1, <3>2, <3>3
  <2>6. Cardinality(Upto(n)) \in Nat /\ Cardinality(Upto(n)) <= MaxInt64
    BY <1>5, <1>6, <2>1
  <2>7. sum[n] = Wrap64(Cardinality(Upto(n)))
    BY <1>8, <1>10, <2>5
  <2> HIDE DEF Upto
  <2>8. sum[n] = Cardinality(Upto(n))
    BY <1>0, <2>6, <2>7, NoWrap
  <2>9. QED
    BY <2>1, <2>8
<1>11. N \in S
  <2> HIDE DEF S, N
  <2>1. 0 .. N \subseteq S
    BY <1>1, <1>9, <1>10, IndexInduction
  <2>2. QED
    BY <1>1, <2>1
<1>12. QED
  BY <1>3, <1>8, <1>11

=============================================================================
