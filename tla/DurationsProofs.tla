---------------------------- MODULE DurationsProofs ----------------------------
(***************************************************************************)
(* What TLAPS proves of parseDuration, for any number of quantities: what  *)
(* its loop computes, that with an int of 64 bits it is what the text      *)
(* means if that fits an int64 of ns, and that with an int of 32 bits it   *)
(* is a few seconds for each quantity.                                     *)
(***************************************************************************)
EXTENDS Durations, Induction, TLAPS

Parsed == [min : Int, rest : Int]

\* Arithmetic on durations gives durations.
LEMMA DurationType == \A min, rest \in Int : Duration(min, rest) \in Parsed
BY SMT DEF Duration, Minute, Parsed

LEMMA Int64Type == ASSUME NEW d \in Parsed PROVE Int64(d) \in Parsed
<1> DEFINE turns == d.min \div TurnMinutes
<1>1. d.min \in Int /\ d.rest \in Int
  BY DEF Parsed
<1>2. turns \in Int /\ turns + 1 \in Int
  BY <1>1, SMT DEF TurnMinutes
<1>3. ASSUME NEW k \in Int PROVE TurnedBack(d, k) \in Parsed
  <2>1. d.min - k * TurnMinutes \in Int /\ d.rest - k * TurnRest \in Int
    BY <1>1, SMT DEF TurnMinutes, TurnRest
  <2>2. QED
    BY <2>1, DurationType, Zenon DEF TurnedBack
<1>4. QED
  BY <1>2, <1>3, Zenon DEF Int64

LEMMA Sum64Type == \A d, e \in Parsed : Sum64(d, e) \in Parsed
<1>1. ASSUME NEW d \in Parsed, NEW e \in Parsed
      PROVE  Duration(d.min + e.min, d.rest + e.rest) \in Parsed
  <2>1. d.min + e.min \in Int /\ d.rest + e.rest \in Int
    BY DEF Parsed
  <2>2. QED
    BY <2>1, DurationType, Zenon
<1>2. QED
  BY <1>1, Int64Type, Zenon DEF Sum64

\* What the recursive definition of parseDuration says: its sum is a function
\* with the values that the definition names.
LEMMA DurationSum ==
  ASSUME NEW neg \in BOOLEAN, NEW quantities \in Seq(Quantities),
         \A i \in DOMAIN quantities : Scaled(quantities[i]) \in Parsed
  PROVE  \E sum \in [0 .. Len(quantities) -> Parsed] :
           /\ sum[0] = [min |-> 0, rest |-> 0]
           /\ \A n \in 1 .. Len(quantities) :
                sum[n] = Sum64(sum[n - 1], Scaled(quantities[n]))
           /\ parseDuration(neg, quantities) = Signed(neg, sum[Len(quantities)])
<1> DEFINE N == Len(quantities)
           zero == [min |-> 0, rest |-> 0]
           Plus(n, s) == Sum64(s, Scaled(quantities[n]))
           Def(g) == [n \in 0 .. N |-> IF n = 0 THEN zero ELSE Plus(n, g[n - 1])]
           step == [n \in 1 .. N |-> [s \in Parsed |-> Plus(n, s)]]
           Sum == CHOOSE g : g = Def(g)
<1>1. N \in Nat /\ DOMAIN quantities = 1 .. N
  OBVIOUS
<1>2. \A n \in 1 .. N, s \in Parsed : Plus(n, s) \in Parsed
  BY <1>1, Sum64Type
<1>3. zero \in Parsed
  BY DEF Parsed
<1> HIDE DEF N, zero, Plus
<1>4. PICK g \in [0 .. N -> Parsed] : g = Def(g)
  <2>1. step \in [1 .. N -> [Parsed -> Parsed]]
    BY <1>2
  <2>2. PICK g \in [0 .. N -> Parsed] : Follows(g, N, zero, step)
    <3> HIDE DEF step
    <3>1. QED
      BY <1>1, <1>3, <2>1, IndexRecursion
  <2>3. ASSUME NEW n \in 0 .. N, n # 0 PROVE g[n] = Plus(n, g[n - 1])
    <3>1. n \in 1 .. N /\ n - 1 \in 0 .. N
      BY <1>1, <2>3
    <3>2. g[n - 1] \in Parsed
      BY <3>1, <2>2
    <3>3. QED
      BY <2>2, <3>1, <3>2 DEF Follows
  <2>4. g = Def(g)
    BY <2>2, <2>3 DEF Follows
  <2> HIDE DEF Def
  <2>5. QED
    BY <2>2, <2>4, Zenon
<1>5. Sum = Def(Sum)
  <2> HIDE DEF Def
  <2>1. QED
    BY <1>4, Zenon
<1>6. parseDuration(neg, quantities) = Signed(neg, Sum[N])
  BY Zenon DEF parseDuration, N, zero, Plus
<1> HIDE DEF Sum
<1>7. Sum[0] = zero /\ \A n \in 1 .. N : Sum[n] = Plus(n, Sum[n - 1])
  BY <1>1, <1>5
<1>8. Sum \in [0 .. N -> Parsed]
  <2> DEFINE S == {n \in 0 .. N : Sum[n] \in Parsed}
  <2>1. 0 \in S
    BY <1>1, <1>3, <1>7
  <2>2. ASSUME NEW n \in 1 .. N, n - 1 \in S PROVE n \in S
    BY <1>1, <1>2, <1>7, <2>2
  <2>3. 0 .. N \subseteq S
    <3> HIDE DEF S
    <3>1. QED
      BY <1>1, <2>1, <2>2, IndexInduction
  <2>4. QED
    BY <1>5, <2>3
<1>9. QED
  BY <1>6, <1>7, <1>8 DEF N, zero, Plus

\* The same for the reference.
InMinutes(q) == (60 * q.hours + q.minutes) * unitMap[q.unit]

LEMMA MinutesSum ==
  ASSUME NEW quantities \in Seq(Quantities),
         \A i \in DOMAIN quantities : InMinutes(quantities[i]) \in Int
  PROVE  \E sum \in [0 .. Len(quantities) -> Int] :
           /\ sum[0] = 0
           /\ \A n \in 1 .. Len(quantities) : sum[n] = sum[n - 1] + InMinutes(quantities[n])
           /\ Minutes(FALSE, quantities) = sum[Len(quantities)]
           /\ Minutes(TRUE, quantities) = - sum[Len(quantities)]
<1> DEFINE N == Len(quantities)
           Plus(n, s) == s + InMinutes(quantities[n])
           Def(g) == [n \in 0 .. N |-> IF n = 0 THEN 0 ELSE Plus(n, g[n - 1])]
           step == [n \in 1 .. N |-> [s \in Int |-> Plus(n, s)]]
           Sum == CHOOSE g : g = Def(g)
<1>1. N \in Nat /\ DOMAIN quantities = 1 .. N
  OBVIOUS
<1>2. \A n \in 1 .. N, s \in Int : Plus(n, s) \in Int
  <2> HIDE DEF N
  <2>1. QED
    BY <1>1
<1> HIDE DEF N, Plus
<1>4. PICK g \in [0 .. N -> Int] : g = Def(g)
  <2>1. step \in [1 .. N -> [Int -> Int]] /\ 0 \in Int
    BY <1>2
  <2>2. PICK g \in [0 .. N -> Int] : Follows(g, N, 0, step)
    <3> HIDE DEF step
    <3>1. QED
      BY <1>1, <2>1, IndexRecursion
  <2>3. ASSUME NEW n \in 0 .. N, n # 0 PROVE g[n] = Plus(n, g[n - 1])
    <3>1. n \in 1 .. N /\ n - 1 \in 0 .. N
      BY <1>1, <2>3
    <3>2. g[n - 1] \in Int
      BY <3>1, <2>2
    <3>3. QED
      BY <2>2, <3>1, <3>2 DEF Follows
  <2>4. g = Def(g)
    BY <2>2, <2>3 DEF Follows
  <2> HIDE DEF Def
  <2>5. QED
    BY <2>2, <2>4, Zenon
<1>5. Sum = Def(Sum)
  <2> HIDE DEF Def
  <2>1. QED
    BY <1>4, Zenon
<1>6. Minutes(FALSE, quantities) = Sum[N] /\ Minutes(TRUE, quantities) = - Sum[N]
  BY Zenon DEF Minutes, InMinutes, N, Plus
<1> HIDE DEF Sum
<1>7. Sum[0] = 0 /\ \A n \in 1 .. N : Sum[n] = Plus(n, Sum[n - 1])
  BY <1>1, <1>5
<1>8. Sum \in [0 .. N -> Int]
  <2> DEFINE S == {n \in 0 .. N : Sum[n] \in Int}
  <2>1. 0 \in S
    BY <1>1, <1>7
  <2>2. ASSUME NEW n \in 1 .. N, n - 1 \in S PROVE n \in S
    <3>1. n \in 0 .. N /\ Sum[n - 1] \in Int
      BY <1>1, <2>2
    <3>2. Sum[n] = Plus(n, Sum[n - 1]) /\ Plus(n, Sum[n - 1]) \in Int
      BY <1>2, <1>7, <3>1
    <3>3. QED
      BY <3>1, <3>2
  <2>3. 0 .. N \subseteq S
    <3> HIDE DEF S
    <3>1. QED
      BY <1>1, <2>1, <2>2, IndexInduction
  <2>4. QED
    BY <1>5, <2>3
<1>9. QED
  BY <1>6, <1>7, <1>8 DEF N, Plus

-----------------------------------------------------------------------------
\* The hours of a unit.
LEMMA UnitHours == \A unit \in DOMAIN unitMap : unitMap[unit] \in Nat
BY DEF unitMap

\* The range of an int64 of ns.
LEMMA HalfValues == HalfMinutes = 153722867 /\ HalfRest = 8229871
BY SMT DEF HalfMinutes, HalfRest

LEMMA Upper ==
  Duration(153722867, 8229871) = [min |-> 153722867, rest |-> 8229871]
BY SMT DEF Duration, Minute

LEMMA Lower ==
  ASSUME NEW m \in Int, NEW r \in Int, r + 8229871 = 0
  PROVE  Duration(m, r) = [min |-> m - 1, rest |-> 21067004]
<1>1. r \div 29296875 = -1 /\ r % 29296875 = 21067004
  BY SMT
<1>2. m + -1 = m - 1
  OBVIOUS
<1>3. QED
  BY <1>1, <1>2, SMT DEF Duration, Minute

LEMMA Inside ==
  ASSUME NEW m \in Int, NEW r \in Int,
         -153722867 <= m, m < 153722867 \/ (m = 153722867 /\ r = 0)
  PROVE  IsInt64([min |-> m, rest |-> r])
<1>1. Below([min |-> m, rest |-> r], Duration(153722867, 8229871))
  BY Upper, SMT DEF Below
<1>2. ~Below([min |-> m, rest |-> r], Duration(-153722867, -8229871))
  <2>1. Duration(-153722867, -8229871) = [min |-> -153722868, rest |-> 21067004]
    BY Lower, SMT
  <2>2. QED
    BY <2>1, SMT DEF Below
<1>3. QED
  BY <1>1, <1>2, HalfValues, SMT DEF IsInt64

\* A whole number of minutes that fits an int64 stays what it is.
LEMMA WholeMinutes ==
  ASSUME NEW m \in Int, -HalfMinutes <= m, m <= HalfMinutes
  PROVE  /\ Duration(m, 0) = [min |-> m, rest |-> 0]
         /\ Int64([min |-> m, rest |-> 0]) = [min |-> m, rest |-> 0]
<1>1. -153722867 <= m /\ m <= 153722867
  BY HalfValues, SMT
<1>2. Duration(m, 0) = [min |-> m, rest |-> 0]
  BY SMT DEF Duration, Minute
<1>3. IsInt64([min |-> m, rest |-> 0])
  BY <1>1, Inside, SMT
<1>4. QED
  BY <1>2, <1>3, Zenon DEF Int64

\* A quantity in minutes, and that it is parsed to a duration.
LEMMA QuantityType ==
  ASSUME NEW q \in Quantities PROVE InMinutes(q) \in Nat /\ InMinutes(q) \in Int
<1>1. q.hours \in Nat /\ q.minutes \in 0 .. 59 /\ q.unit \in DOMAIN unitMap
  BY DEF Quantities
<1>2. unitMap[q.unit] \in Nat
  BY <1>1, UnitHours
<1>3. 60 * q.hours + q.minutes \in Nat
  BY <1>1, SMT
<1>4. \A a, b \in Nat : a * b \in Nat /\ a * b \in Int
  BY SMT
<1>5. QED
  BY <1>2, <1>3, <1>4, Zenon DEF InMinutes

\* A quantity on a machine with an int of 64 bits.
LEMMA Scaled64 ==
  ASSUME IntBits = 64, NEW q \in Quantities
  PROVE  /\ Scaled(q) = Int64([min |-> InMinutes(q), rest |-> 0])
         /\ Scaled(q) \in Parsed
<1>1. Scaled(q) = Int64([min |-> InMinutes(q), rest |-> 0])
  BY Zenon DEF Scaled, InMinutes
<1>2. [min |-> InMinutes(q), rest |-> 0] \in Parsed
  BY QuantityType DEF Parsed
<1>3. QED
  BY <1>1, <1>2, Int64Type

\* On a machine with an int of 64 bits a text is parsed to what it means,
\* whatever its sign and however many quantities it has, if they add up to a
\* number of minutes that fits an int64 of ns.
THEOREM ParsedExactly ==
  ASSUME IntBits = 64, NEW neg \in BOOLEAN, NEW quantities \in Seq(Quantities),
         Minutes(FALSE, quantities) <= HalfMinutes
  PROVE  /\ Minutes(neg, quantities) \in Int
         /\ parseDuration(neg, quantities) = [min  |-> Minutes(neg, quantities),
                                              rest |-> 0]
<1> DEFINE N == Len(quantities)
           value == [i \in 1 .. N |-> InMinutes(quantities[i])]
           whole(m) == [min |-> m, rest |-> 0]
<1>1. N \in Nat /\ DOMAIN quantities = 1 .. N
  OBVIOUS
<1>2. ASSUME NEW i \in 1 .. N
      PROVE  /\ Scaled(quantities[i]) = Int64(whole(value[i]))
             /\ Scaled(quantities[i]) \in Parsed
             /\ value[i] = InMinutes(quantities[i])
             /\ value[i] \in Nat /\ value[i] \in Int
  BY <1>1, Scaled64, QuantityType
<1> HIDE DEF value
<1>3. \A i \in DOMAIN quantities : Scaled(quantities[i]) \in Parsed
  BY <1>1, <1>2
<1>4. PICK sum \in [0 .. N -> Parsed] :
        /\ sum[0] = whole(0)
        /\ \A n \in 1 .. N : sum[n] = Sum64(sum[n - 1], Scaled(quantities[n]))
        /\ parseDuration(neg, quantities) = Signed(neg, sum[N])
  BY <1>3, DurationSum
<1>5. PICK ref \in [0 .. N -> Int] :
        /\ ref[0] = 0
        /\ \A n \in 1 .. N : ref[n] = ref[n - 1] + InMinutes(quantities[n])
        /\ Minutes(FALSE, quantities) = ref[N]
        /\ Minutes(TRUE, quantities) = - ref[N]
  BY <1>1, <1>2, MinutesSum
<1>6. HalfMinutes = 153722867
  BY HalfValues
<1> DEFINE Exact(n) == /\ ref[n] \in Nat
                       /\ ref[n] <= HalfMinutes => sum[n] = whole(ref[n])
           S == {n \in 0 .. N : Exact(n)}
<1> HIDE DEF N
<1>7. 0 \in S
  <2>1. 0 \in 0 .. N /\ ref[0] \in Nat
    BY <1>1, <1>5
  <2>2. sum[0] = whole(ref[0])
    BY <1>4, <1>5, Zenon
  <2>3. QED
    BY <2>1, <2>2, Zenon
<1>8. ASSUME NEW n \in 1 .. N, n - 1 \in S PROVE n \in S
  <2>0. n - 1 \in 0 .. N /\ n \in 0 .. N
    BY <1>1
  <2>1. /\ ref[n - 1] \in Nat
        /\ ref[n - 1] <= HalfMinutes => sum[n - 1] = whole(ref[n - 1])
    BY <1>8, Zenon
  <2>2. ref[n] = ref[n - 1] + value[n] /\ value[n] \in Nat
    BY <1>2, <1>5
  <2>3. ref[n] \in Nat
    BY <2>1, <2>2
  <2>4. ASSUME ref[n] <= HalfMinutes PROVE sum[n] = whole(ref[n])
    <3>1. ref[n - 1] <= HalfMinutes /\ value[n] <= HalfMinutes
      BY <1>6, <2>1, <2>2, <2>4, SMT
    <3>2. /\ value[n] \in Int /\ - HalfMinutes <= value[n]
          /\ ref[n] \in Int /\ - HalfMinutes <= ref[n]
      BY <1>6, <2>2, <2>3, SMT
    <3>3. Scaled(quantities[n]) = whole(value[n])
      BY <1>2, <3>1, <3>2, WholeMinutes, Zenon
    <3>4. sum[n] = Int64(Duration(whole(ref[n - 1]).min + whole(value[n]).min,
                                  whole(ref[n - 1]).rest + whole(value[n]).rest))
      BY <1>4, <2>1, <3>1, <3>3, Zenon DEF Sum64
    <3> HIDE DEF N
    <3>5. sum[n] = Int64(Duration(ref[n], 0))
      <4>1. whole(ref[n - 1]).min + whole(value[n]).min = ref[n]
        BY <2>2
      <4>2. whole(ref[n - 1]).rest + whole(value[n]).rest = 0
        OBVIOUS
      <4>3. QED
        BY <3>4, <4>1, <4>2, Zenon
    <3>6. QED
      BY <2>4, <3>2, <3>5, WholeMinutes, Zenon
  <2>5. QED
    BY <2>0, <2>3, <2>4, Zenon
<1>9. N \in S
  <2>1. 0 .. N \subseteq S
    <3> HIDE DEF S
    <3>1. QED
      BY <1>1, <1>7, <1>8, IndexInduction
  <2>2. QED
    BY <1>1, <2>1
<1>10. /\ ref[N] \in Nat /\ ref[N] \in Int /\ ref[N] <= HalfMinutes
       /\ sum[N] = whole(ref[N])
  <2>1. ref[N] <= HalfMinutes
    BY <1>5, Zenon
  <2>2. Exact(N)
    BY <1>9
  <2>3. QED
    BY <2>1, <2>2
<1>11. - ref[N] \in Int /\ - HalfMinutes <= - ref[N] /\ - ref[N] <= HalfMinutes
  BY <1>6, <1>10, SMT
<1>12. Signed(neg, sum[N]) = whole(IF neg THEN - ref[N] ELSE ref[N])
  <2>1. CASE neg
    <3>1. Signed(neg, sum[N]) = Int64(Duration(- sum[N].min, - sum[N].rest))
      BY <2>1, Zenon DEF Signed
    <3>2. sum[N].min = ref[N] /\ sum[N].rest = 0 /\ sum[N].rest \in Int
      BY <1>10
    <3>3. - sum[N].rest = 0
      <4>1. \A x, y \in Int : x + y = 0 => - x = y
        BY SMT
      <4>2. sum[N].rest + 0 = 0 /\ 0 \in Int
        BY <3>2
      <4>3. QED
        BY <3>2, <4>1, <4>2, Zenon
    <3>4. Signed(neg, sum[N]) = Int64(Duration(- ref[N], 0))
      BY <3>1, <3>2, <3>3, Zenon
    <3>5. QED
      BY <1>11, <2>1, <3>4, WholeMinutes, Zenon
  <2>2. CASE ~neg
    BY <1>10, <2>2, Zenon DEF Signed
  <2>3. QED
    BY <2>1, <2>2
<1>13. Minutes(neg, quantities) = IF neg THEN - ref[N] ELSE ref[N]
  BY <1>5, Zenon
<1>14. (IF neg THEN - ref[N] ELSE ref[N]) \in Int
  BY <1>10, <1>11, SMT
<1>15. QED
  BY <1>4, <1>12, <1>13, <1>14, Zenon

-----------------------------------------------------------------------------
\* Half the range of an int of 32 bits, that is 2.15 seconds.
HalfInt == IntUnits \div 2

\* The modulus of an int of 32 bits.
LEMMA IntUnitsPositive == IntUnits \in Nat \ {0} /\ HalfInt \in Nat
<1>1. IntUnits = 2097152
  BY DEF IntUnits
<1>2. QED
  BY <1>1 DEF HalfInt

\* An int of 32 bits stays in its range.
LEMMA WrapBounds == ASSUME NEW n \in Int PROVE Wrap32(n) \in - HalfInt .. HalfInt
<1>1. (n + HalfInt) % IntUnits \in 0 .. IntUnits - 1
  BY IntUnitsPositive
<1>2. IntUnits <= 2 * HalfInt + 1
  BY IntUnitsPositive DEF HalfInt
<1>3. Wrap32(n) = ((n + HalfInt) % IntUnits) - HalfInt
  BY DEF Wrap32, HalfInt
<1>4. QED
  BY <1>1, <1>2, <1>3, IntUnitsPositive

\* Rests add up, whatever their signs, and fit an int64 as long as they are
\* those of 2^30 ints of 32 bits.
MaxQuantities == 2^30

LEMMA RestsAdd ==
  ASSUME NEW r \in Int, NEW s \in Int
  PROVE  /\ Duration(Duration(0, r).min + Duration(0, s).min,
                     Duration(0, r).rest + Duration(0, s).rest) = Duration(0, r + s)
         /\ Duration(- Duration(0, r).min, - Duration(0, r).rest) = Duration(0, - r)
<1>1. /\ Duration(0, r) = [min |-> r \div 29296875, rest |-> r % 29296875]
      /\ Duration(0, s) = [min |-> s \div 29296875, rest |-> s % 29296875]
  BY SMT DEF Duration, Minute
<1>2. /\ (r \div 29296875) + (s \div 29296875)
           + (((r % 29296875) + (s % 29296875)) \div 29296875) = (r + s) \div 29296875
      /\ ((r % 29296875) + (s % 29296875)) % 29296875 = (r + s) % 29296875
  BY SMT
<1>3. /\ - (r \div 29296875) + ((- (r % 29296875)) \div 29296875) = (- r) \div 29296875
      /\ (- (r % 29296875)) % 29296875 = (- r) % 29296875
  BY SMT
<1>4. QED
  BY <1>1, <1>2, <1>3, SMT DEF Duration, Minute

MaxSum == MaxQuantities * HalfInt

LEMMA MaxValues ==
  HalfInt = 1048576 /\ MaxQuantities = 1073741824 /\ MaxSum = 1125899906842624
<1>1. IntUnits = 2097152 /\ MaxQuantities = 1073741824
  BY SMT DEF IntUnits, MaxQuantities
<1>2. HalfInt = 1048576
  BY <1>1, SMT DEF HalfInt
<1>3. QED
  BY <1>1, <1>2, SMT DEF MaxSum

LEMMA RestsFit ==
  ASSUME NEW r \in Int, -MaxSum <= r, r <= MaxSum
  PROVE  Int64(Duration(0, r)) = Duration(0, r)
<1>1. Duration(0, r) = [min |-> r \div 29296875, rest |-> r % 29296875]
  BY SMT DEF Duration, Minute
<1>2. /\ r \div 29296875 \in Int /\ r % 29296875 \in Int
      /\ -153722867 <= r \div 29296875
      /\ r \div 29296875 < 153722867
  <2>1. -1125899906842624 <= r /\ r <= 1125899906842624
    BY MaxValues, SMT
  <2>2. QED
    BY <2>1, SMT
<1>3. IsInt64(Duration(0, r))
  BY <1>1, <1>2, Inside, SMT
<1>4. QED
  BY <1>3, Zenon DEF Int64

\* A quantity on a machine with an int of 32 bits, whatever its number and unit.
LEMMA Scaled32 ==
  ASSUME IntBits = 32, NEW q \in Quantities
  PROVE  \E r \in - HalfInt .. HalfInt : Scaled(q) = Duration(0, r)
<1> DEFINE int == Wrap32(q.hours * HourUnits + q.minutes * MinuteUnits)
           Ints == - HalfInt .. HalfInt
<1>1. /\ q.hours \in Nat /\ q.minutes \in Nat
      /\ q.unit \in DOMAIN unitMap /\ unitMap[q.unit] \in Nat
  BY UnitHours DEF Quantities
<1>2. HourUnits \in Int /\ MinuteUnits \in Int
  BY IntUnitsPositive, SMT DEF HourUnits, MinuteUnits, Minute
<1>3. \A n \in Ints : n \in Int
  BY IntUnitsPositive
<1>4. int \in Ints
  BY <1>1, <1>2, WrapBounds
<1> HIDE DEF int, Ints
<1>5. Wrap32(int * 24) \in Ints
  BY <1>3, <1>4, WrapBounds DEF Ints
<1>6. Wrap32(Wrap32(int * 24) * (unitMap[q.unit] \div 24)) \in Ints
  BY <1>1, <1>3, <1>5, WrapBounds DEF Ints
<1>7. QED
  BY <1>4, <1>5, <1>6 DEF Scaled, int, Ints

\* On a machine with an int of 32 bits every quantity, of whatever number and
\* unit, counts for 2.15 seconds at most, so that it takes 28 quantities to
\* configure a minute.  (A billion of them is a text of two gigabytes.)
THEOREM ParsedToSeconds ==
  ASSUME IntBits = 32, NEW neg \in BOOLEAN, NEW quantities \in Seq(Quantities),
         Len(quantities) <= MaxQuantities
  PROVE  \E r \in - (Len(quantities) * HalfInt) .. Len(quantities) * HalfInt :
           parseDuration(neg, quantities) = Duration(0, r)
<1> DEFINE N == Len(quantities)
           Upto(n) == - (n * HalfInt) .. n * HalfInt
<1>1. N \in Nat /\ DOMAIN quantities = 1 .. N /\ \A i \in 1 .. N : quantities[i] \in Quantities
  OBVIOUS
<1>2. \A i \in DOMAIN quantities : Scaled(quantities[i]) \in Parsed
  <2>1. \A r \in - HalfInt .. HalfInt : Duration(0, r) \in Parsed
    BY DurationType, IntUnitsPositive
  <2>2. QED
    BY <1>1, <2>1, Scaled32
<1>3. PICK sum \in [0 .. N -> Parsed] :
        /\ sum[0] = [min |-> 0, rest |-> 0]
        /\ \A n \in 1 .. N : sum[n] = Sum64(sum[n - 1], Scaled(quantities[n]))
        /\ parseDuration(neg, quantities) = Signed(neg, sum[N])
  BY <1>2, DurationSum
<1> DEFINE S == {n \in 0 .. N : \E r \in Upto(n) : sum[n] = Duration(0, r)}
<1> HIDE DEF N
<1>4. ASSUME NEW n \in 0 .. N, NEW r \in Upto(n)
      PROVE  /\ r \in Int /\ - r \in Upto(n)
             /\ Int64(Duration(0, r)) = Duration(0, r)
  <2>1. n \in Nat /\ n <= 1073741824
    BY <1>1, MaxValues, SMT DEF N
  <2>2. r \in Int /\ - (n * 1048576) <= r /\ r <= n * 1048576
    BY <2>1, MaxValues, SMT
  <2>3. r \in Int /\ - r \in Upto(n)
    BY <2>1, <2>2, MaxValues, SMT
  <2>4. -MaxSum <= r /\ r <= MaxSum
    BY <2>1, <2>2, MaxValues, SMT
  <2>5. QED
    BY <2>3, <2>4, RestsFit, SMT
<1>5. 0 \in S
  <2>1. 0 \in 0 .. N /\ 0 \in Upto(0)
    BY <1>1, IntUnitsPositive
  <2>2. Duration(0, 0) = [min |-> 0, rest |-> 0]
    BY SMT DEF Duration, Minute
  <2>3. QED
    BY <1>3, <2>1, <2>2
<1>6. ASSUME NEW n \in 1 .. N, n - 1 \in S PROVE n \in S
  <2>1. PICK r \in - HalfInt .. HalfInt : Scaled(quantities[n]) = Duration(0, r)
    BY <1>1, Scaled32
  <2>2. n \in 0 .. N /\ n - 1 \in 0 .. N
    BY <1>1
  <2>3. PICK before \in Upto(n - 1) : sum[n - 1] = Duration(0, before)
    BY <1>6
  <2>4. before \in Int /\ r \in Int
    BY <1>4, <2>2, <2>3, IntUnitsPositive
  <2>5. before + r \in Upto(n)
    <3>1. (n - 1) * HalfInt + HalfInt = n * HalfInt
      BY <1>1, IntUnitsPositive
    <3>2. QED
      BY <1>1, <2>4, <3>1, IntUnitsPositive
  <2>6. sum[n] = Int64(Duration(0, before + r))
    BY <1>3, <2>1, <2>3, <2>4, RestsAdd DEF Sum64
  <2>7. sum[n] = Duration(0, before + r)
    BY <1>4, <2>2, <2>5, <2>6
  <2>8. QED
    BY <2>2, <2>5, <2>7
<1>7. N \in S
  <2>1. 0 .. N \subseteq S
    <3> HIDE DEF S
    <3>1. QED
      BY <1>1, <1>5, <1>6, IndexInduction
  <2>2. QED
    BY <1>1, <2>1
<1>8. PICK r \in Upto(N) : sum[N] = Duration(0, r)
  BY <1>7
<1>9. N \in 0 .. N /\ r \in Int /\ - r \in Upto(N)
  BY <1>1, <1>4, <1>8
<1>10. Signed(neg, sum[N]) = Duration(0, IF neg THEN - r ELSE r)
  <2>1. CASE neg
    <3>1. Signed(neg, sum[N]) = Int64(Duration(0, - r))
      BY <1>8, <1>9, <2>1, RestsAdd DEF Signed
    <3>2. QED
      BY <1>4, <1>9, <2>1, <3>1
  <2>2. CASE ~neg
    BY <1>8, <2>2 DEF Signed
  <2>3. QED
    BY <2>1, <2>2
<1>11. (IF neg THEN - r ELSE r) \in Upto(N)
  BY <1>8, <1>9
<1>12. QED
  BY <1>3, <1>10, <1>11 DEF N

=============================================================================
