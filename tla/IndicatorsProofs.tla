--------------------------- MODULE IndicatorsProofs ---------------------------
(***************************************************************************)
(* For windows of any length, bars of any kind and series of any length:   *)
(* every formula says the opposite in the mirrored market and nothing in   *)
(* one that does not move, the stochastic K is a percentage, and the time  *)
(* frames sample what they should.  The windows are added up by the sums   *)
(* of the community modules; what those compute is proved here too.        *)
(***************************************************************************)
EXTENDS Indicators, WellFoundedInduction, SequenceTheorems, FiniteSetTheorems, TLAPS

USE IndicatorsAssumption

-----------------------------------------------------------------------------
(* The least and the greatest price of a set *)

LEMMA LeastNatural ==
  ASSUME NEW S \in SUBSET Nat, S # {}
  PROVE  \E x \in S : \A y \in S : x <= y
<1>1. PICK x \in S : \A y \in S : <<y, x>> \notin OpToRel(<, Nat)
  BY NatLessThanWellFounded, WFMin
<1>2. \A y \in S : x <= y
  <2> SUFFICES ASSUME NEW y \in S, y < x PROVE FALSE
    OBVIOUS
  <2>1. x \in Nat /\ y \in Nat
    OBVIOUS
  <2>2. <<y, x>> \in OpToRel(<, Nat)
    BY <2>1 DEF OpToRel
  <2> QED
    BY <1>1, <2>2
<1> QED
  BY <1>2

LEMMA MinIsLeast ==
  ASSUME NEW S \in SUBSET (0..MaxPrice), S # {}
  PROVE  Min(S) \in S /\ \A y \in S : Min(S) <= y
<1>1. S \subseteq Nat
  OBVIOUS
<1>2. PICK x \in S : \A y \in S : x <= y
  BY <1>1, LeastNatural
<1> QED
  BY <1>2 DEF Min

LEMMA MaxIsGreatest ==
  ASSUME NEW S \in SUBSET (0..MaxPrice), S # {}
  PROVE  Max(S) \in S /\ \A y \in S : y <= Max(S)
<1> DEFINE T == {MaxPrice - y : y \in S}
<1>1. T \in SUBSET (0..MaxPrice) /\ T # {}
  <2>1. \A y \in S : MaxPrice - y \in 0..MaxPrice
    OBVIOUS
  <2> QED
    BY <2>1
<1>2. Min(T) \in T /\ \A z \in T : Min(T) <= z
  BY <1>1, MinIsLeast
<1>3. PICK x \in S : Min(T) = MaxPrice - x
  BY <1>2
<1>4. \A y \in S : x >= y
  <2> SUFFICES ASSUME NEW y \in S PROVE x >= y
    OBVIOUS
  <2>1. MaxPrice - y \in T
    OBVIOUS
  <2>2. MaxPrice - x <= MaxPrice - y
    BY <1>2, <1>3, <2>1
  <2> QED
    BY <2>2
<1> QED
  BY <1>4 DEF Max

-----------------------------------------------------------------------------
(* calculateStoch *)

\* h and l of the window at rate i bound each of its lows and highs.
LEMMA WindowBounds ==
  ASSUME NEW n \in Nat, NEW ts \in [1..n -> 0..MaxPrice], NEW i \in Int,
         0 <= i, i + StochLength <= n
  PROVE  /\ Lowest(ts, i) \in 0..MaxPrice /\ Highest(ts, i) \in 0..MaxPrice
         /\ \A k \in Window(i, StochLength) : Lowest(ts, i) <= ts[k] /\ ts[k] <= Highest(ts, i)
<1> DEFINE S == {ts[k] : k \in Window(i, StochLength)}
<1>1. Window(i, StochLength) \subseteq 1..n /\ i + 1 \in Window(i, StochLength)
  BY DEF Window
<1>2. S \in SUBSET (0..MaxPrice) /\ S # {}
  BY <1>1
<1>3. Min(S) \in S /\ \A y \in S : Min(S) <= y
  BY <1>2, MinIsLeast
<1>4. Max(S) \in S /\ \A y \in S : y <= Max(S)
  BY <1>2, MaxIsGreatest
<1> QED
  BY <1>2, <1>3, <1>4 DEF Lowest, Highest

\* The close of a bar lies between l and h of a window that starts with it.
LEMMA CloseWithin ==
  ASSUME NEW n \in Nat, NEW bs \in [1..n -> Bars], NEW i \in 0..(n - StochLength)
  PROVE  Lowest(Lows(bs), i) <= bs[i + 1].close
         /\ bs[i + 1].close <= Highest(Highs(bs), i)
<1>1. i + 1 \in 1..n /\ i + 1 \in Window(i, StochLength)
  BY DEF Window
<1>2. bs[i + 1] \in Bar /\ bs[i + 1].low <= bs[i + 1].close /\ bs[i + 1].close <= bs[i + 1].high
  BY <1>1
<1>3. Lows(bs) \in [1..n -> 0..MaxPrice] /\ Highs(bs) \in [1..n -> 0..MaxPrice]
  BY DEF Lows, Highs, Bar
<1>4. Lowest(Lows(bs), i) <= Lows(bs)[i + 1] /\ Lowest(Lows(bs), i) \in Int
  <2> DEFINE lts == Lows(bs)
  <2>1. lts \in [1..n -> 0..MaxPrice]
    BY <1>3
  <2> HIDE DEF lts
  <2>2. /\ Lowest(lts, i) \in 0..MaxPrice
        /\ \A k \in Window(i, StochLength) : Lowest(lts, i) <= lts[k] /\ lts[k] <= Highest(lts, i)
    BY <2>1, WindowBounds
  <2> QED
    BY <1>1, <2>2 DEF lts
<1>5. Highs(bs)[i + 1] <= Highest(Highs(bs), i) /\ Highest(Highs(bs), i) \in Int
  <2> DEFINE hts == Highs(bs)
  <2>1. hts \in [1..n -> 0..MaxPrice]
    BY <1>3
  <2> HIDE DEF hts
  <2>2. /\ Highest(hts, i) \in 0..MaxPrice
        /\ \A k \in Window(i, StochLength) : Lowest(hts, i) <= hts[k] /\ hts[k] <= Highest(hts, i)
    BY <2>1, WindowBounds
  <2> QED
    BY <1>1, <2>2 DEF hts
<1>6. /\ Lows(bs)[i + 1] = bs[i + 1].low /\ Highs(bs)[i + 1] = bs[i + 1].high
      /\ bs[i + 1].low \in Int /\ bs[i + 1].close \in Int /\ bs[i + 1].high \in Int
  BY <1>1, <1>2 DEF Lows, Highs, Bar
<1> QED
  BY <1>2, <1>4, <1>5, <1>6

\* The prices of the mirrored market.
Reflected(ts) == [i \in DOMAIN ts |-> MaxPrice - ts[i]]

Stoch(bs) == CalculateStoch(Closes(bs), Highs(bs), Lows(bs))
ReflectedStoch(bs) ==
  CalculateStoch(Reflected(Closes(bs)), Reflected(Lows(bs)), Reflected(Highs(bs)))

\* In the mirrored market h and l change places.
LEMMA MirroredWindow ==
  ASSUME NEW n \in Nat, NEW ts \in [1..n -> 0..MaxPrice], NEW i \in Int,
         0 <= i, i + StochLength <= n
  PROVE  /\ Highest(Reflected(ts), i) = MaxPrice - Lowest(ts, i)
         /\ Lowest(Reflected(ts), i) = MaxPrice - Highest(ts, i)
<1> DEFINE S == {ts[k] : k \in Window(i, StochLength)}
           T == {Reflected(ts)[k] : k \in Window(i, StochLength)}
<1>1. Window(i, StochLength) \subseteq 1..n /\ i + 1 \in Window(i, StochLength)
  BY DEF Window
<1>2. S \in SUBSET (0..MaxPrice) /\ S # {}
  BY <1>1
<1>3. \A k \in Window(i, StochLength) :
        ts[k] \in 0..MaxPrice /\ Reflected(ts)[k] = MaxPrice - ts[k]
  BY <1>1 DEF Reflected
<1>4. T \in SUBSET (0..MaxPrice) /\ T # {}
  <2>1. \A k \in Window(i, StochLength) : Reflected(ts)[k] \in 0..MaxPrice
    BY <1>3
  <2> QED
    BY <1>1, <2>1
<1>5. /\ Min(S) \in S /\ \A y \in S : Min(S) <= y
      /\ Max(S) \in S /\ \A y \in S : y <= Max(S)
  BY <1>2, MinIsLeast, MaxIsGreatest
<1>6. /\ Min(T) \in T /\ \A z \in T : Min(T) <= z
      /\ Max(T) \in T /\ \A z \in T : z <= Max(T)
  BY <1>4, MinIsLeast, MaxIsGreatest
<1>7. Max(T) = MaxPrice - Min(S)
  <2>1. PICK k \in Window(i, StochLength) : Max(T) = Reflected(ts)[k]
    BY <1>6
  <2>2. PICK j \in Window(i, StochLength) : Min(S) = ts[j]
    BY <1>5
  <2>3. Reflected(ts)[j] <= Max(T) /\ Min(S) <= ts[k]
    BY <1>5, <1>6
  <2> HIDE DEF S, T
  <2>a. /\ ts[k] \in Int /\ Reflected(ts)[k] = MaxPrice - ts[k]
        /\ ts[j] \in Int /\ Reflected(ts)[j] = MaxPrice - ts[j]
    BY <1>3
  <2>4. PICK p \in Int, q \in Int :
          /\ p = ts[k] /\ q = ts[j]
          /\ Reflected(ts)[k] = MaxPrice - p /\ Reflected(ts)[j] = MaxPrice - q
    BY <2>a
  <2>5. MaxPrice - q <= MaxPrice - p /\ q <= p
    <3>1. Reflected(ts)[j] <= Reflected(ts)[k] /\ ts[j] <= ts[k]
      BY <2>1, <2>2, <2>3
    <3>2. MaxPrice - q <= MaxPrice - p
      BY <2>4, <3>1
    <3>3. q <= p
      BY <2>4, <3>1
    <3> QED
      BY <3>2, <3>3
  <2>6. p = q
    BY <2>5
  <2>7. Max(T) = MaxPrice - p /\ Min(S) = q
    BY <2>1, <2>2, <2>4
  <2> QED
    BY <2>6, <2>7
<1>8. Min(T) = MaxPrice - Max(S)
  <2>1. PICK k \in Window(i, StochLength) : Min(T) = Reflected(ts)[k]
    BY <1>6
  <2>2. PICK j \in Window(i, StochLength) : Max(S) = ts[j]
    BY <1>5
  <2>3. Min(T) <= Reflected(ts)[j] /\ ts[k] <= Max(S)
    BY <1>5, <1>6
  <2> HIDE DEF S, T
  <2>a. /\ ts[k] \in Int /\ Reflected(ts)[k] = MaxPrice - ts[k]
        /\ ts[j] \in Int /\ Reflected(ts)[j] = MaxPrice - ts[j]
    BY <1>3
  <2>4. PICK p \in Int, q \in Int :
          /\ p = ts[k] /\ q = ts[j]
          /\ Reflected(ts)[k] = MaxPrice - p /\ Reflected(ts)[j] = MaxPrice - q
    BY <2>a
  <2>5. MaxPrice - p <= MaxPrice - q /\ p <= q
    <3>1. Reflected(ts)[k] <= Reflected(ts)[j] /\ ts[k] <= ts[j]
      BY <2>1, <2>2, <2>3
    <3>2. MaxPrice - p <= MaxPrice - q
      BY <2>4, <3>1
    <3>3. p <= q
      BY <2>4, <3>1
    <3> QED
      BY <3>2, <3>3
  <2>6. p = q
    BY <2>5
  <2>7. Min(T) = MaxPrice - p /\ Max(S) = q
    BY <2>1, <2>2, <2>4
  <2> QED
    BY <2>6, <2>7
<1> QED
  BY <1>7, <1>8 DEF Highest, Lowest

\* 100 - K in each window makes 100 - D of their mean.
LEMMA MirroredMean ==
  ASSUME NEW n0 \in Int, NEW n1 \in Int, NEW n2 \in Int,
         NEW d0 \in Int, NEW d1 \in Int, NEW d2 \in Int
  PROVE  (d0 - n0) * d1 * d2 + (d1 - n1) * d0 * d2 + (d2 - n2) * d0 * d1
           = 3 * (d0 * d1 * d2) - (n0 * d1 * d2 + n1 * d0 * d2 + n2 * d0 * d1)
OBVIOUS

\* calculateStoch says the opposite there, for series of any length.
LEMMA StochReflected ==
  ASSUME NEW n \in Nat, NEW bs \in [1..n -> Bars]
  PROVE  ReflectedStoch(bs) = Opposite(Stoch(bs))
<1> DEFINE cts == Closes(bs)
           hts == Highs(bs)
           lts == Lows(bs)
<1>1. /\ cts \in [1..n -> 0..MaxPrice] /\ hts \in [1..n -> 0..MaxPrice]
      /\ lts \in [1..n -> 0..MaxPrice]
  BY DEF Closes, Highs, Lows, Bar
<1>2. Len(cts) = n /\ Len(Reflected(cts)) = n
  BY <1>1 DEF Reflected
<1> HIDE DEF cts, hts, lts
<1>3. CASE n < StochLength + 3
  <2>1. Stoch(bs) = "Gray" /\ ReflectedStoch(bs) = "Gray"
    BY <1>2, <1>3 DEF Stoch, ReflectedStoch, CalculateStoch, cts, hts, lts
  <2> QED
    BY <2>1 DEF Opposite
<1>4. CASE n >= StochLength + 3
  <2>1. \A i \in 0..2 :
          /\ Lowest(lts, i) \in Int /\ Highest(hts, i) \in Int /\ cts[i + 1] \in Int
          /\ Lowest(lts, i) <= Highest(hts, i)
          /\ Lowest(Reflected(hts), i) = MaxPrice - Highest(hts, i)
          /\ Highest(Reflected(lts), i) = MaxPrice - Lowest(lts, i)
          /\ Reflected(cts)[i + 1] = MaxPrice - cts[i + 1]
    <3> SUFFICES ASSUME NEW i \in 0..2
                 PROVE  /\ Lowest(lts, i) \in Int /\ Highest(hts, i) \in Int
                        /\ cts[i + 1] \in Int
                        /\ Lowest(lts, i) <= Highest(hts, i)
                        /\ Lowest(Reflected(hts), i) = MaxPrice - Highest(hts, i)
                        /\ Highest(Reflected(lts), i) = MaxPrice - Lowest(lts, i)
                        /\ Reflected(cts)[i + 1] = MaxPrice - cts[i + 1]
      OBVIOUS
    <3>1. /\ i \in Int /\ 0 <= i /\ i + StochLength <= n
          /\ i + 1 \in 1..n /\ i + 1 \in Window(i, StochLength)
      BY <1>4 DEF Window
    <3>2. PICK l \in 0..MaxPrice : l = Lowest(lts, i) /\ l <= lts[i + 1]
      BY <1>1, <3>1, WindowBounds
    <3>3. PICK h \in 0..MaxPrice : h = Highest(hts, i) /\ hts[i + 1] <= h
      <4>1. /\ Highest(hts, i) \in 0..MaxPrice
            /\ \A k \in Window(i, StochLength) : Lowest(hts, i) <= hts[k] /\ hts[k] <= Highest(hts, i)
        BY <1>1, <3>1, WindowBounds
      <4> QED
        BY <3>1, <4>1
    <3>4. lts[i + 1] <= hts[i + 1] /\ lts[i + 1] \in Int /\ hts[i + 1] \in Int
      <4>1. bs[i + 1].low <= bs[i + 1].close /\ bs[i + 1].close <= bs[i + 1].high
            /\ bs[i + 1] \in Bar
        BY <3>1
      <4> QED
        BY <3>1, <4>1 DEF lts, hts, Lows, Highs, Bar
    <3>5. Lowest(Reflected(hts), i) = MaxPrice - Highest(hts, i)
      BY <1>1, <3>1, MirroredWindow
    <3>6. Highest(Reflected(lts), i) = MaxPrice - Lowest(lts, i)
      BY <1>1, <3>1, MirroredWindow
    <3>7. cts[i + 1] \in Int /\ Reflected(cts)[i + 1] = MaxPrice - cts[i + 1]
      BY <1>1, <3>1 DEF Reflected
    <3>8. l <= h
      BY <3>2, <3>3, <3>4
    <3> QED
      BY <3>2, <3>3, <3>5, <3>6, <3>7, <3>8
  <2>2. PICK l0 \in Int, h0 \in Int, c0 \in Int :
          /\ l0 <= h0 /\ Lowest(lts, 0) = l0 /\ Highest(hts, 0) = h0 /\ cts[1] = c0
          /\ Lowest(Reflected(hts), 0) = MaxPrice - h0 /\ Highest(Reflected(lts), 0) = MaxPrice - l0
          /\ Reflected(cts)[1] = MaxPrice - c0
    <3>1. 0 \in 0..2 /\ 0 + 1 = 1
      OBVIOUS
    <3> QED
      BY <2>1, <3>1
  <2>3. PICK l1 \in Int, h1 \in Int, c1 \in Int :
          /\ l1 <= h1 /\ Lowest(lts, 1) = l1 /\ Highest(hts, 1) = h1 /\ cts[2] = c1
          /\ Lowest(Reflected(hts), 1) = MaxPrice - h1 /\ Highest(Reflected(lts), 1) = MaxPrice - l1
          /\ Reflected(cts)[2] = MaxPrice - c1
    <3>1. 1 \in 0..2 /\ 1 + 1 = 2
      OBVIOUS
    <3> QED
      BY <2>1, <3>1
  <2>4. PICK l2 \in Int, h2 \in Int, c2 \in Int :
          /\ l2 <= h2 /\ Lowest(lts, 2) = l2 /\ Highest(hts, 2) = h2 /\ cts[3] = c2
          /\ Lowest(Reflected(hts), 2) = MaxPrice - h2 /\ Highest(Reflected(lts), 2) = MaxPrice - l2
          /\ Reflected(cts)[3] = MaxPrice - c2
    <3>1. 2 \in 0..2 /\ 2 + 1 = 3
      OBVIOUS
    <3> QED
      BY <2>1, <3>1
  <2> DEFINE n0 == c0 - l0
             n1 == c1 - l1
             n2 == c2 - l2
             d0 == h0 - l0
             d1 == h1 - l1
             d2 == h2 - l2
             sum == n0 * d1 * d2 + n1 * d0 * d2 + n2 * d0 * d1
             unit == d0 * d1 * d2
             mirror == (d0 - n0) * d1 * d2 + (d1 - n1) * d0 * d2 + (d2 - n2) * d0 * d1
  <2>5. Stoch(bs) = Colour(4 * sum < 3 * unit, 4 * sum > 9 * unit)
    <3> DEFINE m(i) == cts[i + 1] - Lowest(lts, i)
               e(i) == Highest(hts, i) - Lowest(lts, i)
    <3>1. m(0) = n0 /\ e(0) = d0
      BY <2>2, 0 + 1 = 1
    <3>2. m(1) = n1 /\ e(1) = d1
      BY <2>3, 1 + 1 = 2
    <3>3. m(2) = n2 /\ e(2) = d2
      BY <2>4, 2 + 1 = 3
    <3>4. Stoch(bs) =
            Colour(4 * (m(0) * e(1) * e(2) + m(1) * e(0) * e(2) + m(2) * e(0) * e(1))
                     < 3 * (e(0) * e(1) * e(2)),
                   4 * (m(0) * e(1) * e(2) + m(1) * e(0) * e(2) + m(2) * e(0) * e(1))
                     > 9 * (e(0) * e(1) * e(2)))
      BY <1>2, <1>4 DEF Stoch, CalculateStoch, cts, hts, lts
    <3> HIDE DEF m, e, n0, n1, n2, d0, d1, d2
    <3> QED
      BY <3>1, <3>2, <3>3, <3>4
  <2>6. ReflectedStoch(bs) = Colour(4 * mirror < 3 * unit, 4 * mirror > 9 * unit)
    <3>1. /\ (MaxPrice - c0) - (MaxPrice - h0) = d0 - n0 /\ (MaxPrice - l0) - (MaxPrice - h0) = d0
          /\ (MaxPrice - c1) - (MaxPrice - h1) = d1 - n1 /\ (MaxPrice - l1) - (MaxPrice - h1) = d1
          /\ (MaxPrice - c2) - (MaxPrice - h2) = d2 - n2 /\ (MaxPrice - l2) - (MaxPrice - h2) = d2
      OBVIOUS
    <3> DEFINE m(i) == Reflected(cts)[i + 1] - Lowest(Reflected(hts), i)
               e(i) == Highest(Reflected(lts), i) - Lowest(Reflected(hts), i)
    <3>2. m(0) = d0 - n0 /\ e(0) = d0
      BY <2>2, <3>1, 0 + 1 = 1
    <3>3. m(1) = d1 - n1 /\ e(1) = d1
      BY <2>3, <3>1, 1 + 1 = 2
    <3>4. m(2) = d2 - n2 /\ e(2) = d2
      BY <2>4, <3>1, 2 + 1 = 3
    <3>5. ReflectedStoch(bs) =
            Colour(4 * (m(0) * e(1) * e(2) + m(1) * e(0) * e(2) + m(2) * e(0) * e(1))
                     < 3 * (e(0) * e(1) * e(2)),
                   4 * (m(0) * e(1) * e(2) + m(1) * e(0) * e(2) + m(2) * e(0) * e(1))
                     > 9 * (e(0) * e(1) * e(2)))
      BY <1>2, <1>4 DEF ReflectedStoch, CalculateStoch, cts, hts, lts
    <3> HIDE DEF m, e, n0, n1, n2, d0, d1, d2
    <3> QED
      BY <3>2, <3>3, <3>4, <3>5
  <2>7. /\ n0 \in Int /\ n1 \in Int /\ n2 \in Int
        /\ d0 \in Nat /\ d1 \in Nat /\ d2 \in Nat
    BY <2>2, <2>3, <2>4
  <2>8. mirror = 3 * unit - sum /\ unit \in Nat /\ sum \in Int
    <3> HIDE DEF n0, n1, n2, d0, d1, d2
    <3> QED
      BY <2>7, MirroredMean
  <2> HIDE DEF sum, unit, mirror
  <2> QED
    <3>1. (4 * mirror < 3 * unit) <=> (4 * sum > 9 * unit)
      BY <2>8
    <3>2. (4 * mirror > 9 * unit) <=> (4 * sum < 3 * unit)
      BY <2>8
    <3>3. ~(4 * sum < 3 * unit /\ 4 * sum > 9 * unit)
      BY <2>8
    <3> QED
      BY <2>5, <2>6, <3>1, <3>2, <3>3 DEF Colour, Opposite
<1> QED
  BY <1>3, <1>4

-----------------------------------------------------------------------------
(* Sums.  The community modules sum over a set by taking out one element   *)
(* after another; what is proved here follows that recursion, by the       *)
(* smallest subset that would break it.                                    *)

\* The subsets of a finite set have sizes; one element less is one less.
LEMMA SubsetSize ==
  ASSUME NEW S, IsFiniteSet(S), NEW s \in SUBSET S
  PROVE  /\ Cardinality(s) \in Nat /\ Cardinality(s) <= Cardinality(S)
         /\ Cardinality(s) = 0 <=> s = {}
         /\ \A x \in s : Cardinality(s \ {x}) = Cardinality(s) - 1
<1>1. IsFiniteSet(s) /\ Cardinality(s) <= Cardinality(S)
  BY FS_Subset
<1> QED
  BY <1>1, FS_CardinalityType, FS_EmptySet, FS_RemoveElement

LEMMA SmallestSet ==
  ASSUME NEW S, IsFiniteSet(S), NEW B \in SUBSET (SUBSET S), B # {}
  PROVE  \E s \in B : \A x \in s : s \ {x} \notin B
<1> DEFINE Sizes == {Cardinality(s) : s \in B}
<1>1. Sizes \in SUBSET Nat /\ Sizes # {}
  <2>1. \A s \in B : Cardinality(s) \in Nat
    BY SubsetSize
  <2> QED
    BY <2>1
<1>2. PICK n \in Sizes : \A m \in Sizes : n <= m
  BY <1>1, LeastNatural
<1>3. PICK s \in B : Cardinality(s) = n
  OBVIOUS
<1>4. ASSUME NEW x \in s, s \ {x} \in B PROVE FALSE
  <2>1. Cardinality(s \ {x}) = n - 1
    BY <1>3, SubsetSize
  <2>2. Cardinality(s \ {x}) \in Sizes
    BY <1>4
  <2> HIDE DEF Sizes
  <2>3. n \in Nat /\ n <= n - 1
    BY <1>1, <1>2, <2>1, <2>2
  <2> QED
    BY <2>3
<1> QED
  BY <1>4

\* The element the sum takes out of s.
Picked(s) == CHOOSE x \in s : TRUE

LEMMA PickedElement == ASSUME NEW s, s # {} PROVE Picked(s) \in s
BY DEF Picked

\* iter has the sums of g over the subsets of S, and over those of at most n
\* elements.
Adds(iter, g, S) ==
  iter = [s \in SUBSET S |-> IF s = {} THEN 0 ELSE g[Picked(s)] + iter[s \ {Picked(s)}]]

UpTo(S, n) == {s \in SUBSET S : Cardinality(s) <= n}

AddsUpTo(iter, g, S, n) ==
  iter = [s \in UpTo(S, n) |-> IF s = {} THEN 0 ELSE g[Picked(s)] + iter[s \ {Picked(s)}]]

LEMMA AddsUpToExists ==
  ASSUME NEW S, IsFiniteSet(S), NEW g, NEW n \in Nat
  PROVE  \E iter : AddsUpTo(iter, g, S, n)
<1> DEFINE Missing == {m \in Nat : ~\E iter : AddsUpTo(iter, g, S, m)}
<1> SUFFICES ASSUME Missing # {} PROVE FALSE
  OBVIOUS
<1>1. PICK m \in Missing : \A j \in Missing : m <= j
  BY LeastNatural
<1>2. CASE m = 0
  <2> DEFINE iter == [s \in UpTo(S, 0) |-> 0]
  <2>1. \A s \in UpTo(S, 0) : s = {}
    BY SubsetSize DEF UpTo
  <2>2. AddsUpTo(iter, g, S, 0)
    BY <2>1 DEF AddsUpTo
  <2> QED
    BY <1>2, <2>2
<1>3. CASE m # 0
  <2>1. m - 1 \in Nat /\ m - 1 \notin Missing
    BY <1>1, <1>3
  <2>2. PICK before : AddsUpTo(before, g, S, m - 1)
    BY <2>1
  <2> DEFINE rest(s) == s \ {Picked(s)}
             iter == [s \in UpTo(S, m) |->
                        IF s = {} THEN 0 ELSE g[Picked(s)] + before[rest(s)]]
  <2>3. \A s \in UpTo(S, m) : s # {} =>
          /\ rest(s) \in UpTo(S, m - 1) /\ rest(s) \in UpTo(S, m)
          /\ iter[rest(s)] = before[rest(s)]
    <3> SUFFICES ASSUME NEW s \in UpTo(S, m), s # {}
                 PROVE  /\ rest(s) \in UpTo(S, m - 1) /\ rest(s) \in UpTo(S, m)
                        /\ iter[rest(s)] = before[rest(s)]
      OBVIOUS
    <3> DEFINE t == rest(s)
    <3>1. s \in SUBSET S /\ Cardinality(s) <= m /\ Cardinality(s) \in Nat
      BY SubsetSize DEF UpTo
    <3>2. Cardinality(t) = Cardinality(s) - 1 /\ t \in SUBSET S
      BY <3>1, PickedElement, SubsetSize
    <3>3. t \in UpTo(S, m - 1) /\ t \in UpTo(S, m)
      BY <1>1, <3>1, <3>2 DEF UpTo
    <3> HIDE DEF t
    <3>4. iter[t] = IF t = {} THEN 0 ELSE g[Picked(t)] + before[rest(t)]
      BY <3>3
    <3>5. before[t] = IF t = {} THEN 0 ELSE g[Picked(t)] + before[rest(t)]
      BY <2>2, <3>3 DEF AddsUpTo
    <3> QED
      BY <3>3, <3>4, <3>5 DEF t
  <2>4. \A s \in UpTo(S, m) : iter[s] = IF s = {} THEN 0 ELSE g[Picked(s)] + iter[rest(s)]
    BY <2>3
  <2>5. AddsUpTo(iter, g, S, m)
    <3>1. iter = [s \in UpTo(S, m) |-> iter[s]]
      OBVIOUS
    <3> HIDE DEF iter
    <3> QED
      BY <2>4, <3>1 DEF AddsUpTo
  <2> QED
    BY <2>5
<1> QED
  BY <1>2, <1>3

\* SumFunctionOnSet adds up g over S.
LEMMA SumUnfolds ==
  ASSUME NEW S, IsFiniteSet(S), NEW g
  PROVE  \E iter : Adds(iter, g, S) /\ SumFunctionOnSet(g, S) = iter[S]
<1>1. UpTo(S, Cardinality(S)) = SUBSET S /\ Cardinality(S) \in Nat
  BY SubsetSize DEF UpTo
<1>2. \E iter : Adds(iter, g, S)
  <2>1. PICK iter : AddsUpTo(iter, g, S, Cardinality(S))
    BY <1>1, AddsUpToExists
  <2> DEFINE U == UpTo(S, Cardinality(S))
  <2>2. iter = [s \in U |-> IF s = {} THEN 0 ELSE g[Picked(s)] + iter[s \ {Picked(s)}]]
    BY <2>1 DEF AddsUpTo
  <2>3. U = SUBSET S
    BY <1>1
  <2> HIDE DEF U
  <2>4. Adds(iter, g, S)
    BY <2>2, <2>3 DEF Adds
  <2> QED
    BY <2>4
<1> DEFINE iter == CHOOSE h : h = [s \in SUBSET S |->
                     IF s = {} THEN 0
                     ELSE LET x == CHOOSE x \in s : TRUE IN g[x] + h[s \ {x}]]
<1>3. \E h : h = [s \in SUBSET S |->
                    IF s = {} THEN 0
                    ELSE LET x == CHOOSE x \in s : TRUE IN g[x] + h[s \ {x}]]
  BY <1>2 DEF Adds, Picked
<1>4. Adds(iter, g, S)
  BY <1>3 DEF Adds, Picked
<1>5. SumFunctionOnSet(g, S) = iter[S]
  BY DEF SumFunctionOnSet, FoldFunctionOnSet, MapThenFoldSet
<1> QED
  BY <1>4, <1>5

\* A sum of numbers is a number, and where they are not negative, it is not.
LEMMA SumType ==
  ASSUME NEW S, IsFiniteSet(S), NEW g, \A x \in S : g[x] \in Int
  PROVE  /\ SumFunctionOnSet(g, S) \in Int
         /\ (\A x \in S : g[x] >= 0) => SumFunctionOnSet(g, S) >= 0
<1>1. PICK iter : Adds(iter, g, S) /\ SumFunctionOnSet(g, S) = iter[S]
  BY SumUnfolds
<1> DEFINE Good(s) == iter[s] \in Int /\ ((\A x \in S : g[x] >= 0) => iter[s] >= 0)
           Bad == {s \in SUBSET S : ~Good(s)}
<1>2. Bad = {}
  <2> SUFFICES ASSUME Bad # {} PROVE FALSE
    OBVIOUS
  <2>1. PICK s \in Bad : \A x \in s : s \ {x} \notin Bad
    BY SmallestSet
  <2>2. s \in SUBSET S /\ ~Good(s)
    OBVIOUS
  <2>3. iter[s] = IF s = {} THEN 0 ELSE g[Picked(s)] + iter[s \ {Picked(s)}]
    BY <1>1, <2>2 DEF Adds
  <2>4. s # {}
    BY <2>2, <2>3
  <2>5. Picked(s) \in S /\ Good(s \ {Picked(s)})
    BY <2>1, <2>2, <2>4, PickedElement
  <2>6. Good(s)
    BY <2>3, <2>4, <2>5
  <2> QED
    BY <2>2, <2>6
<1>3. S \in SUBSET S
  OBVIOUS
<1> QED
  BY <1>1, <1>2, <1>3

\* What mirrors every term mirrors the sum.
LEMMA SumMirrors ==
  ASSUME NEW S, IsFiniteSet(S), NEW d \in Int, NEW g, NEW h,
         \A x \in S : g[x] \in Int /\ h[x] = d - g[x]
  PROVE  SumFunctionOnSet(h, S) = d * Cardinality(S) - SumFunctionOnSet(g, S)
<1>1. PICK iter : Adds(iter, g, S) /\ SumFunctionOnSet(g, S) = iter[S]
  BY SumUnfolds
<1>2. PICK jter : Adds(jter, h, S) /\ SumFunctionOnSet(h, S) = jter[S]
  BY SumUnfolds
<1> DEFINE Good(s) == iter[s] \in Int /\ jter[s] = d * Cardinality(s) - iter[s]
           Bad == {s \in SUBSET S : ~Good(s)}
<1>3. Bad = {}
  <2> SUFFICES ASSUME Bad # {} PROVE FALSE
    OBVIOUS
  <2>1. PICK s \in Bad : \A x \in s : s \ {x} \notin Bad
    BY SmallestSet
  <2>2. s \in SUBSET S /\ ~Good(s)
    OBVIOUS
  <2>3. /\ iter[s] = IF s = {} THEN 0 ELSE g[Picked(s)] + iter[s \ {Picked(s)}]
        /\ jter[s] = IF s = {} THEN 0 ELSE h[Picked(s)] + jter[s \ {Picked(s)}]
    BY <1>1, <1>2, <2>2 DEF Adds
  <2>4. s # {}
    <3> SUFFICES ASSUME s = {} PROVE FALSE
      OBVIOUS
    <3>1. Cardinality(s) = 0 /\ d * 0 = 0
      BY FS_EmptySet
    <3> QED
      BY <2>2, <2>3, <3>1
  <2> DEFINE x == Picked(s)
             rest == s \ {x}
  <2>5. x \in s /\ x \in S /\ Good(rest) /\ rest \in SUBSET S
    BY <2>1, <2>2, <2>4, PickedElement
  <2>6. Cardinality(s) \in Nat /\ Cardinality(rest) = Cardinality(s) - 1
    BY <2>2, <2>5, SubsetSize
  <2>7. /\ iter[s] = g[x] + iter[rest] /\ jter[s] = h[x] + jter[rest]
        /\ g[x] \in Int /\ h[x] = d - g[x]
    BY <2>3, <2>4, <2>5
  <2> HIDE DEF x, rest
  <2>8. PICK n \in Int, a \in Int, b \in Int :
          n = Cardinality(s) /\ a = iter[rest] /\ b = g[x]
    BY <2>5, <2>6, <2>7
  <2>9. d * (n - 1) = d * n - d
    OBVIOUS
  <2>10. jter[rest] = d * (n - 1) - a
    BY <2>5, <2>6, <2>8
  <2>11. iter[s] = b + a /\ jter[s] = (d - b) + (d * (n - 1) - a)
    BY <2>7, <2>8, <2>10
  <2>12. Good(s)
    BY <2>8, <2>9, <2>11
  <2> QED
    BY <2>2, <2>12
<1>4. S \in SUBSET S
  OBVIOUS
<1> QED
  BY <1>1, <1>2, <1>3, <1>4

\* Sums of the same terms are the same.
LEMMA SumSame ==
  ASSUME NEW S, IsFiniteSet(S), NEW g, NEW h, \A x \in S : g[x] \in Int /\ h[x] = g[x]
  PROVE  SumFunctionOnSet(h, S) = SumFunctionOnSet(g, S)
<1> DEFINE k == [x \in S |-> 0 - g[x]]
<1>a. 0 \in Int /\ \A x \in S : g[x] \in Int /\ k[x] = 0 - g[x]
  OBVIOUS
<1>1. \A x \in S : k[x] \in Int /\ h[x] = 0 - k[x]
  BY <1>a
<1> HIDE DEF k
<1>2. SumFunctionOnSet(k, S) = 0 * Cardinality(S) - SumFunctionOnSet(g, S)
  BY <1>a, SumMirrors
<1>3. SumFunctionOnSet(h, S) = 0 * Cardinality(S) - SumFunctionOnSet(k, S)
  BY <1>1, SumMirrors
<1>4. Cardinality(S) \in Nat /\ SumFunctionOnSet(g, S) \in Int
  BY FS_CardinalityType, SumType
<1> QED
  BY <1>2, <1>3, <1>4

\* A sum of equal terms is a multiple: it is its own mirror image.
LEMMA SumConstant ==
  ASSUME NEW S, IsFiniteSet(S), NEW c \in Int, NEW g, \A x \in S : g[x] = c
  PROVE  SumFunctionOnSet(g, S) = c * Cardinality(S)
<1>1. \A x \in S : g[x] \in Int /\ g[x] = 2 * c - g[x]
  OBVIOUS
<1>2. 2 * c \in Int
  OBVIOUS
<1>3. SumFunctionOnSet(g, S) = (2 * c) * Cardinality(S) - SumFunctionOnSet(g, S)
  BY <1>1, <1>2, SumMirrors
<1>4. Cardinality(S) \in Nat /\ SumFunctionOnSet(g, S) \in Int
  BY <1>1, FS_CardinalityType, SumType
<1>5. (2 * c) * Cardinality(S) = 2 * (c * Cardinality(S)) /\ c * Cardinality(S) \in Int
  BY <1>4
<1> QED
  BY <1>3, <1>4, <1>5

-----------------------------------------------------------------------------
(* Sums over the windows of a series *)

LEMMA WindowSize ==
  ASSUME NEW i \in Nat, NEW n \in Nat
  PROVE  /\ IsFiniteSet(Window(i, n)) /\ Cardinality(Window(i, n)) = n
         /\ \A m \in Nat : i + n <= m => Window(i, n) \subseteq 1..m
<1>1. /\ IsFiniteSet((i + 1)..(i + n))
      /\ Cardinality((i + 1)..(i + n)) = IF i + 1 > i + n THEN 0 ELSE (i + n) - (i + 1) + 1
  BY FS_Interval
<1>2. Cardinality((i + 1)..(i + n)) = n
  BY <1>1
<1> QED
  BY <1>1, <1>2 DEF Window

LEMMA WindowTotalReflected ==
  ASSUME NEW m \in Nat, NEW ts \in [1..m -> 0..MaxPrice], NEW i \in Nat, NEW n \in Nat, i + n <= m
  PROVE  /\ WindowTotal(ts, i, n) \in Int
         /\ WindowTotal(Reflected(ts), i, n) = MaxPrice * n - WindowTotal(ts, i, n)
<1> DEFINE W == Window(i, n)
           rs == Reflected(ts)
<1>1. IsFiniteSet(W) /\ Cardinality(W) = n /\ W \subseteq 1..m
  BY WindowSize
<1>2. MaxPrice \in Int /\ \A x \in W : ts[x] \in Int /\ rs[x] = MaxPrice - ts[x]
  BY <1>1 DEF Reflected
<1> HIDE DEF W, rs
<1>3. SumFunctionOnSet(rs, W) = MaxPrice * Cardinality(W) - SumFunctionOnSet(ts, W)
  BY <1>1, <1>2, SumMirrors
<1>4. SumFunctionOnSet(ts, W) \in Int
  BY <1>1, <1>2, SumType
<1> QED
  BY <1>1, <1>3, <1>4 DEF WindowTotal, W, rs

-----------------------------------------------------------------------------
(* The formulas in the mirrored market *)

\* The moving averages change sides.
LEMMA DifferenceReflected ==
  ASSUME NEW m \in Nat, NEW ts \in [1..m -> 0..MaxPrice], NEW i \in Nat, i + SlowLength <= m
  PROVE  /\ Difference(ts, i) \in Int
         /\ Difference(Reflected(ts), i) = 0 - Difference(ts, i)
<1>1. FastLength \in Nat /\ SlowLength \in Nat /\ i + FastLength <= m
  OBVIOUS
<1>a. /\ WindowTotal(ts, i, FastLength) \in Int
      /\ WindowTotal(Reflected(ts), i, FastLength)
           = MaxPrice * FastLength - WindowTotal(ts, i, FastLength)
  BY <1>1, WindowTotalReflected
<1>b. /\ WindowTotal(ts, i, SlowLength) \in Int
      /\ WindowTotal(Reflected(ts), i, SlowLength)
           = MaxPrice * SlowLength - WindowTotal(ts, i, SlowLength)
  BY <1>1, WindowTotalReflected
<1>2. PICK f \in Int : /\ f = WindowTotal(ts, i, FastLength)
                       /\ WindowTotal(Reflected(ts), i, FastLength) = MaxPrice * FastLength - f
  BY <1>a
<1>3. PICK s \in Int : /\ s = WindowTotal(ts, i, SlowLength)
                       /\ WindowTotal(Reflected(ts), i, SlowLength) = MaxPrice * SlowLength - s
  BY <1>b
<1>4. /\ Difference(ts, i) = SlowLength * f - FastLength * s
      /\ Difference(Reflected(ts), i)
           = SlowLength * (MaxPrice * FastLength - f) - FastLength * (MaxPrice * SlowLength - s)
  BY <1>2, <1>3 DEF Difference
<1>5. SlowLength * (MaxPrice * FastLength - f) - FastLength * (MaxPrice * SlowLength - s)
        = 0 - (SlowLength * f - FastLength * s)
  BY <1>1
<1> QED
  BY <1>1, <1>4, <1>5

LEMMA ExcessReflected ==
  ASSUME NEW m \in Nat, NEW ts \in [1..m -> 0..MaxPrice], NEW i \in 0..1,
         SlowLength + SignalLength <= m
  PROVE  /\ Excess(ts, i) \in Int
         /\ Excess(Reflected(ts), i) = 0 - Excess(ts, i)
<1> DEFINE W == i..(i + SignalLength - 1)
           g == [j \in W |-> Difference(ts, j)]
           h == [j \in W |-> Difference(Reflected(ts), j)]
<1>0. i \in Int /\ i + SignalLength - 1 \in Int
  OBVIOUS
<1>b. IsFiniteSet(W)
  BY <1>0, FS_Interval
<1>1. IsFiniteSet(W) /\ Cardinality(W) \in Nat
  <2> HIDE DEF W
  <2> QED
    BY <1>b, FS_CardinalityType
<1>2. \A j \in W : j \in Nat /\ j + SlowLength <= m
  OBVIOUS
<1>3. 0 \in Int /\ \A j \in W : g[j] \in Int /\ h[j] = 0 - g[j]
  BY <1>2, DifferenceReflected
<1>4. i \in W /\ DOMAIN g = W /\ DOMAIN h = W
  OBVIOUS
<1>5. /\ SumFunction([j \in W |-> Difference(ts, j)]) = SumFunctionOnSet(g, W)
      /\ SumFunction([j \in W |-> Difference(Reflected(ts), j)]) = SumFunctionOnSet(h, W)
  BY <1>4 DEF SumFunction
<1>a. Difference(ts, i) \in Int /\ Difference(Reflected(ts), i) = 0 - Difference(ts, i)
  BY <1>3, <1>4
<1>6. /\ Excess(ts, i) = SignalLength * Difference(ts, i) - SumFunctionOnSet(g, W)
      /\ Excess(Reflected(ts), i)
           = SignalLength * Difference(Reflected(ts), i) - SumFunctionOnSet(h, W)
  BY <1>5 DEF Excess
<1> HIDE DEF W, g, h
<1>7. SumFunctionOnSet(h, W) = 0 * Cardinality(W) - SumFunctionOnSet(g, W)
  BY <1>1, <1>3, SumMirrors
<1>8. SumFunctionOnSet(g, W) \in Int
  BY <1>1, <1>3, SumType
<1>9. PICK d \in Int, s \in Int :
        /\ d = Difference(ts, i) /\ s = SumFunctionOnSet(g, W)
        /\ Difference(Reflected(ts), i) = 0 - d /\ SumFunctionOnSet(h, W) = 0 - s
  BY <1>1, <1>a, <1>7, <1>8
<1>10. PICK p \in Int : p = SignalLength * d /\ SignalLength * (0 - d) = 0 - p
  <2>1. SignalLength * d \in Int /\ SignalLength * (0 - d) = 0 - SignalLength * d
    OBVIOUS
  <2> QED
    BY <2>1
<1>11. Excess(ts, i) = p - s /\ Excess(Reflected(ts), i) = (0 - p) - (0 - s)
  BY <1>6, <1>9, <1>10
<1> QED
  BY <1>11

LEMMA MACDReflected ==
  ASSUME NEW m \in Nat, NEW ts \in [1..m -> 0..MaxPrice]
  PROVE  CalculateMACD(Reflected(ts)) = Opposite(CalculateMACD(ts))
<1>1. Len(ts) = m /\ Len(Reflected(ts)) = m
  BY DEF Reflected
<1>2. CASE m < SlowLength + SignalLength
  BY <1>1, <1>2 DEF CalculateMACD, Opposite
<1>3. CASE m >= SlowLength + SignalLength
  <2>1. PICK e0 \in Int : Excess(ts, 0) = e0 /\ Excess(Reflected(ts), 0) = 0 - e0
    BY <1>3, ExcessReflected
  <2>2. PICK e1 \in Int : Excess(ts, 1) = e1 /\ Excess(Reflected(ts), 1) = 0 - e1
    BY <1>3, ExcessReflected
  <2>3. /\ CalculateMACD(ts) = Colour(e0 > 0 /\ e0 > e1, e0 < 0 /\ e0 < e1)
        /\ CalculateMACD(Reflected(ts))
             = Colour(0 - e0 > 0 /\ 0 - e0 > 0 - e1, 0 - e0 < 0 /\ 0 - e0 < 0 - e1)
    BY <1>1, <1>3, <2>1, <2>2 DEF CalculateMACD
  <2> QED
    BY <2>3 DEF Colour, Opposite
<1> QED
  BY <1>2, <1>3

\* What rises in one market falls in the other.
Rises(ts) ==
  [i \in Window(0, RSILength) |-> IF ts[i] > ts[i + 1] THEN ts[i] - ts[i + 1] ELSE 0]
Falls(ts) ==
  [i \in Window(0, RSILength) |-> IF ts[i] > ts[i + 1] THEN 0 ELSE ts[i + 1] - ts[i]]

LEMMA RSIOfSums ==
  ASSUME NEW m \in Nat, NEW ts, Len(ts) = m, m >= RSILength + 1
  PROVE  LET gain == SumFunctionOnSet(Rises(ts), Window(0, RSILength))
             loss == SumFunctionOnSet(Falls(ts), Window(0, RSILength))
         IN  CalculateRSI(ts)
               = Colour(10 * gain < 3 * (gain + loss), 10 * gain > 7 * (gain + loss))
<1>1. DOMAIN Rises(ts) = Window(0, RSILength) /\ DOMAIN Falls(ts) = Window(0, RSILength)
  BY DEF Rises, Falls
<1>2. /\ SumFunctionOnSet(Rises(ts), Window(0, RSILength)) = SumFunction(Rises(ts))
      /\ SumFunctionOnSet(Falls(ts), Window(0, RSILength)) = SumFunction(Falls(ts))
  BY <1>1 DEF SumFunction
<1>3. CalculateRSI(ts)
        = Colour(10 * SumFunction(Rises(ts)) < 3 * (SumFunction(Rises(ts)) + SumFunction(Falls(ts))),
                 10 * SumFunction(Rises(ts)) > 7 * (SumFunction(Rises(ts)) + SumFunction(Falls(ts))))
  <2>1. ~(Len(ts) < RSILength + 1)
    OBVIOUS
  <2> QED
    BY <2>1 DEF CalculateRSI, Rises, Falls
<1> QED
  BY <1>2, <1>3

LEMMA RSIThresholds ==
  ASSUME NEW g \in Int, NEW l \in Int, g >= 0, l >= 0
  PROVE  /\ (10 * l < 3 * (l + g)) <=> (10 * g > 7 * (g + l))
         /\ (10 * l > 7 * (l + g)) <=> (10 * g < 3 * (g + l))
         /\ ~(10 * g < 3 * (g + l) /\ 10 * g > 7 * (g + l))
OBVIOUS

LEMMA RSIReflected ==
  ASSUME NEW m \in Nat, NEW ts \in [1..m -> 0..MaxPrice]
  PROVE  CalculateRSI(Reflected(ts)) = Opposite(CalculateRSI(ts))
<1> DEFINE rs == Reflected(ts)
           W == Window(0, RSILength)
<1>1. Len(ts) = m /\ Len(rs) = m
  BY DEF Reflected
<1>2. CASE m < RSILength + 1
  BY <1>1, <1>2 DEF CalculateRSI, Opposite
<1>3. CASE m >= RSILength + 1
  <2>1. \A x \in W : x \in 1..m /\ x + 1 \in 1..m
    BY <1>3 DEF Window
  <2>2. IsFiniteSet(W)
    BY WindowSize
  <2>3. \A x \in W : /\ ts[x] \in Int /\ ts[x + 1] \in Int
                     /\ rs[x] = MaxPrice - ts[x] /\ rs[x + 1] = MaxPrice - ts[x + 1]
    BY <2>1 DEF Reflected
  <2>4. \A x \in W : /\ Rises(ts)[x] \in Int /\ Falls(ts)[x] \in Int
                     /\ Rises(ts)[x] >= 0 /\ Falls(ts)[x] >= 0
                     /\ Falls(rs)[x] = Rises(ts)[x] /\ Rises(rs)[x] = Falls(ts)[x]
    <3> SUFFICES ASSUME NEW x \in W
                 PROVE  /\ Rises(ts)[x] \in Int /\ Falls(ts)[x] \in Int
                        /\ Rises(ts)[x] >= 0 /\ Falls(ts)[x] >= 0
                        /\ Falls(rs)[x] = Rises(ts)[x] /\ Rises(rs)[x] = Falls(ts)[x]
      OBVIOUS
    <3>1. /\ Rises(ts)[x] = IF ts[x] > ts[x + 1] THEN ts[x] - ts[x + 1] ELSE 0
          /\ Falls(ts)[x] = IF ts[x] > ts[x + 1] THEN 0 ELSE ts[x + 1] - ts[x]
          /\ Rises(rs)[x] = IF rs[x] > rs[x + 1] THEN rs[x] - rs[x + 1] ELSE 0
          /\ Falls(rs)[x] = IF rs[x] > rs[x + 1] THEN 0 ELSE rs[x + 1] - rs[x]
      <4> HIDE DEF rs
      <4> QED
        BY DEF Rises, Falls
    <3>2. PICK p \in Int, q \in Int :
            /\ p = ts[x] /\ q = ts[x + 1]
            /\ rs[x] = MaxPrice - p /\ rs[x + 1] = MaxPrice - q
      BY <2>3
    <3> HIDE DEF rs, W
    <3>3. /\ Rises(ts)[x] = IF p > q THEN p - q ELSE 0
          /\ Falls(ts)[x] = IF p > q THEN 0 ELSE q - p
          /\ Rises(rs)[x] = IF MaxPrice - p > MaxPrice - q
                            THEN (MaxPrice - p) - (MaxPrice - q) ELSE 0
          /\ Falls(rs)[x] = IF MaxPrice - p > MaxPrice - q
                            THEN 0 ELSE (MaxPrice - q) - (MaxPrice - p)
      BY <3>1, <3>2
    <3>4. CASE p > q
      BY <3>3, <3>4
    <3>5. CASE ~(p > q)
      BY <3>3, <3>5
    <3> QED
      BY <3>4, <3>5
  <2> HIDE DEF rs, W
  <2>5. PICK g \in Int : /\ g >= 0 /\ SumFunctionOnSet(Rises(ts), W) = g
                         /\ SumFunctionOnSet(Falls(rs), W) = g
    BY <2>2, <2>4, SumType, SumSame
  <2>6. PICK l \in Int : /\ l >= 0 /\ SumFunctionOnSet(Falls(ts), W) = l
                         /\ SumFunctionOnSet(Rises(rs), W) = l
    BY <2>2, <2>4, SumType, SumSame
  <2>7. CalculateRSI(ts) = Colour(10 * g < 3 * (g + l), 10 * g > 7 * (g + l))
    BY <1>1, <1>3, <2>5, <2>6, RSIOfSums DEF W
  <2>8. CalculateRSI(rs) = Colour(10 * l < 3 * (l + g), 10 * l > 7 * (l + g))
    BY <1>1, <1>3, <2>5, <2>6, RSIOfSums DEF W
  <2>9. /\ (10 * l < 3 * (l + g)) <=> (10 * g > 7 * (g + l))
        /\ (10 * l > 7 * (l + g)) <=> (10 * g < 3 * (g + l))
        /\ ~(10 * g < 3 * (g + l) /\ 10 * g > 7 * (g + l))
    BY <2>5, <2>6, RSIThresholds
  <2> QED
    BY <2>7, <2>8, <2>9 DEF Colour, Opposite, rs
<1> QED
  BY <1>2, <1>3

LEMMA ADXReflected ==
  ASSUME NEW m \in Nat, NEW ts \in [1..m -> 0..MaxPrice]
  PROVE  CalculateADX(Reflected(ts)) = Opposite(CalculateADX(ts))
<1>1. Len(ts) = m /\ Len(Reflected(ts)) = m
  BY DEF Reflected
<1>2. CASE m < SMALength + 1
  BY <1>1, <1>2 DEF CalculateADX, Opposite
<1>3. CASE m >= SMALength + 1
  <2>0. 0 \in Nat /\ 1 \in Nat /\ SMALength \in Nat /\ 0 + SMALength <= m /\ 1 + SMALength <= m
    BY <1>3
  <2>t. \A i, n \in Nat : i + n <= m =>
          /\ WindowTotal(ts, i, n) \in Int
          /\ WindowTotal(Reflected(ts), i, n) = MaxPrice * n - WindowTotal(ts, i, n)
    BY WindowTotalReflected
  <2>a. /\ WindowTotal(ts, 0, SMALength) \in Int
        /\ WindowTotal(Reflected(ts), 0, SMALength)
             = MaxPrice * SMALength - WindowTotal(ts, 0, SMALength)
    BY <2>0, <2>t
  <2>b. /\ WindowTotal(ts, 1, SMALength) \in Int
        /\ WindowTotal(Reflected(ts), 1, SMALength)
             = MaxPrice * SMALength - WindowTotal(ts, 1, SMALength)
    BY <2>0, <2>t
  <2>1. PICK a \in Int : /\ WindowTotal(ts, 0, SMALength) = a
                         /\ WindowTotal(Reflected(ts), 0, SMALength) = MaxPrice * SMALength - a
    BY <2>a
  <2>2. PICK b \in Int : /\ WindowTotal(ts, 1, SMALength) = b
                         /\ WindowTotal(Reflected(ts), 1, SMALength) = MaxPrice * SMALength - b
    BY <2>b
  <2>3. 1 \in 1..m /\ 2 \in 1..m
    BY <1>3
  <2>4. PICK p \in Int, q \in Int : /\ ts[1] = p /\ Reflected(ts)[1] = MaxPrice - p
                                    /\ ts[2] = q /\ Reflected(ts)[2] = MaxPrice - q
    <3>1. /\ ts[1] \in Int /\ Reflected(ts)[1] = MaxPrice - ts[1]
          /\ ts[2] \in Int /\ Reflected(ts)[2] = MaxPrice - ts[2]
      BY <2>3 DEF Reflected
    <3> QED
      BY <3>1
  <2>5. CalculateADX(ts) = Colour(p > q /\ a > b /\ SMALength * p > a,
                                  p < q /\ a < b /\ SMALength * p < a)
    BY <1>1, <1>3, <2>1, <2>2, <2>4, SMTT(30) DEF CalculateADX
  <2> DEFINE full == MaxPrice * SMALength
             np == SMALength * p
             nr == SMALength * (MaxPrice - p)
  <2>6. CalculateADX(Reflected(ts)) =
          Colour(MaxPrice - p > MaxPrice - q /\ full - a > full - b /\ nr > full - a,
                 MaxPrice - p < MaxPrice - q /\ full - a < full - b /\ nr < full - a)
    BY <1>1, <1>3, <2>1, <2>2, <2>4, SMTT(30) DEF CalculateADX
  <2>7. nr = full - np /\ full \in Int /\ np \in Int
    OBVIOUS
  <2> HIDE DEF full, np, nr
  <2>8. /\ (MaxPrice - p > MaxPrice - q /\ full - a > full - b /\ nr > full - a)
             <=> (p < q /\ a < b /\ np < a)
        /\ (MaxPrice - p < MaxPrice - q /\ full - a < full - b /\ nr < full - a)
             <=> (p > q /\ a > b /\ np > a)
    BY <2>7
  <2>9. ~((p < q /\ a < b /\ np < a) /\ (p > q /\ a > b /\ np > a))
    OBVIOUS
  <2> QED
    BY <2>5, <2>6, <2>8, <2>9 DEF Colour, Opposite, np
<1> QED
  BY <1>2, <1>3

\* Whether p is outside of a band that n prices with this total and this
\* spread make.
Beyond(n, p, total, spread, sign) ==
  LET distance == sign * (n * p - total)
  IN  distance > 0 /\ (n - 1) * distance * distance > 4 * spread

\* The distance of each price from the mean turns around.
LEMMA TurnedAround ==
  ASSUME NEW n \in Int, NEW c \in Int, NEW s \in Int
  PROVE  /\ n * c - s \in Int
         /\ n * (MaxPrice - c) - (MaxPrice * n - s) = 0 - (n * c - s)
<1>1. n * (MaxPrice - c) = MaxPrice * n - n * c /\ n * c \in Int /\ MaxPrice * n \in Int
  OBVIOUS
<1> DEFINE a == n * c
           b == MaxPrice * n
<1>2. a \in Int /\ b \in Int /\ n * (MaxPrice - c) = b - a
  BY <1>1
<1> HIDE DEF a, b
<1>3. a - s \in Int /\ (b - a) - (b - s) = 0 - (a - s)
  BY <1>2
<1> QED
  BY <1>2, <1>3 DEF a, b

LEMMA SameSquare == ASSUME NEW x \in Int PROVE (0 - x) * (0 - x) = x * x
OBVIOUS

Squares(cts, total) ==
  [i \in Window(0, BBLength) |->
     (BBLength * cts[i] - total) * (BBLength * cts[i] - total)]

LEMMA OutsideOfSums ==
  ASSUME NEW cts, NEW p, NEW sign
  PROVE  LET total == WindowTotal(cts, 0, BBLength) IN
         Outside(cts, p, sign)
           = Beyond(BBLength, p, total, SumFunctionOnSet(Squares(cts, total), Window(0, BBLength)), sign)
<1> DEFINE total == WindowTotal(cts, 0, BBLength)
<1>1. DOMAIN Squares(cts, total) = Window(0, BBLength)
  BY DEF Squares
<1>2. SumFunctionOnSet(Squares(cts, total), Window(0, BBLength))
        = SumFunction(Squares(cts, total))
  BY <1>1 DEF SumFunction
<1>3. Outside(cts, p, sign) = Beyond(BBLength, p, total, SumFunction(Squares(cts, total)), sign)
  BY DEF Outside, Beyond, Squares
<1> QED
  BY <1>2, <1>3

\* Above a band here is below it there.
LEMMA OutsideReflected ==
  ASSUME NEW m \in Nat, NEW cts \in [1..m -> 0..MaxPrice], BBLength <= m,
         NEW p \in Int, NEW sign \in {1, -1}
  PROVE  Outside(Reflected(cts), MaxPrice - p, 0 - sign) = Outside(cts, p, sign)
<1> DEFINE W == Window(0, BBLength)
           rs == Reflected(cts)
<1>0. 0 \in Nat /\ BBLength \in Nat /\ BBLength \in Int /\ 0 + BBLength <= m
  OBVIOUS
<1>a. IsFiniteSet(W) /\ W \subseteq 1..m
  BY <1>0, WindowSize
<1>b. /\ WindowTotal(cts, 0, BBLength) \in Int
      /\ WindowTotal(rs, 0, BBLength) = MaxPrice * BBLength - WindowTotal(cts, 0, BBLength)
  BY <1>0, WindowTotalReflected
<1>1. PICK s \in Int : /\ WindowTotal(cts, 0, BBLength) = s
                       /\ WindowTotal(rs, 0, BBLength) = MaxPrice * BBLength - s
  BY <1>b
<1> DEFINE r == MaxPrice * BBLength - s
           g == Squares(cts, s)
           h == Squares(rs, r)
<1>2. \A x \in W : g[x] \in Int /\ h[x] = g[x]
  <2> SUFFICES ASSUME NEW x \in W PROVE g[x] \in Int /\ h[x] = g[x]
    OBVIOUS
  <2>1. cts[x] \in Int /\ rs[x] = MaxPrice - cts[x]
    BY <1>a DEF Reflected
  <2>2. PICK c \in Int : c = cts[x] /\ rs[x] = MaxPrice - c
    BY <2>1
  <2> DEFINE d == BBLength * c - s
  <2>3. d \in Int /\ BBLength * (MaxPrice - c) - r = 0 - d
    BY <1>0, TurnedAround
  <2>4. g[x] = d * d
    BY <2>2 DEF Squares
  <2>5. h[x] = (BBLength * (MaxPrice - c) - r) * (BBLength * (MaxPrice - c) - r)
    BY <2>2 DEF Squares
  <2> HIDE DEF d, g, h, r
  <2>6. h[x] = (0 - d) * (0 - d)
    BY <2>3, <2>5
  <2>7. d * d \in Int
    BY <2>3
  <2> QED
    BY <2>3, <2>4, <2>6, <2>7, SameSquare
<1>3. PICK spread \in Int : SumFunctionOnSet(g, W) = spread /\ SumFunctionOnSet(h, W) = spread
  <2> HIDE DEF g, h, W
  <2>1. SumFunctionOnSet(g, W) \in Int
    BY <1>a, <1>2, SumType
  <2>2. SumFunctionOnSet(h, W) = SumFunctionOnSet(g, W)
    BY <1>a, <1>2, SumSame
  <2> QED
    BY <2>1, <2>2
<1>4. Outside(cts, p, sign) = Beyond(BBLength, p, s, spread, sign)
  BY <1>1, <1>3, OutsideOfSums
<1>5. Outside(rs, MaxPrice - p, 0 - sign) = Beyond(BBLength, MaxPrice - p, r, spread, 0 - sign)
  BY <1>1, <1>3, OutsideOfSums
<1> DEFINE e == BBLength * p - s
<1>6. e \in Int /\ BBLength * (MaxPrice - p) - r = 0 - e
  BY <1>0, TurnedAround
<1>7. (0 - sign) * (0 - e) = sign * e
  <2> HIDE DEF e
  <2> QED
    BY <1>6
<1>8. (0 - sign) * (BBLength * (MaxPrice - p) - r) = sign * e
  <2> HIDE DEF e, r
  <2> QED
    BY <1>6, <1>7
<1>9. Beyond(BBLength, MaxPrice - p, r, spread, 0 - sign) = Beyond(BBLength, p, s, spread, sign)
  <2> HIDE DEF r
  <2> QED
    BY <1>8 DEF Beyond
<1> QED
  BY <1>4, <1>5, <1>9

\* A rate above the upper band there is one below the lower band here; where
\* there are both, calculateBB says Red both times.
LEMMA BBReflected ==
  ASSUME NEW m \in Nat, NEW cts \in [1..m -> 0..MaxPrice],
         NEW hts \in [1..m -> 0..MaxPrice], NEW lts \in [1..m -> 0..MaxPrice]
  PROVE  LET bb == CalculateBB(cts, hts, lts)
             mirror == CalculateBB(Reflected(cts), Reflected(lts), Reflected(hts))
         IN  mirror = Opposite(bb) \/ (mirror = "Red" /\ bb = "Red")
<1>1. Len(cts) = m /\ Len(Reflected(cts)) = m
  BY DEF Reflected
<1>2. CASE m < BBLength
  BY <1>1, <1>2 DEF CalculateBB, Opposite
<1>3. CASE m >= BBLength
  <2>1. 1 \in 1..m /\ 2 \in 1..m /\ BBLength <= m
    BY <1>3
  <2>2. PICK h1 \in Int, h2 \in Int, l1 \in Int, l2 \in Int :
          /\ hts[1] = h1 /\ Reflected(hts)[1] = MaxPrice - h1
          /\ hts[2] = h2 /\ Reflected(hts)[2] = MaxPrice - h2
          /\ lts[1] = l1 /\ Reflected(lts)[1] = MaxPrice - l1
          /\ lts[2] = l2 /\ Reflected(lts)[2] = MaxPrice - l2
    <3>1. \A x \in {1, 2} : /\ hts[x] \in Int /\ Reflected(hts)[x] = MaxPrice - hts[x]
                            /\ lts[x] \in Int /\ Reflected(lts)[x] = MaxPrice - lts[x]
      BY <2>1 DEF Reflected
    <3> QED
      BY <3>1
  <2> DEFINE above == Outside(cts, h1, 1) \/ Outside(cts, h2, 1)
             below == Outside(cts, l1, -1) \/ Outside(cts, l2, -1)
             rs == Reflected(cts)
  <2>3. \A p \in Int : /\ Outside(rs, MaxPrice - p, -1) = Outside(cts, p, 1)
                       /\ Outside(rs, MaxPrice - p, 1) = Outside(cts, p, -1)
    <3>1. 0 - 1 = -1 /\ 0 - (-1) = 1
      OBVIOUS
    <3> SUFFICES ASSUME NEW p \in Int
                 PROVE  /\ Outside(rs, MaxPrice - p, -1) = Outside(cts, p, 1)
                        /\ Outside(rs, MaxPrice - p, 1) = Outside(cts, p, -1)
      OBVIOUS
    <3>2. Outside(rs, MaxPrice - p, 0 - 1) = Outside(cts, p, 1)
      BY <2>1, OutsideReflected
    <3>3. Outside(rs, MaxPrice - p, 0 - (-1)) = Outside(cts, p, -1)
      BY <2>1, OutsideReflected
    <3> QED
      BY <3>1, <3>2, <3>3
  <2>4. CalculateBB(cts, hts, lts) = Colour(below /\ ~above, above)
    BY <1>1, <1>3, <2>2 DEF CalculateBB
  <2>5. CalculateBB(rs, Reflected(lts), Reflected(hts)) =
          Colour(((Outside(rs, MaxPrice - h1, -1) \/ Outside(rs, MaxPrice - h2, -1))
                    /\ ~(Outside(rs, MaxPrice - l1, 1) \/ Outside(rs, MaxPrice - l2, 1))),
                 Outside(rs, MaxPrice - l1, 1) \/ Outside(rs, MaxPrice - l2, 1))
    BY <1>1, <1>3, <2>2 DEF CalculateBB
  <2>6. CalculateBB(rs, Reflected(lts), Reflected(hts)) = Colour(above /\ ~below, below)
    <3> HIDE DEF rs
    <3> QED
      BY <2>2, <2>3, <2>5
  <2> HIDE DEF above, below
  <2> QED
    BY <2>4, <2>6 DEF Colour, Opposite
<1> QED
  BY <1>2, <1>3

-----------------------------------------------------------------------------
(* The formulas in a market that does not move *)

Constant(m, c) == [i \in 1..m |-> c]

LEMMA WindowTotalConstant ==
  ASSUME NEW m \in Nat, NEW c \in 0..MaxPrice, NEW i \in Nat, NEW n \in Nat, i + n <= m
  PROVE  WindowTotal(Constant(m, c), i, n) = c * n
<1>1. IsFiniteSet(Window(i, n)) /\ Cardinality(Window(i, n)) = n /\ Window(i, n) \subseteq 1..m
  BY WindowSize
<1>2. c \in Int /\ \A x \in Window(i, n) : Constant(m, c)[x] = c
  BY <1>1 DEF Constant
<1>3. SumFunctionOnSet(Constant(m, c), Window(i, n)) = c * Cardinality(Window(i, n))
  BY <1>1, <1>2, SumConstant
<1> QED
  BY <1>1, <1>3 DEF WindowTotal

\* The moving averages are the price.
LEMMA MACDConstant ==
  ASSUME NEW m \in Nat, NEW c \in 0..MaxPrice
  PROVE  CalculateMACD(Constant(m, c)) = "Gray"
<1> DEFINE ts == Constant(m, c)
<1>1. Len(ts) = m
  BY DEF Constant
<1>2. CASE m < SlowLength + SignalLength
  BY <1>1, <1>2 DEF CalculateMACD
<1>3. CASE m >= SlowLength + SignalLength
  <2>1. ASSUME NEW j \in 0..SignalLength PROVE Difference(ts, j) = 0
    <3>1. j \in Nat /\ FastLength \in Nat /\ SlowLength \in Nat
          /\ j + FastLength <= m /\ j + SlowLength <= m
      BY <1>3
    <3>2. WindowTotal(ts, j, FastLength) = c * FastLength
          /\ WindowTotal(ts, j, SlowLength) = c * SlowLength
      BY <3>1, WindowTotalConstant
    <3>3. SlowLength * (c * FastLength) - FastLength * (c * SlowLength) = 0
      BY <3>1
    <3> QED
      BY <3>2, <3>3 DEF Difference
  <2>2. ASSUME NEW i \in 0..1 PROVE Excess(ts, i) = 0
    <3> DEFINE W == i..(i + SignalLength - 1)
               g == [j \in W |-> Difference(ts, j)]
    <3>1. i \in Int /\ i + SignalLength - 1 \in Int /\ i \in 0..SignalLength
      OBVIOUS
    <3>2. IsFiniteSet(W)
      BY <3>1, FS_Interval
    <3>3. W \subseteq 0..SignalLength /\ DOMAIN g = W
      OBVIOUS
    <3>4. 0 \in Int /\ \A x \in W : g[x] = 0
      BY <2>1, <3>3
    <3>5. SumFunction([j \in W |-> Difference(ts, j)]) = SumFunctionOnSet(g, W)
      BY <3>3 DEF SumFunction
    <3>6. Excess(ts, i) = SignalLength * Difference(ts, i) - SumFunctionOnSet(g, W)
      BY <3>5 DEF Excess
    <3> HIDE DEF W, g, ts
    <3>7. SumFunctionOnSet(g, W) = 0 * Cardinality(W) /\ Cardinality(W) \in Nat
      BY <3>2, <3>4, SumConstant, FS_CardinalityType
    <3>8. Difference(ts, i) = 0
      BY <2>1, <3>1
    <3> QED
      BY <3>6, <3>7, <3>8
  <2> QED
    BY <1>1, <1>3, <2>2 DEF CalculateMACD, Colour
<1> QED
  BY <1>2, <1>3

\* Neither gain nor loss: 0 / 0.
LEMMA RSIConstant ==
  ASSUME NEW m \in Nat, NEW c \in 0..MaxPrice
  PROVE  CalculateRSI(Constant(m, c)) = "Gray"
<1> DEFINE ts == Constant(m, c)
           W == Window(0, RSILength)
<1>1. Len(ts) = m
  BY DEF Constant
<1>2. CASE m < RSILength + 1
  BY <1>1, <1>2 DEF CalculateRSI
<1>3. CASE m >= RSILength + 1
  <2>1. IsFiniteSet(W)
    BY WindowSize
  <2>2. \A x \in W : x \in 1..m /\ x + 1 \in 1..m
    BY <1>3 DEF Window
  <2>3. \A x \in W : ts[x] = c /\ ts[x + 1] = c
    BY <2>2 DEF Constant
  <2>4. 0 \in Int /\ \A x \in W : Rises(ts)[x] = 0 /\ Falls(ts)[x] = 0
    <3> HIDE DEF ts
    <3> QED
      BY <2>3 DEF Rises, Falls
  <2> HIDE DEF ts, W
  <2>5. /\ SumFunctionOnSet(Rises(ts), W) = 0 * Cardinality(W)
        /\ SumFunctionOnSet(Falls(ts), W) = 0 * Cardinality(W)
        /\ Cardinality(W) \in Nat
    BY <2>1, <2>4, SumConstant, FS_CardinalityType
  <2>6. SumFunctionOnSet(Rises(ts), W) = 0 /\ SumFunctionOnSet(Falls(ts), W) = 0
    BY <2>5
  <2>7. CalculateRSI(ts) = Colour(10 * 0 < 3 * (0 + 0), 10 * 0 > 7 * (0 + 0))
    BY <1>1, <1>3, <2>6, RSIOfSums DEF W
  <2> QED
    BY <2>7 DEF Colour, ts
<1> QED
  BY <1>2, <1>3

\* The bands have no width, and the price is on them, not beyond.
LEMMA BBConstant ==
  ASSUME NEW m \in Nat, NEW c \in 0..MaxPrice
  PROVE  CalculateBB(Constant(m, c), Constant(m, c), Constant(m, c)) = "Gray"
<1> DEFINE ts == Constant(m, c)
<1>1. Len(ts) = m
  BY DEF Constant
<1>2. CASE m < BBLength
  BY <1>1, <1>2 DEF CalculateBB
<1>3. CASE m >= BBLength
  <2>1. 0 \in Nat /\ BBLength \in Nat /\ 0 + BBLength <= m /\ 1 \in 1..m /\ 2 \in 1..m
    BY <1>3
  <2>2. WindowTotal(ts, 0, BBLength) = c * BBLength
    BY <2>1, WindowTotalConstant
  <2>3. ts[1] = c /\ ts[2] = c
    BY <2>1 DEF Constant
  <2>4. ASSUME NEW sign \in {1, -1} PROVE ~Outside(ts, c, sign)
    <3>1. sign * (BBLength * c - c * BBLength) = 0
      BY <2>1
    <3> HIDE DEF ts
    <3> QED
      BY <2>2, <3>1 DEF Outside
  <2> QED
    BY <1>1, <1>3, <2>3, <2>4 DEF CalculateBB, Colour
<1> QED
  BY <1>2, <1>3

LEMMA ADXConstant ==
  ASSUME NEW m \in Nat, NEW c \in 0..MaxPrice
  PROVE  CalculateADX(Constant(m, c)) = "Gray"
<1>1. Len(Constant(m, c)) = m
  BY DEF Constant
<1>2. CASE m < SMALength + 1
  BY <1>1, <1>2 DEF CalculateADX
<1>3. CASE m >= SMALength + 1
  <2>1. 1 \in 1..m /\ 2 \in 1..m
    BY <1>3
  <2>2. Constant(m, c)[1] = c /\ Constant(m, c)[2] = c
    BY <2>1 DEF Constant
  <2> QED
    BY <1>1, <1>3, <2>2 DEF CalculateADX, Colour
<1> QED
  BY <1>2, <1>3

\* The windows have no range, and K is 0 / 0.
LEMMA StochConstant ==
  ASSUME NEW m \in Nat, NEW c \in 0..MaxPrice
  PROVE  CalculateStoch(Constant(m, c), Constant(m, c), Constant(m, c)) = "Gray"
<1> DEFINE ts == Constant(m, c)
<1>1. Len(ts) = m
  BY DEF Constant
<1>2. CASE m < StochLength + 3
  BY <1>1, <1>2 DEF CalculateStoch
<1>3. CASE m >= StochLength + 3
  <2>1. ASSUME NEW i \in 0..2
        PROVE  Lowest(ts, i) = c /\ Highest(ts, i) = c /\ ts[i + 1] = c
    <3> DEFINE S == {ts[k] : k \in Window(i, StochLength)}
    <3>1. Window(i, StochLength) \subseteq 1..m /\ i + 1 \in Window(i, StochLength)
      BY <1>3 DEF Window
    <3>2. S = {c} /\ ts[i + 1] = c
      BY <3>1 DEF Constant
    <3>3. {c} \in SUBSET (0..MaxPrice) /\ {c} # {}
      OBVIOUS
    <3>4. Min({c}) \in {c} /\ Max({c}) \in {c}
      BY <3>3, MinIsLeast, MaxIsGreatest
    <3> QED
      BY <3>2, <3>4 DEF Lowest, Highest
  <2> DEFINE n(i) == ts[i + 1] - Lowest(ts, i)
             d(i) == Highest(ts, i) - Lowest(ts, i)
  <2>2. n(0) = 0 /\ n(1) = 0 /\ n(2) = 0 /\ d(0) = 0 /\ d(1) = 0 /\ d(2) = 0
    <3>1. \A i \in 0..2 : n(i) = 0 /\ d(i) = 0
      BY <2>1
    <3> HIDE DEF n, d
    <3> QED
      BY <3>1
  <2>3. CalculateStoch(ts, ts, ts) =
          Colour(4 * (n(0) * d(1) * d(2) + n(1) * d(0) * d(2) + n(2) * d(0) * d(1))
                   < 3 * (d(0) * d(1) * d(2)),
                 4 * (n(0) * d(1) * d(2) + n(1) * d(0) * d(2) + n(2) * d(0) * d(1))
                   > 9 * (d(0) * d(1) * d(2)))
    BY <1>1, <1>3 DEF CalculateStoch
  <2> HIDE DEF n, d, ts
  <2> QED
    BY <2>2, <2>3 DEF Colour, ts
<1> QED
  BY <1>2, <1>3

-----------------------------------------------------------------------------
(* generateData *)

\* The rates of a frame are those at whole intervals before the newest one,
\* of a response of any length.
THEOREM FramesOfAnyResponse ==
  ASSUME NEW tf \in TimeFrames, NEW n \in Nat \ {0}
  PROVE  /\ ToSet(GenerateData([i \in 1..n |-> i], tf)) = {k \in 1..n : (n - k) % Interval(tf) = 0}
         /\ \A i, j \in DOMAIN GenerateData([i \in 1..n |-> i], tf) : i < j =>
              GenerateData([m \in 1..n |-> m], tf)[i] > GenerateData([m \in 1..n |-> m], tf)[j]
<1> DEFINE I == Interval(tf)
           count == (n - 1) \div I
           frame == GenerateData([i \in 1..n |-> i], tf)
<1>1. I \in {1, 2, 4, 16, 48}
  BY DEF Interval, TimeFrames
<1>2. count \in Nat /\ count * I <= n - 1 /\ n - 1 < (count + 1) * I
  <2> HIDE DEF I
  <2> QED
    BY <1>1
<1>3. frame = [i \in 1..(count + 1) |-> n - (i - 1) * I]
  <2> DEFINE ts == [i \in 1..n |-> i]
  <2>1. Len(ts) = n /\ Reverse(ts) = [i \in 1..n |-> n - i + 1]
    BY DEF Reverse
  <2>2. \A i \in 1..(count + 1) : (i - 1) * I + 1 \in 1..n
    <3> HIDE DEF I, count
    <3> QED
      BY <1>1, <1>2
  <2>3. frame = [i \in 1..(count + 1) |-> Reverse(ts)[(i - 1) * I + 1]]
    BY <2>1 DEF GenerateData
  <2> HIDE DEF I, count, ts, frame
  <2>4. \A i \in 1..(count + 1) : Reverse(ts)[(i - 1) * I + 1] = n - (i - 1) * I
    <3> SUFFICES ASSUME NEW i \in 1..(count + 1)
                 PROVE  Reverse(ts)[(i - 1) * I + 1] = n - (i - 1) * I
      OBVIOUS
    <3> DEFINE p == (i - 1) * I + 1
    <3>1. p \in 1..n
      BY <2>2
    <3>2. Reverse(ts)[p] = n - p + 1
      BY <2>1, <3>1
    <3>3. n - p + 1 = n - (i - 1) * I
      BY <1>1, <1>2
    <3> QED
      BY <3>2, <3>3
  <2> QED
    BY <2>3, <2>4
<1>4. \A k \in 1..n : (n - k) % I = 0 => \E i \in 1..(count + 1) : k = n - (i - 1) * I
  <2> SUFFICES ASSUME NEW k \in 1..n, (n - k) % I = 0
               PROVE  \E i \in 1..(count + 1) : k = n - (i - 1) * I
    OBVIOUS
  <2> DEFINE q == (n - k) \div I
  <2> HIDE DEF I, count
  <2>1. q \in Nat /\ n - k = q * I /\ q <= count
    BY <1>1, <1>2
  <2>2. q + 1 \in 1..(count + 1) /\ k = n - ((q + 1) - 1) * I
    BY <1>1, <1>2, <2>1
  <2> QED
    BY <2>2
<1>5. \A i \in 1..(count + 1) :
        n - (i - 1) * I \in 1..n /\ (n - (n - (i - 1) * I)) % I = 0
  <2> HIDE DEF I, count
  <2> QED
    BY <1>1, <1>2
<1>6. \A i, j \in 1..(count + 1) : i < j => n - (i - 1) * I > n - (j - 1) * I
  <2> HIDE DEF I, count
  <2> QED
    BY <1>1, <1>2
<1> HIDE DEF I, count, frame
<1>7. DOMAIN frame = 1..(count + 1) /\ \A i \in 1..(count + 1) : frame[i] = n - (i - 1) * I
  BY <1>3
<1>8. ToSet(frame) = {k \in 1..n : (n - k) % I = 0}
  <2>1. \A k \in ToSet(frame) : k \in 1..n /\ (n - k) % I = 0
    BY <1>5, <1>7 DEF ToSet
  <2>2. \A k \in 1..n : (n - k) % I = 0 => k \in ToSet(frame)
    BY <1>4, <1>7 DEF ToSet
  <2> QED
    BY <2>1, <2>2
<1>9. \A i, j \in DOMAIN frame : i < j => frame[i] > frame[j]
  BY <1>6, <1>7
<1> QED
  BY <1>8, <1>9 DEF frame, I

-----------------------------------------------------------------------------
(* The frames of a response *)

\* A frame has rates of the series, each at a place that only depends on the
\* length.
LEMMA FramePlaces ==
  ASSUME NEW n \in Nat \ {0}, NEW tf \in TimeFrames
  PROVE  \E m \in Nat \ {0} : \E at \in [1..m -> 1..n] :
           \A S : \A ts \in [1..n -> S] : GenerateData(ts, tf) = [i \in 1..m |-> ts[at[i]]]
<1> DEFINE I == Interval(tf)
           m == (n - 1) \div I + 1
           at == [i \in 1..m |-> n - (i - 1) * I]
<1>1. I \in {1, 2, 4, 16, 48}
  BY DEF Interval, TimeFrames
<1>2. m \in Nat \ {0} /\ (m - 1) * I <= n - 1
  <2> HIDE DEF I
  <2> QED
    BY <1>1
<1>3. \A i \in 1..m : n - (i - 1) * I \in 1..n /\ (i - 1) * I + 1 \in 1..n
  <2> HIDE DEF I, m
  <2> QED
    BY <1>1, <1>2
<1>4. at \in [1..m -> 1..n]
  BY <1>3
<1>5. ASSUME NEW S, NEW ts \in [1..n -> S]
      PROVE  GenerateData(ts, tf) = [i \in 1..m |-> ts[at[i]]]
  <2>1. Len(ts) = n /\ Reverse(ts) = [i \in 1..n |-> ts[n - i + 1]]
    BY DEF Reverse
  <2>2. GenerateData(ts, tf) = [i \in 1..m |-> Reverse(ts)[(i - 1) * I + 1]]
    BY <2>1 DEF GenerateData
  <2> HIDE DEF I, m
  <2>3. \A i \in 1..m : Reverse(ts)[(i - 1) * I + 1] = ts[at[i]]
    <3> SUFFICES ASSUME NEW i \in 1..m
                 PROVE  Reverse(ts)[(i - 1) * I + 1] = ts[at[i]]
      OBVIOUS
    <3>1. PICK q \in 1..n : q = (i - 1) * I + 1
      BY <1>3
    <3>2. Reverse(ts)[q] = ts[n - q + 1]
      BY <2>1
    <3>3. n - q + 1 = at[i]
      BY <1>1, <1>2, <3>1
    <3> QED
      BY <3>1, <3>2, <3>3
  <2> QED
    BY <2>2, <2>3
<1>6. \A S : \A ts \in [1..n -> S] : GenerateData(ts, tf) = [i \in 1..m |-> ts[at[i]]]
  BY <1>5
<1> HIDE DEF m, at
<1>7. \E places \in [1..m -> 1..n] :
        \A S : \A ts \in [1..n -> S] : GenerateData(ts, tf) = [i \in 1..m |-> ts[places[i]]]
  BY <1>4, <1>6
<1> QED
  BY <1>2, <1>7

\* The frames of closes, highs and lows are those of one frame of bars, in
\* the market and in the mirrored market.
LEMMA FrameOfBars ==
  ASSUME NEW bs \in Seq(Bars), bs # <<>>, NEW tf \in TimeFrames
  PROVE  \E m \in Nat : \E fs \in [1..m -> Bars] :
           /\ \A i \in 1..m : fs[i] \in ToSet(bs)
           /\ GenerateData(Closes(bs), tf) = Closes(fs)
           /\ GenerateData(Highs(bs), tf) = Highs(fs)
           /\ GenerateData(Lows(bs), tf) = Lows(fs)
           /\ GenerateData(Closes(Mirrored(bs)), tf) = Reflected(Closes(fs))
           /\ GenerateData(Highs(Mirrored(bs)), tf) = Reflected(Lows(fs))
           /\ GenerateData(Lows(Mirrored(bs)), tf) = Reflected(Highs(fs))
<1>1. PICK n \in Nat \ {0} : bs \in [1..n -> Bars]
  <2>1. Len(bs) \in Nat /\ bs \in [1..Len(bs) -> Bars] /\ Len(bs) # 0
    BY LenProperties, EmptySeq
  <2> QED
    BY <2>1
<1>a. PICK m \in Nat \ {0} : \E at \in [1..m -> 1..n] :
           \A S : \A ts \in [1..n -> S] : GenerateData(ts, tf) = [i \in 1..m |-> ts[at[i]]]
  BY FramePlaces
<1>2. PICK at \in [1..m -> 1..n] :
           \A S : \A ts \in [1..n -> S] : GenerateData(ts, tf) = [i \in 1..m |-> ts[at[i]]]
  BY <1>a
<1> DEFINE P == 0..MaxPrice
           fs == [i \in 1..m |-> bs[at[i]]]
<1>3. fs \in [1..m -> Bars] /\ \A i \in 1..m : fs[i] = bs[at[i]] /\ at[i] \in 1..n
  BY <1>1, <1>2
<1>4. \A k \in 1..n : bs[k].low \in P /\ bs[k].close \in P /\ bs[k].high \in P
  <2>1. \A b \in Bars : b.low \in P /\ b.close \in P /\ b.high \in P
    BY DEF Bar
  <2>2. \A k \in 1..n : bs[k] \in Bars
    BY <1>1
  <2> HIDE DEF P
  <2> QED
    BY <2>1, <2>2
<1>5. /\ Closes(bs) \in [1..n -> P] /\ Highs(bs) \in [1..n -> P] /\ Lows(bs) \in [1..n -> P]
      /\ \A k \in 1..n : /\ Closes(bs)[k] = bs[k].close /\ Highs(bs)[k] = bs[k].high
                         /\ Lows(bs)[k] = bs[k].low
  BY <1>1, <1>4 DEF Closes, Highs, Lows
<1>6. \A k \in 1..n : /\ Mirrored(bs)[k].low = MaxPrice - bs[k].high
                      /\ Mirrored(bs)[k].close = MaxPrice - bs[k].close
                      /\ Mirrored(bs)[k].high = MaxPrice - bs[k].low
  BY <1>1 DEF Mirrored
<1>7. DOMAIN Mirrored(bs) = 1..n
  BY <1>1 DEF Mirrored
<1>8. /\ Closes(Mirrored(bs)) = [k \in 1..n |-> MaxPrice - bs[k].close]
      /\ Highs(Mirrored(bs)) = [k \in 1..n |-> MaxPrice - bs[k].low]
      /\ Lows(Mirrored(bs)) = [k \in 1..n |-> MaxPrice - bs[k].high]
  BY <1>6, <1>7 DEF Closes, Highs, Lows
<1>9. \A k \in 1..n : /\ MaxPrice - bs[k].close \in P
                      /\ MaxPrice - bs[k].low \in P
                      /\ MaxPrice - bs[k].high \in P
  <2>1. \A x \in P : MaxPrice - x \in P
    OBVIOUS
  <2> HIDE DEF P
  <2> QED
    BY <1>4, <2>1
<1>10. /\ Closes(Mirrored(bs)) \in [1..n -> P] /\ Highs(Mirrored(bs)) \in [1..n -> P]
       /\ Lows(Mirrored(bs)) \in [1..n -> P]
  BY <1>8, <1>9
<1> HIDE DEF fs, P
<1>g. \A ts \in [1..n -> P] : GenerateData(ts, tf) = [i \in 1..m |-> ts[at[i]]]
  BY <1>2
<1>11. /\ GenerateData(Closes(bs), tf) = [i \in 1..m |-> Closes(bs)[at[i]]]
       /\ GenerateData(Highs(bs), tf) = [i \in 1..m |-> Highs(bs)[at[i]]]
       /\ GenerateData(Lows(bs), tf) = [i \in 1..m |-> Lows(bs)[at[i]]]
  BY <1>5, <1>g
<1>12. /\ GenerateData(Closes(Mirrored(bs)), tf) = [i \in 1..m |-> Closes(Mirrored(bs))[at[i]]]
       /\ GenerateData(Highs(Mirrored(bs)), tf) = [i \in 1..m |-> Highs(Mirrored(bs))[at[i]]]
       /\ GenerateData(Lows(Mirrored(bs)), tf) = [i \in 1..m |-> Lows(Mirrored(bs))[at[i]]]
  BY <1>10, <1>g
<1>13. /\ Closes(fs) = [i \in 1..m |-> bs[at[i]].close]
       /\ Highs(fs) = [i \in 1..m |-> bs[at[i]].high]
       /\ Lows(fs) = [i \in 1..m |-> bs[at[i]].low]
  BY <1>3 DEF Closes, Highs, Lows
<1>14. /\ GenerateData(Closes(bs), tf) = Closes(fs)
       /\ GenerateData(Highs(bs), tf) = Highs(fs)
       /\ GenerateData(Lows(bs), tf) = Lows(fs)
  BY <1>3, <1>5, <1>11, <1>13
<1>15. /\ Reflected(Closes(fs)) = [i \in 1..m |-> MaxPrice - bs[at[i]].close]
       /\ Reflected(Lows(fs)) = [i \in 1..m |-> MaxPrice - bs[at[i]].low]
       /\ Reflected(Highs(fs)) = [i \in 1..m |-> MaxPrice - bs[at[i]].high]
  BY <1>13 DEF Reflected
<1>16. /\ GenerateData(Closes(Mirrored(bs)), tf) = Reflected(Closes(fs))
       /\ GenerateData(Highs(Mirrored(bs)), tf) = Reflected(Lows(fs))
       /\ GenerateData(Lows(Mirrored(bs)), tf) = Reflected(Highs(fs))
  <2>1. \A i \in 1..m : at[i] \in 1..n
    BY <1>3
  <2>2. /\ [i \in 1..m |-> Closes(Mirrored(bs))[at[i]]] = [i \in 1..m |-> MaxPrice - bs[at[i]].close]
        /\ [i \in 1..m |-> Highs(Mirrored(bs))[at[i]]] = [i \in 1..m |-> MaxPrice - bs[at[i]].low]
        /\ [i \in 1..m |-> Lows(Mirrored(bs))[at[i]]] = [i \in 1..m |-> MaxPrice - bs[at[i]].high]
    BY <1>8, <2>1
  <2> QED
    BY <1>12, <1>15, <2>2
<1>17. \A i \in 1..m : fs[i] \in ToSet(bs)
  BY <1>1, <1>3 DEF ToSet
<1> QED
  BY <1>3, <1>14, <1>16, <1>17

-----------------------------------------------------------------------------
(* One response after another *)

\* The indicators are always those of the last response.
Computed == /\ response \in Seq(Bars)
            /\ response # <<>> => indicators = CalculateAll(response)

\* Latest rates are one rate or more, and no more than were asked for.
LEMMA LatestRates ==
  ASSUME response \in Seq(Bars), NEW b \in Bars
  PROVE  /\ Latest(b) \in Seq(Bars) /\ Latest(b) # <<>>
         /\ Len(response) <= MaxRates => Len(Latest(b)) <= MaxRates
<1> DEFINE kept == IF Len(response) < MaxRates THEN response ELSE Tail(response)
<1>1. Len(response) \in Nat
  BY LenProperties
<1>2. /\ kept \in Seq(Bars) /\ Len(kept) \in Nat
      /\ Len(response) <= MaxRates => Len(kept) + 1 <= MaxRates
  <2>1. CASE Len(response) < MaxRates
    BY <1>1, <2>1
  <2>2. CASE ~(Len(response) < MaxRates)
    <3>1. response # <<>>
      BY <1>1, <2>2, EmptySeq
    <3>2. Tail(response) \in Seq(Bars) /\ Len(Tail(response)) = Len(response) - 1
      BY <3>1, HeadTailProperties
    <3>3. Len(Tail(response)) \in Nat
      BY <3>2, LenProperties
    <3> QED
      BY <1>1, <2>2, <3>2, <3>3
  <2> QED
    BY <2>1, <2>2
<1>3. Latest(b) = Append(kept, b)
  BY DEF Latest
<1> HIDE DEF kept
<1>4. Latest(b) \in Seq(Bars) /\ Len(Latest(b)) = Len(kept) + 1
  BY <1>2, <1>3, AppendProperties
<1>5. Latest(b) # <<>>
  BY <1>2, <1>4
<1> QED
  BY <1>2, <1>4, <1>5

\* What the invariants below say about the last response rests on this one.
LEMMA AlwaysComputed == Spec => []Computed
<1>1. Init => Computed
  BY EmptySeq DEF Init, Computed
<1>2. Computed /\ [Next]_vars => Computed'
  <2> SUFFICES ASSUME Computed, [Next]_vars PROVE Computed'
    OBVIOUS
  <2>1. CASE UNCHANGED vars
    BY <2>1 DEF vars, Computed
  <2>2. ASSUME NEW b \in Bars, HandleResponse(b) PROVE Computed'
    <3>1. response' \in Seq(Bars) /\ indicators' = CalculateAll(response')
      BY <2>2, LatestRates DEF HandleResponse, Computed
    <3> QED
      BY <3>1 DEF Computed, CalculateAll
  <2> QED
    BY <2>1, <2>2 DEF Next
<1> QED
  BY <1>1, <1>2, PTL DEF Spec

\* Whatever decides between the colours, a formula shows one of them.
LEMMA ColourType == ASSUME NEW green, NEW red PROVE Colour(green, red) \in {"Green", "Red", "Gray"}
BY DEF Colour

\* Every formula shows a colour, for series of any length.
LEMMA FormulaTypes ==
  ASSUME NEW cts, NEW hts, NEW lts, Len(cts) \in Nat
  PROVE  /\ CalculateMACD(cts) \in {"Green", "Red", "Gray"}
         /\ CalculateRSI(cts) \in {"Green", "Red", "Gray"}
         /\ CalculateADX(cts) \in {"Green", "Red", "Gray"}
         /\ CalculateBB(cts, hts, lts) \in {"Green", "Red", "Gray"}
         /\ CalculateStoch(cts, hts, lts) \in {"Green", "Red", "Gray"}
<1>1. CalculateMACD(cts) \in {"Green", "Red", "Gray"}
  BY ColourType DEF CalculateMACD
<1>2. CalculateRSI(cts) \in {"Green", "Red", "Gray"}
  BY ColourType DEF CalculateRSI
<1>3. CalculateADX(cts) \in {"Green", "Red", "Gray"}
  BY ColourType DEF CalculateADX
<1>4. CalculateBB(cts, hts, lts) \in {"Green", "Red", "Gray"}
  <2>1. CASE Len(cts) < BBLength
    BY <2>1 DEF CalculateBB
  <2>2. CASE ~(Len(cts) < BBLength)
    <3>1. Len(cts) >= BBLength
      BY <2>2
    <3> QED
      BY <2>2, <3>1, ColourType DEF CalculateBB
  <2> QED
    BY <2>1, <2>2
<1>5. CalculateStoch(cts, hts, lts) \in {"Green", "Red", "Gray"}
  BY ColourType DEF CalculateStoch
<1> QED
  BY <1>1, <1>2, <1>3, <1>4, <1>5

LEMMA CalculateAllType ==
  ASSUME NEW bs \in Seq(Bars), bs # <<>>
  PROVE  CalculateAll(bs) \in [TimeFrames -> [Formulas -> {"Green", "Red", "Gray"}]]
<1> SUFFICES ASSUME NEW tf \in TimeFrames
             PROVE  CalculateAll(bs)[tf] \in [Formulas -> {"Green", "Red", "Gray"}]
  <2>1. CalculateAll(bs) = [tf \in TimeFrames |-> CalculateAll(bs)[tf]]
    BY DEF CalculateAll
  <2> HIDE DEF CalculateAll
  <2> QED
    BY <2>1
<1> DEFINE cts == GenerateData(Closes(bs), tf)
           hts == GenerateData(Highs(bs), tf)
           lts == GenerateData(Lows(bs), tf)
<1>1. Len(cts) \in Nat
  <2>1. PICK m \in Nat : \E fs \in [1..m -> Bars] : cts = Closes(fs)
    BY FrameOfBars
  <2>2. DOMAIN cts = 1..m
    BY <2>1 DEF Closes
  <2> QED
    BY <2>1, <2>2 DEF Closes
<1>2. CalculateAll(bs)[tf] =
        [macd |-> CalculateMACD(cts), bband |-> CalculateBB(cts, hts, lts),
         rsi |-> CalculateRSI(cts), stoch |-> CalculateStoch(cts, hts, lts),
         adx |-> CalculateADX(cts)]
  BY DEF CalculateAll
<1> HIDE DEF cts, hts, lts
<1>3. /\ CalculateMACD(cts) \in {"Green", "Red", "Gray"}
      /\ CalculateRSI(cts) \in {"Green", "Red", "Gray"}
      /\ CalculateADX(cts) \in {"Green", "Red", "Gray"}
      /\ CalculateBB(cts, hts, lts) \in {"Green", "Red", "Gray"}
      /\ CalculateStoch(cts, hts, lts) \in {"Green", "Red", "Gray"}
  BY <1>1, FormulaTypes
<1> QED
  BY <1>2, <1>3 DEF Formulas

\* Every response replaces the one before it and is cut off at the number of
\* rates asked for; every formula shows a colour in every time frame of it.
THEOREM TypeCorrect == Spec => []TypeOK
<1> DEFINE Short == Len(response) <= MaxRates
           Shown == indicators \in [TimeFrames -> [Formulas -> {"Green", "Red", "Gray"}]]
<1>1. Init => Computed /\ Short /\ Shown
  BY EmptySeq DEF Init, Computed
<1>2. Computed /\ Short /\ Shown /\ [Next]_vars => Short' /\ Shown'
  <2> SUFFICES ASSUME Computed, Short, Shown, [Next]_vars PROVE Short' /\ Shown'
    OBVIOUS
  <2>1. CASE UNCHANGED vars
    BY <2>1 DEF vars
  <2>2. ASSUME NEW b \in Bars, HandleResponse(b) PROVE Short' /\ Shown'
    <3>1. /\ response' \in Seq(Bars) /\ response' # <<>> /\ Len(response') <= MaxRates
          /\ indicators' = CalculateAll(response')
      BY <2>2, LatestRates DEF HandleResponse, Computed
    <3> QED
      BY <3>1, CalculateAllType
  <2> QED
    BY <2>1, <2>2 DEF Next
<1>3. Computed /\ Short /\ Shown => TypeOK
  BY DEF Computed, TypeOK
<1> QED
  BY <1>1, <1>2, <1>3, AlwaysComputed, PTL DEF Spec

\* K of calculateStoch is a percentage in every time frame of every response.
THEOREM PercentAlwaysInRange == Spec => []PercentInRange
<1>1. Computed => PercentInRange
  <2> SUFFICES ASSUME response \in Seq(Bars), response # <<>>, NEW tf \in TimeFrames,
                      Len(GenerateData(Closes(response), tf)) >= StochLength + 3,
                      NEW i \in 0..2
               PROVE  LET cts == GenerateData(Closes(response), tf) IN
                      /\ Lowest(GenerateData(Lows(response), tf), i) <= cts[i + 1]
                      /\ cts[i + 1] <= Highest(GenerateData(Highs(response), tf), i)
    BY DEF Computed, PercentInRange
  <2>a. PICK m \in Nat : \E fs \in [1..m -> Bars] :
           /\ GenerateData(Closes(response), tf) = Closes(fs)
           /\ GenerateData(Highs(response), tf) = Highs(fs)
           /\ GenerateData(Lows(response), tf) = Lows(fs)
    BY FrameOfBars
  <2>1. PICK fs \in [1..m -> Bars] :
           /\ GenerateData(Closes(response), tf) = Closes(fs)
           /\ GenerateData(Highs(response), tf) = Highs(fs)
           /\ GenerateData(Lows(response), tf) = Lows(fs)
    BY <2>a
  <2>2. Closes(fs) \in [1..m -> 0..MaxPrice] /\ Len(Closes(fs)) = m
    BY DEF Closes, Bar
  <2>3. i \in 0..(m - StochLength) /\ i + 1 \in 1..m
    BY <2>1, <2>2
  <2>4. Closes(fs)[i + 1] = fs[i + 1].close
    BY <2>3 DEF Closes
  <2> QED
    BY <2>1, <2>3, <2>4, CloseWithin
<1> QED
  BY <1>1, AlwaysComputed, PTL

\* BUY for SELL, SELL for BUY and nothing for nothing in the mirrored market,
\* by every formula, in every time frame of every response, but where a market
\* breaks both bands and calculateBB says Red of it and of its mirror image.
THEOREM AlwaysMirrors == Spec => []MirrorImage
<1>1. Computed => MirrorImage
  <2> SUFFICES ASSUME response \in Seq(Bars), response # <<>>,
                      indicators = CalculateAll(response), NEW tf \in TimeFrames,
                      NEW f \in Formulas
               PROVE  LET mirror == CalculateAll(Mirrored(response))[tf] IN
                      \/ mirror[f] = Opposite(indicators[tf][f])
                      \/ f = "bband" /\ mirror[f] = "Red" /\ indicators[tf][f] = "Red"
    BY DEF Computed, MirrorImage
  <2>a. PICK m \in Nat : \E fs \in [1..m -> Bars] :
           /\ GenerateData(Closes(response), tf) = Closes(fs)
           /\ GenerateData(Highs(response), tf) = Highs(fs)
           /\ GenerateData(Lows(response), tf) = Lows(fs)
           /\ GenerateData(Closes(Mirrored(response)), tf) = Reflected(Closes(fs))
           /\ GenerateData(Highs(Mirrored(response)), tf) = Reflected(Lows(fs))
           /\ GenerateData(Lows(Mirrored(response)), tf) = Reflected(Highs(fs))
    BY FrameOfBars
  <2>1. PICK fs \in [1..m -> Bars] :
           /\ GenerateData(Closes(response), tf) = Closes(fs)
           /\ GenerateData(Highs(response), tf) = Highs(fs)
           /\ GenerateData(Lows(response), tf) = Lows(fs)
           /\ GenerateData(Closes(Mirrored(response)), tf) = Reflected(Closes(fs))
           /\ GenerateData(Highs(Mirrored(response)), tf) = Reflected(Lows(fs))
           /\ GenerateData(Lows(Mirrored(response)), tf) = Reflected(Highs(fs))
    BY <2>a
  <2> DEFINE cts == Closes(fs)
             hts == Highs(fs)
             lts == Lows(fs)
             mcts == Reflected(Closes(fs))
             mhts == Reflected(Lows(fs))
             mlts == Reflected(Highs(fs))
  <2>2. /\ cts \in [1..m -> 0..MaxPrice] /\ hts \in [1..m -> 0..MaxPrice]
        /\ lts \in [1..m -> 0..MaxPrice]
    BY DEF Closes, Highs, Lows, Bar
  <2>3. CalculateAll(response)[tf] =
          [macd |-> CalculateMACD(cts), bband |-> CalculateBB(cts, hts, lts),
           rsi |-> CalculateRSI(cts), stoch |-> CalculateStoch(cts, hts, lts),
           adx |-> CalculateADX(cts)]
    BY <2>1 DEF CalculateAll
  <2>4. CalculateAll(Mirrored(response))[tf] =
          [macd |-> CalculateMACD(mcts), bband |-> CalculateBB(mcts, mhts, mlts),
           rsi |-> CalculateRSI(mcts), stoch |-> CalculateStoch(mcts, mhts, mlts),
           adx |-> CalculateADX(mcts)]
    BY <2>1 DEF CalculateAll
  <2>5. CalculateStoch(mcts, mhts, mlts) = Opposite(CalculateStoch(cts, hts, lts))
    BY StochReflected DEF Stoch, ReflectedStoch
  <2> DEFINE bb == CalculateBB(cts, hts, lts)
             mbb == CalculateBB(mcts, mhts, mlts)
  <2>6. mbb = Opposite(bb) \/ (mbb = "Red" /\ bb = "Red")
    <3> HIDE DEF cts, hts, lts
    <3> QED
      BY <2>2, BBReflected DEF cts, hts, lts
  <2>7. /\ CalculateMACD(mcts) = Opposite(CalculateMACD(cts))
        /\ CalculateRSI(mcts) = Opposite(CalculateRSI(cts))
        /\ CalculateADX(mcts) = Opposite(CalculateADX(cts))
    BY <2>2, MACDReflected, RSIReflected, ADXReflected
  <2> HIDE DEF cts, hts, lts, mcts, mhts, mlts
  <2> QED
    BY <2>3, <2>4, <2>5, <2>6, <2>7 DEF Formulas
<1> QED
  BY <1>1, AlwaysComputed, PTL

\* The prices of a market that does not move are one price.
LEMMA OnePrice ==
  ASSUME NEW bs \in Seq(Bars), bs # <<>>,
         Cardinality(UNION {{b.low, b.high} : b \in ToSet(bs)}) <= 1
  PROVE  \E c \in 0..MaxPrice : \A b \in ToSet(bs) : b.low = c /\ b.close = c /\ b.high = c
<1> DEFINE Prices == UNION {{b.low, b.high} : b \in ToSet(bs)}
<1>1. /\ 1 \in DOMAIN bs /\ ToSet(bs) \subseteq Bars
      /\ bs[1] \in ToSet(bs)
  <2>1. Len(bs) \in Nat /\ Len(bs) # 0 /\ DOMAIN bs = 1..Len(bs) /\ bs \in [1..Len(bs) -> Bars]
    BY LenProperties, EmptySeq
  <2> QED
    BY <2>1 DEF ToSet
<1>2. \A b \in ToSet(bs) : /\ b.low \in Prices /\ b.high \in Prices
                           /\ b.low \in 0..MaxPrice /\ b.high \in 0..MaxPrice
                           /\ b.close \in 0..MaxPrice /\ b.low <= b.close /\ b.close <= b.high
  <2>1. \A b \in Bars : /\ b.low \in 0..MaxPrice /\ b.high \in 0..MaxPrice
                        /\ b.close \in 0..MaxPrice /\ b.low <= b.close /\ b.close <= b.high
    BY DEF Bar
  <2> QED
    BY <1>1, <2>1
<1>3. Prices \subseteq 0..MaxPrice
  BY <1>2
<1> HIDE DEF Prices
<1>4. IsFiniteSet(0..MaxPrice)
  BY FS_Interval
<1>5. IsFiniteSet(Prices)
  BY <1>3, <1>4, FS_Subset
<1>6. Cardinality(Prices) <= 1
  BY DEF Prices
<1>7. \A x, y \in Prices : x = y
  <2> SUFFICES ASSUME NEW x \in Prices, NEW y \in Prices, x # y PROVE FALSE
    OBVIOUS
  <2>1. Cardinality(Prices \ {x}) = Cardinality(Prices) - 1 /\ Cardinality(Prices) \in Nat
    BY <1>5, FS_RemoveElement, FS_CardinalityType
  <2>2. Prices \ {x} \in SUBSET Prices /\ Prices \ {x} # {}
    OBVIOUS
  <2>3. Cardinality(Prices \ {x}) # 0 /\ Cardinality(Prices \ {x}) \in Nat
    BY <1>5, <2>2, SubsetSize
  <2> QED
    BY <1>6, <2>1, <2>3
<1>8. PICK c \in 0..MaxPrice : c \in Prices
  BY <1>1, <1>2
<1>9. ASSUME NEW b \in ToSet(bs) PROVE b.low = c /\ b.close = c /\ b.high = c
  <2>1. b.low = c /\ b.high = c
    BY <1>2, <1>7, <1>8
  <2> QED
    BY <1>2, <2>1
<1> QED
  BY <1>9

\* Before the first response every formula is gray.
NothingShown ==
  response = <<>> => \A f \in Formulas, tf \in TimeFrames : indicators[tf][f] = "Gray"

LEMMA AlwaysNothingShown == Spec => []NothingShown
<1>1. Init => NothingShown
  BY DEF Init, NothingShown
<1>2. Computed /\ NothingShown /\ [Next]_vars => NothingShown'
  <2> SUFFICES ASSUME Computed, NothingShown, [Next]_vars PROVE NothingShown'
    OBVIOUS
  <2>1. CASE UNCHANGED vars
    BY <2>1 DEF vars, NothingShown
  <2>2. ASSUME NEW b \in Bars, HandleResponse(b) PROVE response' # <<>>
    BY <2>2, LatestRates DEF HandleResponse, Computed
  <2> QED
    BY <2>1, <2>2 DEF Next, NothingShown
<1> QED
  BY <1>1, <1>2, AlwaysComputed, PTL DEF Spec

\* A market that does not move gives no signal, in any time frame and for
\* windows of any length, although gain / loss and (close - l) / (h - l) are
\* 0 / 0 there and the bands have no width.
THEOREM AlwaysFlatIsGray == Spec => []FlatIsGray
<1>1. Computed /\ NothingShown => FlatIsGray
  <2> SUFFICES ASSUME response \in Seq(Bars), response # <<>>,
                      indicators = CalculateAll(response), NEW tf \in TimeFrames,
                      NEW f \in Formulas,
                      Cardinality(UNION {{b.low, b.high} : b \in ToSet(response)}) <= 1
               PROVE  indicators[tf][f] = "Gray"
    BY DEF Computed, NothingShown, FlatIsGray
  <2>1. PICK c \in 0..MaxPrice :
          \A b \in ToSet(response) : b.low = c /\ b.close = c /\ b.high = c
    BY OnePrice
  <2>a. PICK m \in Nat : \E fs \in [1..m -> Bars] :
           /\ \A i \in 1..m : fs[i] \in ToSet(response)
           /\ GenerateData(Closes(response), tf) = Closes(fs)
           /\ GenerateData(Highs(response), tf) = Highs(fs)
           /\ GenerateData(Lows(response), tf) = Lows(fs)
    BY FrameOfBars
  <2>2. PICK fs \in [1..m -> Bars] :
           /\ \A i \in 1..m : fs[i] \in ToSet(response)
           /\ GenerateData(Closes(response), tf) = Closes(fs)
           /\ GenerateData(Highs(response), tf) = Highs(fs)
           /\ GenerateData(Lows(response), tf) = Lows(fs)
    BY <2>a
  <2>3. \A i \in 1..m : fs[i].low = c /\ fs[i].close = c /\ fs[i].high = c
    BY <2>1, <2>2
  <2>4. Closes(fs) = Constant(m, c) /\ Highs(fs) = Constant(m, c) /\ Lows(fs) = Constant(m, c)
    BY <2>3 DEF Closes, Highs, Lows, Constant
  <2> DEFINE ts == Constant(m, c)
  <2>5. CalculateAll(response)[tf] =
          [macd |-> CalculateMACD(ts), bband |-> CalculateBB(ts, ts, ts),
           rsi |-> CalculateRSI(ts), stoch |-> CalculateStoch(ts, ts, ts),
           adx |-> CalculateADX(ts)]
    BY <2>2, <2>4 DEF CalculateAll
  <2>6. /\ CalculateMACD(ts) = "Gray" /\ CalculateBB(ts, ts, ts) = "Gray"
        /\ CalculateRSI(ts) = "Gray" /\ CalculateStoch(ts, ts, ts) = "Gray"
        /\ CalculateADX(ts) = "Gray"
    BY MACDConstant, RSIConstant, BBConstant, ADXConstant, StochConstant
  <2> HIDE DEF ts
  <2> QED
    BY <2>5, <2>6 DEF Formulas
<1> QED
  BY <1>1, AlwaysComputed, AlwaysNothingShown, PTL

\* The time frames of every response count back from its newest rate.
THEOREM FramesAlwaysCountFromNewest == Spec => []FramesCountFromNewest
<1>1. Computed => FramesCountFromNewest
  <2> SUFFICES ASSUME response \in Seq(Bars), response # <<>>, NEW tf \in TimeFrames,
                      NEW older \in {0, Interval("4h"), Interval("12h")}
               PROVE  LET n == older + Len(response)
                          frame == GenerateData([i \in 1..n |-> i], tf)
                      IN  /\ ToSet(frame) = {k \in 1..n : (n - k) % Interval(tf) = 0}
                          /\ \A i, j \in DOMAIN frame : i < j => frame[i] > frame[j]
    BY DEF Computed, FramesCountFromNewest
  <2> DEFINE n == older + Len(response)
  <2>1. n \in Nat \ {0}
    <3>1. Len(response) \in Nat /\ Len(response) # 0
      BY LenProperties, EmptySeq
    <3>2. older \in Nat
      BY DEF Interval
    <3> QED
      BY <3>1, <3>2
  <2> HIDE DEF n
  <2>2. /\ ToSet(GenerateData([i \in 1..n |-> i], tf)) = {k \in 1..n : (n - k) % Interval(tf) = 0}
        /\ \A i, j \in DOMAIN GenerateData([i \in 1..n |-> i], tf) : i < j =>
              GenerateData([m \in 1..n |-> m], tf)[i] > GenerateData([m \in 1..n |-> m], tf)[j]
    BY <2>1, FramesOfAnyResponse
  <2> QED
    BY <2>2 DEF n
<1> QED
  BY <1>1, AlwaysComputed, PTL

=============================================================================
