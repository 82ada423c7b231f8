------------------------- MODULE StrategyConfigProofs -------------------------
(***************************************************************************)
(* For any pairs, indicators and drafts: the Monitor and the setup screen  *)
(* agree, a save changes one strategy, the lists stay within one strategy  *)
(* per key, and the weights of five indicators cannot reach the threshold  *)
(* that stands for none.                                                   *)
(***************************************************************************)
EXTENDS StrategyConfig, SequenceTheorems, FiniteSetTheorems, WellFoundedInduction, TLAPS

-----------------------------------------------------------------------------
(* The first and the last position of a test *)

LEMMA LeastElement ==
  ASSUME NEW S \in SUBSET Nat, S # {}
  PROVE  \E x \in S : \A y \in S : x <= y
<1>1. PICK x \in S : \A y \in S : <<y, x>> \notin OpToRel(<, Nat)
  BY NatLessThanWellFounded, WFMin
<1>2. \A y \in S : x <= y
  <2> SUFFICES ASSUME NEW y \in S, y < x PROVE FALSE
    OBVIOUS
  <2>1. x \in Nat /\ y \in Nat
    OBVIOUS
  <2>2. <<y, x>> \in OpToRel(<, Nat)
    BY <2>1 DEF OpToRel
  <2> QED
    BY <1>1, <2>2
<1> QED
  BY <1>2

LEMMA MinElement ==
  ASSUME NEW n \in Nat, NEW S \in SUBSET (1..n), S # {}
  PROVE  Min(S) \in S
<1>1. \E x \in S : \A y \in S : x <= y
  BY LeastElement
<1> QED
  BY <1>1 DEF Min

LEMMA MaxElement ==
  ASSUME NEW n \in Nat, NEW S \in SUBSET (1..n), S # {}
  PROVE  Max(S) \in S
<1> DEFINE T == {n - y : y \in S}
<1>1. T \in SUBSET Nat /\ T # {}
  <2>1. \A y \in S : n - y \in Nat
    OBVIOUS
  <2> QED
    BY <2>1
<1>2. PICK z \in T : \A y \in T : z <= y
  BY <1>1, LeastElement
<1>3. PICK x \in S : z = n - x
  OBVIOUS
<1>4. \A y \in S : x >= y
  <2> SUFFICES ASSUME NEW y \in S PROVE x >= y
    OBVIOUS
  <2>1. n - x <= n - y
    BY <1>2, <1>3
  <2> QED
    BY <2>1
<1> QED
  BY <1>4 DEF Max

\* The loops over a list read an entry of the key, if there is one.
LEMMA FirstOfKey ==
  ASSUME NEW ss \in Lists, NEW k, Has(ss, k)
  PROVE  \E i \in 1..Len(ss) : ss[i].key = k /\ FirstOf(ss, k) = ss[i].form
<1> DEFINE I == {i \in 1..Len(ss) : ss[i].key = k}
<1>1. I \in SUBSET (1..Len(ss)) /\ I # {} /\ Len(ss) \in Nat
  BY LenProperties DEF Has, ToSet, Lists
<1>2. Min(I) \in I
  BY <1>1, MinElement
<1>3. SelectInSeq(ss, LAMBDA s : s.key = k) = Min(I)
  BY <1>1 DEF SelectInSeq
<1> QED
  BY <1>2, <1>3 DEF FirstOf

LEMMA LastOfKey ==
  ASSUME NEW ss \in Lists, NEW k, Has(ss, k)
  PROVE  \E i \in 1..Len(ss) : ss[i].key = k /\ LastOf(ss, k) = ss[i].form
<1> DEFINE I == {i \in 1..Len(ss) : ss[i].key = k}
<1>1. I \in SUBSET (1..Len(ss)) /\ I # {} /\ Len(ss) \in Nat
  BY LenProperties DEF Has, ToSet, Lists
<1>2. Max(I) \in I
  BY <1>1, MaxElement
<1>3. SelectLastInSeq(ss, LAMBDA s : s.key = k) = Max(I)
  BY <1>1 DEF SelectLastInSeq
<1> QED
  BY <1>2, <1>3 DEF LastOf

-----------------------------------------------------------------------------
(* Filter *)

\* One step of the loop, and the lists it goes through up to position m.
Step(ss, positions, kept, n) ==
  IF n \in positions THEN Append(kept[n - 1], ss[n]) ELSE kept[n - 1]

Loop(ss, positions, kept, m) ==
  kept = [n \in 0..m |-> IF n = 0 THEN <<>> ELSE Step(ss, positions, kept, n)]

\* There are such lists, whatever the length.
LEMMA LoopExists ==
  ASSUME NEW ss, NEW positions, NEW m \in Nat
  PROVE  \E kept : Loop(ss, positions, kept, m)
<1> DEFINE Missing == {n \in Nat : ~\E kept : Loop(ss, positions, kept, n)}
<1> SUFFICES ASSUME Missing # {} PROVE FALSE
  OBVIOUS
<1>1. PICK n \in Missing : \A j \in Missing : n <= j
  BY LeastElement
<1>2. CASE n = 0
  <2> DEFINE kept == [i \in 0..0 |-> <<>>]
  <2>1. Loop(ss, positions, kept, 0)
    BY DEF Loop
  <2> QED
    BY <1>2, <2>1
<1>3. CASE n # 0
  <2>1. n - 1 \in Nat /\ n - 1 \notin Missing
    BY <1>1, <1>3
  <2>2. PICK before : Loop(ss, positions, before, n - 1)
    BY <2>1
  <2> DEFINE kept == [i \in 0..n |-> IF i = n THEN Step(ss, positions, before, n) ELSE before[i]]
  <2>3. \A i \in 0..n : kept[i] = IF i = 0 THEN <<>> ELSE Step(ss, positions, kept, i)
    <3> SUFFICES ASSUME NEW i \in 0..n
                 PROVE  kept[i] = IF i = 0 THEN <<>> ELSE Step(ss, positions, kept, i)
      OBVIOUS
    <3>1. CASE i = 0
      BY <1>3, <2>2, <3>1 DEF Loop
    <3>2. CASE i # 0
      <4>1. i - 1 \in 0..(n - 1) /\ i - 1 # n /\ i - 1 \in 0..n
        BY <3>2
      <4>2. kept[i - 1] = before[i - 1]
        BY <4>1
      <4>3. Step(ss, positions, kept, i) = Step(ss, positions, before, i)
        BY <4>2 DEF Step
      <4>4. i # n => before[i] = Step(ss, positions, before, i)
        BY <2>2, <3>2 DEF Loop
      <4> QED
        BY <3>2, <4>3, <4>4
    <3> QED
      BY <3>1, <3>2
  <2>4. Loop(ss, positions, kept, n)
    <3> HIDE DEF kept
    <3>1. kept = [i \in 0..n |-> kept[i]]
      BY DEF kept
    <3> QED
      BY <2>3, <3>1 DEF Loop
  <2> QED
    BY <2>4
<1> QED
  BY <1>2, <1>3

LEMMA FilterLoop ==
  ASSUME NEW ss \in Lists, NEW positions
  PROVE  \E kept : Loop(ss, positions, kept, Len(ss)) /\ Filter(ss, positions) = kept[Len(ss)]
<1>1. Len(ss) \in Nat
  BY LenProperties DEF Lists
<1> DEFINE kept == CHOOSE f : f = [n \in 0..Len(ss) |->
                     IF n = 0 THEN <<>>
                     ELSE IF n \in positions THEN Append(f[n - 1], ss[n]) ELSE f[n - 1]]
<1>2. \E f : f = [n \in 0..Len(ss) |->
                     IF n = 0 THEN <<>>
                     ELSE IF n \in positions THEN Append(f[n - 1], ss[n]) ELSE f[n - 1]]
  <2>1. PICK f : Loop(ss, positions, f, Len(ss))
    BY <1>1, LoopExists
  <2> QED
    BY <2>1 DEF Loop, Step
<1>3. Loop(ss, positions, kept, Len(ss))
  BY <1>2 DEF Loop, Step
<1>4. Filter(ss, positions) = kept[Len(ss)]
  BY DEF Filter
<1> QED
  BY <1>3, <1>4

\* s holds the elements of ss at the places at, which are those positions up
\* to n, each once.
Selection(s, at, m, ss, positions, n) ==
  /\ at \in [1..m -> positions \cap 1..n]
  /\ s \in Lists /\ Len(s) = m
  /\ \A j \in 1..m : s[j] = ss[at[j]]
  /\ \A i, j \in 1..m : at[i] = at[j] => i = j
  /\ \A i \in positions \cap 1..n : \E j \in 1..m : at[j] = i

\* One element more, when n is not among the places yet.
LEMMA SelectionGrows ==
  ASSUME NEW ss \in Lists, NEW positions, NEW n \in 1..Len(ss), n \in positions,
         NEW s, NEW m \in Nat, NEW at, Selection(s, at, m, ss, positions, n - 1)
  PROVE  \E more : Selection(Append(s, ss[n]), more, m + 1, ss, positions, n)
<1> DEFINE more == [j \in 1..(m + 1) |-> IF j = m + 1 THEN n ELSE at[j]]
           t == Append(s, ss[n])
<1>1. Len(ss) \in Nat /\ ss[n] \in Strategies
  BY LenProperties DEF Lists
<1>2. /\ at \in [1..m -> positions \cap 1..(n - 1)]
      /\ s \in Lists /\ Len(s) = m
      /\ \A j \in 1..m : s[j] = ss[at[j]]
      /\ \A i, j \in 1..m : at[i] = at[j] => i = j
      /\ \A i \in positions \cap 1..(n - 1) : \E j \in 1..m : at[j] = i
  BY DEF Selection
<1>3. /\ t \in Lists /\ Len(t) = m + 1 /\ t[m + 1] = ss[n]
      /\ \A j \in 1..m : t[j] = s[j]
  BY <1>1, <1>2, AppendProperties DEF Lists
<1> HIDE DEF t
<1>4. /\ more[m + 1] = n
      /\ \A j \in 1..m : more[j] = at[j] /\ at[j] \in positions /\ at[j] \in 1..(n - 1)
  BY <1>2
<1>5. more \in [1..(m + 1) -> positions \cap 1..n]
  <2>0. \A i \in 1..(n - 1) : i \in 1..n
    BY <1>1
  <2>1. \A j \in 1..m : at[j] \in positions \cap 1..n
    BY <1>4, <2>0
  <2>2. n \in positions \cap 1..n
    OBVIOUS
  <2> QED
    BY <2>1, <2>2
<1> HIDE DEF more
<1>6. \A j \in 1..(m + 1) : j = m + 1 \/ j \in 1..m
  OBVIOUS
<1>7. \A j \in 1..(m + 1) : t[j] = ss[more[j]]
  BY <1>2, <1>3, <1>4, <1>6
<1>8. \A i, j \in 1..(m + 1) : more[i] = more[j] => i = j
  <2>1. \A j \in 1..m : more[j] # n
    BY <1>4
  <2> SUFFICES ASSUME NEW i \in 1..(m + 1), NEW j \in 1..(m + 1), more[i] = more[j]
               PROVE  i = j
    OBVIOUS
  <2>2. CASE i \in 1..m /\ j \in 1..m
    BY <1>2, <1>4, <2>2
  <2>3. CASE i = m + 1 /\ j \in 1..m
    BY <1>4, <2>1, <2>3
  <2>4. CASE i \in 1..m /\ j = m + 1
    BY <1>4, <2>1, <2>4
  <2> QED
    BY <1>6, <2>2, <2>3, <2>4
<1>9. \A i \in positions \cap 1..n : \E j \in 1..(m + 1) : more[j] = i
  <2> SUFFICES ASSUME NEW i \in positions \cap 1..n PROVE \E j \in 1..(m + 1) : more[j] = i
    OBVIOUS
  <2>1. CASE i = n
    BY <1>4, <2>1
  <2>2. CASE i # n
    <3>1. i \in positions \cap 1..(n - 1)
      BY <2>2
    <3>2. PICK j \in 1..m : at[j] = i
      BY <1>2, <3>1
    <3> QED
      BY <1>4, <3>2
  <2> QED
    BY <2>1, <2>2
<1>10. Selection(t, more, m + 1, ss, positions, n)
  BY <1>3, <1>5, <1>7, <1>8, <1>9 DEF Selection
<1> QED
  BY <1>10 DEF t

\* What is kept up to a position is a selection of the positions so far.
LEMMA LoopSelects ==
  ASSUME NEW ss \in Lists, NEW positions, NEW kept, Loop(ss, positions, kept, Len(ss)),
         NEW n \in 0..Len(ss)
  PROVE  \E m \in Nat : \E at : Selection(kept[n], at, m, ss, positions, n)
<1> DEFINE Selects(i) == \E m \in Nat : \E at : Selection(kept[i], at, m, ss, positions, i)
           Missing == {i \in 0..Len(ss) : ~Selects(i)}
<1>0. Len(ss) \in Nat
  BY LenProperties DEF Lists
<1> SUFFICES ASSUME Missing # {} PROVE FALSE
  OBVIOUS
<1>a. Missing \in SUBSET Nat
  BY <1>0
<1>1. PICK i \in Missing : \A j \in Missing : i <= j
  <2> HIDE DEF Missing
  <2> QED
    BY <1>a, LeastElement
<1>2. CASE i = 0
  <2> DEFINE at == [j \in 1..0 |-> 0]
  <2>1. kept[0] = <<>> /\ <<>> \in Lists /\ Len(<<>>) = 0
    BY <1>0, EmptySeq DEF Loop, Lists
  <2>2. Selection(<<>>, at, 0, ss, positions, 0)
    BY <2>1 DEF Selection
  <2>3. Selects(0)
    BY <2>1, <2>2
  <2> QED
    BY <1>2, <2>3
<1>3. CASE i # 0
  <2>b. i \in 0..Len(ss)
    OBVIOUS
  <2>c. i \in 1..Len(ss) /\ i - 1 \in 0..Len(ss) /\ ~(i <= i - 1)
    BY <1>0, <1>3, <2>b
  <2>1. i - 1 \in 0..Len(ss) /\ i - 1 \notin Missing /\ i \in 1..Len(ss)
    <3> HIDE DEF Missing
    <3> QED
      BY <1>1, <2>c
  <2>a. Selects(i - 1)
    <3> HIDE DEF Selects
    <3> QED
      BY <2>1
  <2>2. PICK m \in Nat : \E at : Selection(kept[i - 1], at, m, ss, positions, i - 1)
    BY <2>a
  <2>3. PICK at : Selection(kept[i - 1], at, m, ss, positions, i - 1)
    BY <2>2
  <2>4. kept[i] = IF i \in positions THEN Append(kept[i - 1], ss[i]) ELSE kept[i - 1]
    BY <1>0, <1>3 DEF Loop, Step
  <2>5. CASE i \in positions
    <3>1. \E more : Selection(Append(kept[i - 1], ss[i]), more, m + 1, ss, positions, i)
      BY <2>1, <2>3, <2>5, SelectionGrows
    <3>2. kept[i] = Append(kept[i - 1], ss[i]) /\ m + 1 \in Nat
      BY <2>4, <2>5
    <3>3. Selects(i)
      BY <3>1, <3>2
    <3> QED
      BY <3>3
  <2>6. CASE i \notin positions
    <3>1. positions \cap 1..(i - 1) = positions \cap 1..i
      BY <1>0, <2>1, <2>6
    <3>2. kept[i] = kept[i - 1]
      BY <2>4, <2>6
    <3>3. Selection(kept[i], at, m, ss, positions, i)
      BY <2>3, <3>1, <3>2 DEF Selection
    <3>4. Selects(i)
      BY <3>3
    <3> QED
      BY <3>4
  <2> QED
    BY <2>5, <2>6
<1> QED
  BY <1>2, <1>3

\* Filter keeps the elements at the positions, each as often as it is there.
LEMMA FilterSelects ==
  ASSUME NEW ss \in Lists, NEW positions
  PROVE  \E m \in Nat : \E at : Selection(Filter(ss, positions), at, m, ss, positions, Len(ss))
<1>1. PICK kept : Loop(ss, positions, kept, Len(ss)) /\ Filter(ss, positions) = kept[Len(ss)]
  BY FilterLoop
<1>2. Len(ss) \in 0..Len(ss)
  BY LenProperties DEF Lists
<1>3. \E m \in Nat : \E at : Selection(kept[Len(ss)], at, m, ss, positions, Len(ss))
  BY <1>1, <1>2, LoopSelects
<1> QED
  BY <1>1, <1>3

-----------------------------------------------------------------------------
(* Lists of strategies *)

\* At most one strategy per key, each with a threshold a user has entered or
\* with the one that stands for none.
UniqueKeys(ss) == \A i, j \in 1..Len(ss) : ss[i].key = ss[j].key => i = j
Thresholds == {d.threshold : d \in Drafts} \cup {999}
Entered(ss) == \A i \in 1..Len(ss) : ss[i].form.threshold \in Thresholds
Sound(ss) == ss \in Lists /\ UniqueKeys(ss) /\ Entered(ss)

LEMMA ListElements ==
  ASSUME NEW ss \in Lists
  PROVE  /\ Len(ss) \in Nat /\ DOMAIN ss = 1..Len(ss)
         /\ \A i \in 1..Len(ss) : /\ ss[i] \in Strategies /\ ss[i].key \in Keys
                                  /\ ss[i].form \in Form(Int)
<1>1. Len(ss) \in Nat /\ ss \in [1..Len(ss) -> Strategies]
  BY LenProperties DEF Lists
<1> QED
  BY <1>1 DEF Strategies

LEMMA EmptySound == Sound(<<>>)
<1>1. <<>> \in Lists /\ Len(<<>>) = 0
  BY EmptySeq DEF Lists
<1> QED
  BY <1>1 DEF Sound, UniqueKeys, Entered

\* What a list has for a key is what it has at one of its places.
LEMMA HasAtPlace ==
  ASSUME NEW ss \in Lists, NEW k
  PROVE  Has(ss, k) <=> \E i \in 1..Len(ss) : ss[i].key = k
BY ListElements DEF Has, ToSet

LEMMA EmptyHasNone ==
  ASSUME NEW k
  PROVE  ~Has(<<>>, k)
<1>1. Len(<<>>) = 0
  OBVIOUS
<1>2. <<>> \in Lists
  BY EmptySound DEF Sound
<1> QED
  BY <1>1, <1>2, HasAtPlace

\* With one strategy per key, the first and the last one are the same.
LEMMA OnlyOfKey ==
  ASSUME NEW ss, Sound(ss), NEW k, NEW i \in 1..Len(ss), ss[i].key = k
  PROVE  Has(ss, k) /\ FirstOf(ss, k) = ss[i].form /\ LastOf(ss, k) = ss[i].form
<1>1. ss \in Lists
  BY DEF Sound
<1>2. Has(ss, k)
  BY <1>1, HasAtPlace
<1>3. PICK a \in 1..Len(ss) : ss[a].key = k /\ FirstOf(ss, k) = ss[a].form
  BY <1>1, <1>2, FirstOfKey
<1>4. PICK b \in 1..Len(ss) : ss[b].key = k /\ LastOf(ss, k) = ss[b].form
  BY <1>1, <1>2, LastOfKey
<1>5. a = i /\ b = i
  BY <1>3, <1>4 DEF Sound, UniqueKeys
<1> QED
  BY <1>2, <1>3, <1>4, <1>5

\* There are no more strategies than keys.
LEMMA FiniteKeys == IsFiniteSet(Keys)
<1>1. IsFiniteSet({"BUY"}) /\ {"BUY"} \cup {"SELL"} = Directions
  BY FS_Singleton DEF Directions
<1>2. IsFiniteSet(Directions)
  BY <1>1, FS_AddElement
<1> QED
  BY <1>2, FS_Product, StrategyConfigAssumption DEF Keys

LEMMA ListLength ==
  ASSUME NEW ss, Sound(ss)
  PROVE  Len(ss) <= Cardinality(Keys)
<1> DEFINE f == [i \in 1..Len(ss) |-> ss[i].key]
<1>1. Len(ss) \in Nat /\ \A i \in 1..Len(ss) : ss[i].key \in Keys
  BY ListElements DEF Sound
<1>2. f \in Injection(1..Len(ss), Keys)
  <2>1. f \in [1..Len(ss) -> Keys]
    BY <1>1
  <2>2. \A i, j \in 1..Len(ss) : f[i] = f[j] => i = j
    BY DEF Sound, UniqueKeys
  <2> QED
    BY <2>1, <2>2 DEF Injection, IsInjective
<1>3. Cardinality(1..Len(ss)) <= Cardinality(Keys)
  BY <1>2, FiniteKeys, FS_Injection
<1>4. Cardinality(1..Len(ss)) = Len(ss)
  <2>1. 1 > Len(ss) => Len(ss) = 0
    BY <1>1
  <2> QED
    BY <1>1, <2>1, FS_Interval
<1> QED
  BY <1>3, <1>4

\* The others are those of the other keys, all of them.
LEMMA OthersOfList ==
  ASSUME NEW ss, Sound(ss), NEW k \in Keys
  PROVE  /\ Sound(Others(ss, k))
         /\ \A j \in 1..Len(Others(ss, k)) : Others(ss, k)[j].key # k
         /\ \A i \in 1..Len(ss) : ss[i].key # k =>
              \E j \in 1..Len(Others(ss, k)) : Others(ss, k)[j] = ss[i]
         /\ \A j \in 1..Len(Others(ss, k)) :
              \E i \in 1..Len(ss) : Others(ss, k)[j] = ss[i]
<1> DEFINE positions == {i \in DOMAIN ss : ss[i].key[1] # k[1] \/ ss[i].key[2] # k[2]}
           rest == Others(ss, k)
<1>1. /\ ss \in Lists /\ Len(ss) \in Nat /\ DOMAIN ss = 1..Len(ss)
      /\ \A i \in 1..Len(ss) : ss[i].key \in Keys
  BY ListElements DEF Sound
<1>2. \A i \in 1..Len(ss) : i \in positions <=> ss[i].key # k
  <2> SUFFICES ASSUME NEW i \in 1..Len(ss)
               PROVE  ss[i].key = k <=> ss[i].key[1] = k[1] /\ ss[i].key[2] = k[2]
    BY <1>1
  <2>1. ss[i].key \in Pairs \X Directions /\ k \in Pairs \X Directions
    BY <1>1 DEF Keys
  <2> QED
    BY <2>1
<1> HIDE DEF positions
<1>3. PICK m \in Nat : \E at : Selection(rest, at, m, ss, positions, Len(ss))
  <2>1. rest = Filter(ss, positions)
    BY DEF Others, positions
  <2> QED
    BY <1>1, <2>1, FilterSelects
<1>4. PICK at : Selection(rest, at, m, ss, positions, Len(ss))
  BY <1>3
<1> HIDE DEF rest
<1>5. /\ rest \in Lists /\ Len(rest) = m
      /\ \A j \in 1..m : at[j] \in positions /\ at[j] \in 1..Len(ss) /\ rest[j] = ss[at[j]]
      /\ \A i, j \in 1..m : at[i] = at[j] => i = j
      /\ \A i \in positions \cap 1..Len(ss) : \E j \in 1..m : at[j] = i
  BY <1>4 DEF Selection
<1>6. UniqueKeys(rest)
  <2> SUFFICES ASSUME NEW i \in 1..m, NEW j \in 1..m, rest[i].key = rest[j].key PROVE i = j
    BY <1>5 DEF UniqueKeys
  <2>a. /\ at[i] \in 1..Len(ss) /\ at[j] \in 1..Len(ss)
        /\ ss[at[i]].key = ss[at[j]].key
    BY <1>5
  <2>b. UniqueKeys(ss)
    BY DEF Sound
  <2>1. at[i] = at[j]
    BY <2>a, <2>b DEF UniqueKeys
  <2> QED
    BY <1>5, <2>1
<1>7. Entered(rest)
  BY <1>5 DEF Sound, Entered
<1>8. \A j \in 1..m : rest[j].key # k
  BY <1>2, <1>5
<1>9. \A i \in 1..Len(ss) : ss[i].key # k => \E j \in 1..m : rest[j] = ss[i]
  <2> SUFFICES ASSUME NEW i \in 1..Len(ss), ss[i].key # k PROVE \E j \in 1..m : rest[j] = ss[i]
    OBVIOUS
  <2>1. i \in positions \cap 1..Len(ss)
    BY <1>2
  <2>2. PICK j \in 1..m : at[j] = i
    BY <1>5, <2>1
  <2> QED
    BY <1>5, <2>2
<1>10. \A j \in 1..m : \E i \in 1..Len(ss) : rest[j] = ss[i]
  BY <1>5
<1> QED
  BY <1>5, <1>6, <1>7, <1>8, <1>9, <1>10 DEF Sound, rest

\* A new strategy of k takes the place of the old one, and no other changes.
LEMMA ReplacedStrategy ==
  ASSUME NEW ss, Sound(ss), NEW k \in Keys, NEW f \in Form(Int), f.threshold \in Thresholds
  PROVE  LET new == Append(Others(ss, k), Entry(k, f)) IN
         /\ Sound(new)
         /\ Has(new, k) /\ FirstOf(new, k) = f
         /\ \A j \in Keys \ {k} :
              /\ Has(new, j) <=> Has(ss, j)
              /\ Has(ss, j) => FirstOf(new, j) = FirstOf(ss, j)
<1> DEFINE rest == Others(ss, k)
           e == Entry(k, f)
           new == Append(rest, e)
<1>1. /\ Sound(rest)
      /\ \A j \in 1..Len(rest) : rest[j].key # k
      /\ \A i \in 1..Len(ss) : ss[i].key # k => \E j \in 1..Len(rest) : rest[j] = ss[i]
      /\ \A j \in 1..Len(rest) : \E i \in 1..Len(ss) : rest[j] = ss[i]
  BY OthersOfList
<1>2. e \in Strategies /\ e.key = k /\ e.form = f
  BY DEF Entry, Strategies
<1> HIDE DEF rest, e
<1>3. rest \in Lists /\ Len(rest) \in Nat
  BY <1>1, ListElements DEF Sound
<1>4. /\ new \in Lists /\ Len(new) = Len(rest) + 1
      /\ new[Len(rest) + 1] = e
      /\ \A j \in 1..Len(rest) : new[j] = rest[j]
  BY <1>2, <1>3, AppendProperties DEF Lists
<1> HIDE DEF new
<1>5. \A i \in 1..Len(new) : i = Len(rest) + 1 \/ i \in 1..Len(rest)
  BY <1>3, <1>4
<1>6. UniqueKeys(new)
  <2> SUFFICES ASSUME NEW i \in 1..Len(new), NEW j \in 1..Len(new), new[i].key = new[j].key
               PROVE  i = j
    BY DEF UniqueKeys
  <2>1. CASE i \in 1..Len(rest) /\ j \in 1..Len(rest)
    BY <1>1, <1>4, <2>1 DEF Sound, UniqueKeys
  <2>2. CASE i = Len(rest) + 1 /\ j \in 1..Len(rest)
    BY <1>1, <1>2, <1>4, <2>2
  <2>3. CASE i \in 1..Len(rest) /\ j = Len(rest) + 1
    BY <1>1, <1>2, <1>4, <2>3
  <2> QED
    BY <1>5, <2>1, <2>2, <2>3
<1>7. Entered(new)
  <2> SUFFICES ASSUME NEW i \in 1..Len(new) PROVE new[i].form.threshold \in Thresholds
    BY DEF Entered
  <2>1. CASE i \in 1..Len(rest)
    BY <1>1, <1>4, <2>1 DEF Sound, Entered
  <2>2. CASE i = Len(rest) + 1
    BY <1>2, <1>4, <2>2
  <2> QED
    BY <1>5, <2>1, <2>2
<1>8. Sound(new)
  BY <1>4, <1>6, <1>7 DEF Sound
<1>9. Has(new, k) /\ FirstOf(new, k) = f
  <2>1. Len(rest) + 1 \in 1..Len(new)
    BY <1>3, <1>4
  <2> QED
    BY <1>2, <1>4, <1>8, <2>1, OnlyOfKey
<1>10. ASSUME NEW j \in Keys \ {k}, Has(ss, j)
       PROVE  Has(new, j) /\ FirstOf(new, j) = FirstOf(ss, j)
  <2>1. ss \in Lists
    BY DEF Sound
  <2>2. PICK i \in 1..Len(ss) : ss[i].key = j
    BY <1>10, <2>1, HasAtPlace
  <2>3. PICK a \in 1..Len(rest) : rest[a] = ss[i]
    BY <1>1, <2>2
  <2>4. a \in 1..Len(new) /\ new[a] = ss[i]
    BY <1>3, <1>4, <2>3
  <2> QED
    BY <1>8, <2>2, <2>4, OnlyOfKey
<1>11. ASSUME NEW j \in Keys \ {k}, Has(new, j)
       PROVE  Has(ss, j)
  <2>1. PICK i \in 1..Len(new) : new[i].key = j
    BY <1>4, <1>11, HasAtPlace
  <2>2. i \in 1..Len(rest) /\ rest[i].key = j
    BY <1>2, <1>4, <1>5, <2>1
  <2>3. PICK a \in 1..Len(ss) : rest[i] = ss[a]
    BY <1>1, <2>2
  <2>4. ss \in Lists
    BY DEF Sound
  <2> QED
    BY <2>2, <2>3, <2>4, HasAtPlace
<1> QED
  BY <1>8, <1>9, <1>10, <1>11 DEF new, rest, e

-----------------------------------------------------------------------------
(* The inductive invariant *)

\* Every list is sound, the Monitor's is the file's while the process lives
\* and the file can be read, and so is the one of an open setup screen.
ConfigInv ==
  /\ running \in BOOLEAN
  /\ file # Damaged => Sound(file)
  /\ Sound(strategies)
  /\ running /\ file # Damaged => strategies = file
  /\ setup # NoScreen =>
       /\ running
       /\ setup \in Screens
       /\ setup.strategies = LoadDefault(file, <<>>)
       /\ setup.form.threshold \in Thresholds \cup {Unreadable}
  /\ lastSave \in {"none", "written", "failed", "lost"}

\* A file read by a screen or by the Monitor gives a sound list.
LEMMA LoadedSound ==
  ASSUME ConfigInv, NEW old, Sound(old)
  PROVE  Sound(LoadDefault(file, old))
BY DEF ConfigInv, LoadDefault

\* What an open screen would save.
LEMMA SavedList ==
  ASSUME ConfigInv, setup # NoScreen
  PROVE  /\ Sound(Saved) /\ setup.key \in Keys
         /\ Has(Saved, setup.key)
         /\ FirstOf(Saved, setup.key) = [setup.form EXCEPT !.threshold = GetThreshold(setup.form)]
         /\ \A j \in Keys \ {setup.key} :
              /\ Has(Saved, j) <=> Has(setup.strategies, j)
              /\ Has(setup.strategies, j) => FirstOf(Saved, j) = FirstOf(setup.strategies, j)
<1> DEFINE form == setup.form
           f == [form EXCEPT !.threshold = GetThreshold(form)]
<1>1. /\ setup.key \in Keys /\ form \in Form(Int \cup {Unreadable})
      /\ form.threshold \in Thresholds \cup {Unreadable}
  BY DEF ConfigInv, Screens
<1>2. Sound(setup.strategies)
  BY LoadedSound, EmptySound DEF ConfigInv
<1> HIDE DEF form
<1>3. GetThreshold(form) \in Int /\ GetThreshold(form) \in Thresholds
  BY <1>1 DEF GetThreshold, Thresholds, Form
<1>4. f \in Form(Int) /\ f.threshold = GetThreshold(form)
  BY <1>1, <1>3 DEF Form
<1>5. Saved = Append(Others(setup.strategies, setup.key), Entry(setup.key, f))
  BY DEF Saved, form
<1> HIDE DEF f
<1> DEFINE new == Append(Others(setup.strategies, setup.key), Entry(setup.key, f))
<1>6. /\ Sound(new)
      /\ Has(new, setup.key) /\ FirstOf(new, setup.key) = f
      /\ \A j \in Keys \ {setup.key} :
           /\ Has(new, j) <=> Has(setup.strategies, j)
           /\ Has(setup.strategies, j) => FirstOf(new, j) = FirstOf(setup.strategies, j)
  BY <1>1, <1>2, <1>3, <1>4, ReplacedStrategy
<1> HIDE DEF new
<1>7. Saved = new
  BY <1>5 DEF new
<1>8. FirstOf(Saved, setup.key) = [setup.form EXCEPT !.threshold = GetThreshold(setup.form)]
  BY <1>6, <1>7 DEF f, form
<1> QED
  BY <1>1, <1>4, <1>6, <1>7, <1>8

\* What a screen shows when it opens.
LEMMA ShownForm ==
  ASSUME NEW ss, Sound(ss), NEW k
  PROVE  /\ SetConfigValue(ss, k) \in Form(Int \cup {Unreadable})
         /\ SetConfigValue(ss, k).threshold \in Thresholds \cup {Unreadable}
<1>1. CASE Has(ss, k)
  <2>1. ss \in Lists
    BY DEF Sound
  <2>2. PICK i \in 1..Len(ss) : LastOf(ss, k) = ss[i].form
    BY <1>1, <2>1, LastOfKey
  <2>3. ss[i].form \in Form(Int) /\ ss[i].form.threshold \in Thresholds
    BY <2>1, ListElements DEF Sound, Entered
  <2>4. Form(Int) \subseteq Form(Int \cup {Unreadable})
    BY DEF Form
  <2> QED
    BY <1>1, <2>2, <2>3, <2>4 DEF SetConfigValue
<1>2. CASE ~Has(ss, k)
  BY <1>2, StrategyConfigAssumption DEF SetConfigValue
<1> QED
  BY <1>1, <1>2

LEMMA ConfigInit == Init => ConfigInv
BY EmptySound DEF Init, ConfigInv

LEMMA ConfigNext == ConfigInv /\ [Next]_vars => ConfigInv'
<1> SUFFICES ASSUME ConfigInv, [Next]_vars PROVE ConfigInv'
  OBVIOUS
<1>1. CASE Launch
  <2>1. Sound(LoadDefault(file, <<>>))
    BY LoadedSound, EmptySound
  <2> QED
    BY <1>1, <2>1 DEF Launch, ConfigInv, LoadDefault
<1>2. CASE BackButtonPressed
  BY <1>2 DEF BackButtonPressed, ConfigInv
<1>3. CASE Quit
  BY <1>3, EmptySound DEF Quit, Die, ConfigInv
<1>4. CASE QuitWhileSaving
  BY <1>4, EmptySound DEF QuitWhileSaving, Die, ConfigInv
<1>5. ASSUME NEW k \in Keys, CustomizePressed(k) PROVE ConfigInv'
  <2> DEFINE ss == LoadDefault(file, <<>>)
             form == SetConfigValue(ss, k)
  <2>1. Sound(ss) /\ ss \in Lists
    BY LoadedSound, EmptySound DEF Sound
  <2>2. /\ form \in Form(Int \cup {Unreadable})
        /\ form.threshold \in Thresholds \cup {Unreadable}
    BY <2>1, ShownForm
  <2>3. /\ setup' = [key |-> k, strategies |-> ss, form |-> form]
        /\ running /\ UNCHANGED <<running, file, strategies, lastSave>>
    BY <1>5 DEF CustomizePressed
  <2> HIDE DEF form
  <2>4. setup' \in Screens /\ setup'.form = form /\ setup'.strategies = ss
    BY <2>1, <2>2, <2>3 DEF Screens
  <2>5. ss = LoadDefault(file', <<>>)
    BY <2>3
  <2> HIDE DEF ss
  <2> QED
    BY <2>2, <2>3, <2>4, <2>5 DEF ConfigInv
<1>6. ASSUME NEW d \in Drafts, EditDraft(d) PROVE ConfigInv'
  <2>1. d \in Form(Int \cup {Unreadable}) /\ d.threshold \in Thresholds
    BY StrategyConfigAssumption DEF Thresholds
  <2>2. /\ setup # NoScreen /\ UNCHANGED <<running, file, strategies, lastSave>>
        /\ setup' = [setup EXCEPT !.form = d]
    BY <1>6 DEF EditDraft
  <2>3. setup \in Screens /\ setup.strategies = LoadDefault(file, <<>>) /\ running
    BY <2>2 DEF ConfigInv
  <2>4. setup' \in Screens /\ setup'.form = d /\ setup'.strategies = setup.strategies
    BY <2>1, <2>2, <2>3 DEF Screens
  <2>5. setup'.strategies = LoadDefault(file', <<>>)
    BY <2>2, <2>3, <2>4
  <2> QED
    BY <2>1, <2>2, <2>3, <2>4, <2>5 DEF ConfigInv
<1>7. ASSUME NEW outcome \in {"written", "failed", "lost"}, SaveButtonPressed(outcome)
      PROVE  ConfigInv'
  <2>1. /\ file' = Written(outcome) /\ strategies' = LoadDefault(file', strategies)
        /\ setup # NoScreen /\ setup' = NoScreen /\ running' = running /\ lastSave' = outcome
    BY <1>7 DEF SaveButtonPressed
  <2>2. Written(outcome) \in {Saved, file, Damaged}
    BY <1>7 DEF Written
  <2>3. file' # Damaged => Sound(file')
    BY <2>1, <2>2, SavedList DEF ConfigInv
  <2>4. Sound(strategies')
    BY <2>1, <2>3 DEF ConfigInv, LoadDefault
  <2>5. file' # Damaged => strategies' = file'
    BY <2>1 DEF LoadDefault
  <2> QED
    BY <1>7, <2>1, <2>3, <2>4, <2>5 DEF ConfigInv
<1>8. CASE UNCHANGED vars
  BY <1>8 DEF vars, ConfigInv
<1> QED
  BY <1>1, <1>2, <1>3, <1>4, <1>5, <1>6, <1>7, <1>8 DEF Next

LEMMA AlwaysConfigInv == Spec => []ConfigInv
BY ConfigInit, ConfigNext, PTL DEF Spec

\* The file and its copies hold strategies, at most one per key, whatever is
\* saved, cut short or read again.
THEOREM TypeCorrect == Spec => []TypeOK
<1>1. ConfigInv => TypeOK
  <2> SUFFICES ASSUME ConfigInv PROVE TypeOK
    OBVIOUS
  <2>1. file \in Lists \cup {Damaged} /\ strategies \in Lists
    BY DEF ConfigInv, Sound
  <2>2. Len(strategies) <= Cardinality(Keys)
    BY ListLength DEF ConfigInv
  <2> QED
    BY <2>1, <2>2 DEF TypeOK, ConfigInv
<1> QED
  BY <1>1, AlwaysConfigInv, PTL

\* The setup screen shows the strategy the labels follow: setConfigValue ends
\* with the last entry of the key, getBuySignalLabel stops at the first one.
THEOREM ScreenAlwaysAgrees == Spec => []ScreenAgreesWithLabels
<1>1. ConfigInv => ScreenAgreesWithLabels
  <2> SUFFICES ASSUME ConfigInv, running, file # Damaged, NEW k \in Keys, Has(file, k)
               PROVE  SetConfigValue(file, k) = FirstOf(file, k)
    BY DEF ConfigInv, ScreenAgreesWithLabels
  <2>1. Sound(file) /\ file \in Lists
    BY DEF ConfigInv, Sound
  <2>2. PICK i \in 1..Len(file) : file[i].key = k
    BY <2>1, HasAtPlace
  <2>3. FirstOf(file, k) = LastOf(file, k)
    BY <2>1, <2>2, OnlyOfKey
  <2> QED
    BY <2>3 DEF SetConfigValue
<1> QED
  BY <1>1, AlwaysConfigInv, PTL

-----------------------------------------------------------------------------
(* The rule of the labels *)

\* An indicator counts for what the slider allows, or not at all.
LEMMA CountedBound ==
  ASSUME NEW f \in Form(Int), NEW i \in Slots, NEW colours, NEW colour
  PROVE  Counted(f, i, colours, colour) \in 0..100
<1>1. f.weight[i] \in 0..100
  BY DEF Form
<1> QED
  BY <1>1 DEF Counted

\* Whatever indicators are chosen, even one of them five times, and whatever
\* colours they show, no strategy counts more than five full weights.
THEOREM TotalBound ==
  ASSUME NEW f \in Form(Int), NEW colours, NEW colour
  PROVE  Total(f, colours, colour) \in 0..500
<1>1. \A i \in Slots : \E n \in 0..100 : Counted(f, i, colours, colour) = n
  BY CountedBound
<1>2. PICK n1 \in 0..100 : Counted(f, 1, colours, colour) = n1
  BY <1>1 DEF Slots
<1>3. PICK n2 \in 0..100 : Counted(f, 2, colours, colour) = n2
  BY <1>1 DEF Slots
<1>4. PICK n3 \in 0..100 : Counted(f, 3, colours, colour) = n3
  BY <1>1 DEF Slots
<1>5. PICK n4 \in 0..100 : Counted(f, 4, colours, colour) = n4
  BY <1>1 DEF Slots
<1>6. PICK n5 \in 0..100 : Counted(f, 5, colours, colour) = n5
  BY <1>1 DEF Slots
<1>7. Total(f, colours, colour) = n1 + n2 + n3 + n4 + n5
  BY <1>2, <1>3, <1>4, <1>5, <1>6 DEF Total
<1> QED
  BY <1>7

\* A strategy saved without a readable threshold never fires (getThreshold
\* and checkBuySignal, checkSellSignal), in any direction.
THEOREM UnreadableThresholdNeverFires ==
  ASSUME NEW f \in Form(Int \cup {Unreadable}), f.threshold = Unreadable,
         NEW colours, NEW direction \in Directions
  PROVE  ~CheckSignal([f EXCEPT !.threshold = GetThreshold(f)], colours, direction)
<1> DEFINE g == [f EXCEPT !.threshold = GetThreshold(f)]
<1>1. GetThreshold(f) = 999
  BY DEF GetThreshold
<1>2. g \in Form(Int) /\ g.threshold = 999
  BY <1>1 DEF Form
<1>3. Total(g, colours, ColourOf(direction)) \in 0..500
  BY <1>2, TotalBound
<1> QED
  BY <1>2, <1>3 DEF CheckSignal

\* A threshold no user entered is 999 in every strategy the Monitor holds, so
\* its labels stay inactive.
THEOREM UnreadableStrategiesNeverFire == Spec => []UnreadableNeverFires
<1>1. ConfigInv => UnreadableNeverFires
  <2> SUFFICES ASSUME ConfigInv, NEW s \in ToSet(strategies),
                      \A d \in Drafts : s.form.threshold # d.threshold,
                      NEW colours \in [Indicators -> Colours]
               PROVE  ~CheckSignal(s.form, colours, s.key[2])
    BY DEF UnreadableNeverFires
  <2>1. Sound(strategies) /\ strategies \in Lists
    BY DEF ConfigInv, Sound
  <2>2. PICK i \in 1..Len(strategies) : s = strategies[i]
    BY <2>1, ListElements DEF ToSet
  <2>3. s.form \in Form(Int) /\ s.form.threshold \in Thresholds
    BY <2>1, <2>2, ListElements DEF Sound, Entered
  <2>4. s.form.threshold = 999
    BY <2>3 DEF Thresholds
  <2>5. PICK n \in 0..500 : Total(s.form, colours, ColourOf(s.key[2])) = n
    BY <2>3, TotalBound
  <2> QED
    BY <2>4, <2>5 DEF CheckSignal
<1> QED
  BY <1>1, AlwaysConfigInv, PTL

-----------------------------------------------------------------------------
(* The store of the user *)

\* What the labels follow for a key, after a file; what a screen shows.
Followed(f, k) == IF f # Damaged /\ Has(f, k) THEN FirstOf(f, k) ELSE NoStrategy
FollowedByFile(f) == [k \in Keys |-> Followed(f, k)]
Shown(s) == IF s = NoScreen THEN NoScreen ELSE [key |-> s.key, form |-> s.form]

LEMMA StoreInit == Init => Store!Init
<1> SUFFICES ASSUME Init PROVE Store!Init
  OBVIOUS
<1>1. file = <<>>
  BY DEF Init
<1>2. \A k \in Keys : ~Has(file, k)
  BY <1>1, EmptyHasNone
<1> QED
  BY <1>2 DEF Init, Store!Init

\* What is read at a key of the list a screen or the Monitor loads: the only
\* strategy of the key, whichever end of the list the loop takes it from.
LEMMA OpenedForm ==
  ASSUME ConfigInv, NEW k \in Keys
  PROVE  SetConfigValue(LoadDefault(file, <<>>), k)
           = IF Followed(file, k) = NoStrategy THEN Storyboard ELSE Followed(file, k)
<1>1. CASE file = Damaged
  <2>1. ~Has(<<>>, k)
    BY EmptyHasNone
  <2> QED
    BY <1>1, <2>1 DEF LoadDefault, SetConfigValue, Followed
<1>2. CASE file # Damaged /\ ~Has(file, k)
  BY <1>2 DEF LoadDefault, SetConfigValue, Followed
<1>3. CASE file # Damaged /\ Has(file, k)
  <2>1. Sound(file) /\ file \in Lists
    BY <1>3 DEF ConfigInv, Sound
  <2>2. PICK i \in 1..Len(file) : file[i].key = k /\ FirstOf(file, k) = file[i].form
    BY <1>3, <2>1, FirstOfKey
  <2>3. LastOf(file, k) = FirstOf(file, k)
    BY <2>1, <2>2, OnlyOfKey
  <2>4. FirstOf(file, k) # NoStrategy
    BY <2>1, <2>2, ListElements, StrategyConfigAssumption
  <2> QED
    BY <1>3, <2>3, <2>4 DEF LoadDefault, SetConfigValue, Followed
<1> QED
  BY <1>1, <1>2, <1>3

\* The store after a press of SAVE whose write succeeds.
LEMMA SavedStore ==
  ASSUME ConfigInv, setup # NoScreen, Saved # Damaged
  PROVE  /\ setup.key \in Keys
         /\ FollowedByFile(Saved) = [FollowedByFile(file) EXCEPT ![setup.key] = Store!Entered(setup.form)]
<1>1. /\ setup.key \in Keys /\ Has(Saved, setup.key)
      /\ FirstOf(Saved, setup.key) = [setup.form EXCEPT !.threshold = GetThreshold(setup.form)]
      /\ \A j \in Keys \ {setup.key} :
           /\ Has(Saved, j) <=> Has(setup.strategies, j)
           /\ Has(setup.strategies, j) => FirstOf(Saved, j) = FirstOf(setup.strategies, j)
  BY SavedList
<1>2. \A j \in Keys \ {setup.key} : Followed(Saved, j) = Followed(file, j)
  <2> SUFFICES ASSUME NEW j \in Keys \ {setup.key} PROVE Followed(Saved, j) = Followed(file, j)
    OBVIOUS
  <2>1. CASE file # Damaged
    <3>1. setup.strategies = file
      BY <2>1 DEF ConfigInv, LoadDefault
    <3> QED
      BY <1>1, <2>1, <3>1 DEF Followed
  <2>2. CASE file = Damaged
    <3>1. setup.strategies = <<>>
      BY <2>2 DEF ConfigInv, LoadDefault
    <3>2. ~Has(<<>>, j)
      BY EmptyHasNone
    <3> QED
      BY <1>1, <2>2, <3>1, <3>2 DEF Followed
  <2> QED
    BY <2>1, <2>2
<1>3. [setup.form EXCEPT !.threshold = GetThreshold(setup.form)] = Store!Entered(setup.form)
  <2>1. setup.form \in Form(Int \cup {Unreadable})
    BY DEF ConfigInv, Screens
  <2> QED
    BY <2>1 DEF Form, GetThreshold, Store!Entered
<1>4. Followed(Saved, setup.key) = Store!Entered(setup.form)
  BY <1>1, <1>3 DEF Followed
<1>5. FollowedByFile(Saved) = [FollowedByFile(file) EXCEPT ![setup.key] = Followed(Saved, setup.key)]
  <2> HIDE DEF Saved
  <2> QED
    BY <1>1, <1>2 DEF FollowedByFile
<1> QED
  BY <1>1, <1>4, <1>5

\* An open screen is one, in both specifications.
LEMMA OpenScreen ==
  ASSUME ConfigInv
  PROVE  Shown(setup) # NoScreen <=> setup # NoScreen
<1>1. setup # NoScreen => [key |-> setup.key, form |-> setup.form]
                            \in [key : Keys, form : Form(Int \cup {Unreadable})]
  BY DEF ConfigInv, Screens
<1> QED
  BY <1>1, StrategyConfigAssumption DEF Shown

\* What a step does to the store, to the screen and to the outcome.
StoreStep(old, new, shown, shows) ==
  \/ new = old /\ shows = shown /\ lastSave' = lastSave
  \/ \E k \in Keys : /\ shown = NoScreen
                     /\ shows = [key |-> k,
                                 form |-> IF old[k] = NoStrategy THEN Storyboard ELSE old[k]]
                     /\ new = old /\ lastSave' = lastSave
  \/ \E d \in Drafts : /\ shown # NoScreen
                       /\ shows = [shown EXCEPT !.form = d]
                       /\ new = old /\ lastSave' = lastSave
  \/ /\ shown # NoScreen /\ shows = NoScreen
     /\ \/ new = old /\ lastSave' \in {lastSave, "failed"}
        \/ new = [old EXCEPT ![shown.key] = Store!Entered(shown.form)] /\ lastSave' = "written"
        \/ new = [k \in Keys |-> NoStrategy] /\ lastSave' = "lost"

LEMMA StoreNext ==
  ASSUME ConfigInv, [Next]_vars
  PROVE  StoreStep(FollowedByFile(file), FollowedByFile(file'), Shown(setup), Shown(setup'))
<1>1. CASE Launch \/ UNCHANGED vars
  BY <1>1 DEF Launch, vars, StoreStep
<1>2. CASE BackButtonPressed
  BY <1>2, OpenScreen DEF BackButtonPressed, StoreStep, Shown
<1>3. CASE Quit
  BY <1>3, OpenScreen DEF Quit, Die, StoreStep, Shown
<1>4. FollowedByFile(Damaged) = [k \in Keys |-> NoStrategy]
  BY DEF FollowedByFile, Followed
<1>5. CASE QuitWhileSaving
  BY <1>4, <1>5, OpenScreen DEF QuitWhileSaving, Die, StoreStep, Shown
<1>6. ASSUME NEW k \in Keys, CustomizePressed(k)
      PROVE  StoreStep(FollowedByFile(file), FollowedByFile(file'), Shown(setup), Shown(setup'))
  <2> DEFINE ss == LoadDefault(file, <<>>)
             form == SetConfigValue(ss, k)
  <2>1. /\ setup = NoScreen /\ UNCHANGED <<file, lastSave>>
        /\ setup' = [key |-> k, strategies |-> ss, form |-> form]
    BY <1>6 DEF CustomizePressed
  <2>2. form = IF FollowedByFile(file)[k] = NoStrategy THEN Storyboard ELSE FollowedByFile(file)[k]
    BY OpenedForm DEF FollowedByFile
  <2>3. setup' # NoScreen
    <3>1. ss \in Lists /\ Sound(ss)
      BY LoadedSound, EmptySound DEF Sound
    <3>2. form \in Form(Int \cup {Unreadable})
      BY <3>1, ShownForm
    <3> HIDE DEF ss, form
    <3> QED
      BY <2>1, <3>1, <3>2, StrategyConfigAssumption DEF Screens
  <2> HIDE DEF ss, form
  <2>4. Shown(setup) = NoScreen /\ Shown(setup') = [key |-> k, form |-> form]
    BY <2>1, <2>3 DEF Shown
  <2> QED
    BY <2>1, <2>2, <2>4 DEF StoreStep
<1>7. ASSUME NEW d \in Drafts, EditDraft(d)
      PROVE  StoreStep(FollowedByFile(file), FollowedByFile(file'), Shown(setup), Shown(setup'))
  <2>1. /\ setup # NoScreen /\ UNCHANGED <<file, lastSave>>
        /\ setup' = [setup EXCEPT !.form = d]
    BY <1>7 DEF EditDraft
  <2>2. setup \in Screens /\ d \in Form(Int \cup {Unreadable})
    BY <2>1, StrategyConfigAssumption DEF ConfigInv
  <2>3. setup' \in Screens /\ setup'.key = setup.key /\ setup'.form = d
    BY <2>1, <2>2 DEF Screens
  <2>4. setup' # NoScreen
    BY <2>3, StrategyConfigAssumption
  <2>5. Shown(setup') = [Shown(setup) EXCEPT !.form = d]
    BY <2>1, <2>3, <2>4 DEF Shown
  <2> QED
    BY <2>1, <2>5, OpenScreen DEF StoreStep
<1>8. ASSUME NEW outcome \in {"written", "failed", "lost"}, SaveButtonPressed(outcome)
      PROVE  StoreStep(FollowedByFile(file), FollowedByFile(file'), Shown(setup), Shown(setup'))
  <2>1. /\ setup # NoScreen /\ setup' = NoScreen
        /\ file' = Written(outcome) /\ lastSave' = outcome
    BY <1>8 DEF SaveButtonPressed
  <2>2. Shown(setup) # NoScreen /\ Shown(setup') = NoScreen
    BY <2>1, OpenScreen DEF Shown
  <2>3. Shown(setup).key = setup.key /\ Shown(setup).form = setup.form
    BY <2>1 DEF Shown
  <2>4. CASE outcome = "failed"
    BY <2>1, <2>2, <2>4 DEF Written, StoreStep
  <2>5. CASE outcome = "lost"
    BY <1>4, <2>1, <2>2, <2>5 DEF Written, StoreStep
  <2>6. CASE outcome = "written"
    <3>1. file' = Saved
      BY <2>1, <2>6 DEF Written
    <3>2. Saved # Damaged
      BY <2>1, SavedList, StrategyConfigAssumption DEF Sound
    <3>3. FollowedByFile(Saved) = [FollowedByFile(file) EXCEPT ![setup.key] = Store!Entered(setup.form)]
      BY <2>1, <3>2, SavedStore
    <3> HIDE DEF Saved
    <3> QED
      BY <2>1, <2>2, <2>3, <2>6, <3>1, <3>3 DEF StoreStep
  <2> QED
    BY <1>8, <2>4, <2>5, <2>6
<1> QED
  BY <1>1, <1>2, <1>3, <1>5, <1>6, <1>7, <1>8 DEF Next

\* StrategyConfig implements StrategyStore: a press of SAVE stores what the
\* screen shows, for its own pair and direction and for no other, or keeps or
\* loses all of them; nothing else changes what the labels follow.
THEOREM ConfigImplementsStore == Spec => ImplementsStore
<1>1. ConfigInv /\ [Next]_vars =>
        [Store!Next]_<<[k \in Keys |->
                          IF file # Damaged /\ Has(file, k) THEN FirstOf(file, k) ELSE NoStrategy],
                       IF setup = NoScreen THEN NoScreen ELSE [key |-> setup.key, form |-> setup.form],
                       lastSave>>
  <2> SUFFICES ASSUME ConfigInv, [Next]_vars
               PROVE  \/ Store!Next
                      \/ /\ FollowedByFile(file') = FollowedByFile(file)
                         /\ Shown(setup') = Shown(setup) /\ lastSave' = lastSave
    BY DEF FollowedByFile, Followed, Shown
  <2>1. StoreStep(FollowedByFile(file), FollowedByFile(file'), Shown(setup), Shown(setup'))
    BY StoreNext
  <2> QED
    BY <2>1 DEF StoreStep, Store!Next, Store!Open, Store!Edit, Store!Leave, Store!Save, Store!Fail,
                Store!Lose, FollowedByFile, Followed, Shown
<1> QED
  BY <1>1, StoreInit, AlwaysConfigInv, PTL DEF Spec, ImplementsStore, Store!Spec, Store!vars

=============================================================================
