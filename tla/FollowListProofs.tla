-------------------------- MODULE FollowListProofs --------------------------
(***************************************************************************)
(* Proofs about FollowList, for every set of strategies and tokens, every  *)
(* set of bounds, and with or without losses.                              *)
(***************************************************************************)
EXTENDS FollowList, SequenceTheorems, WellFoundedInduction, NaturalsInduction, TLAPS

-----------------------------------------------------------------------------
(* Lists *)

\* Removing the element at a position keeps the others and the type.
LEMMA RemoveAtLemma ==
  ASSUME NEW S, NEW s \in Seq(S), NEW k \in 1..Len(s)
  PROVE  /\ RemoveAt(s, k) \in Seq(S)
         /\ Len(RemoveAt(s, k)) = Len(s) - 1
         /\ \A i \in 1..(k - 1) : RemoveAt(s, k)[i] = s[i]
         /\ \A i \in k..(Len(s) - 1) : RemoveAt(s, k)[i] = s[i + 1]
<1> DEFINE a == SubSeq(s, 1, k - 1)
           b == SubSeq(s, k + 1, Len(s))
<1>1. /\ a \in Seq(S) /\ Len(a) = k - 1
      /\ \A i \in 1..(k - 1) : a[i] = s[i]
  BY SubSeqProperties
<1>2. /\ b \in Seq(S) /\ Len(b) = Len(s) - k
      /\ \A i \in 1..(Len(s) - k) : b[i] = s[k + i]
  BY SubSeqProperties
<1>3. RemoveAt(s, k) = a \o b
  BY DEF RemoveAt
<1> HIDE DEF a, b
<1>4. /\ a \o b \in Seq(S)
      /\ Len(a \o b) = Len(s) - 1
      /\ \A i \in 1..(k - 1) : (a \o b)[i] = a[i]
      /\ \A i \in k..(Len(s) - 1) : (a \o b)[i] = b[i - (k - 1)]
  BY <1>1, <1>2, ConcatProperties
<1>5. \A i \in k..(Len(s) - 1) : b[i - (k - 1)] = s[i + 1]
  <2> TAKE i \in k..(Len(s) - 1)
  <2>1. Len(s) \in Nat
    BY LenProperties
  <2>2. i - (k - 1) \in 1..(Len(s) - k) /\ k + (i - (k - 1)) = i + 1
    BY <2>1
  <2> QED
    BY <1>2, <2>2
<1> QED
  BY <1>1, <1>3, <1>4, <1>5

-----------------------------------------------------------------------------
(* Sequences without repetition *)

LEMMA InjectiveByPosition ==
  ASSUME NEW S, NEW s \in Seq(S)
  PROVE  IsInjective(s) <=> \A i, j \in 1..Len(s) : s[i] = s[j] => i = j
  BY LenProperties DEF IsInjective

\* Appending a new element.
LEMMA InjectiveAppend ==
  ASSUME NEW S, NEW s \in Seq(S), IsInjective(s), NEW e \in S, ~Contains(s, e)
  PROVE  IsInjective(Append(s, e))
<1>1. /\ Append(s, e) \in Seq(S) /\ Len(Append(s, e)) = Len(s) + 1 /\ Len(s) \in Nat
      /\ \A i \in 1..Len(s) : Append(s, e)[i] = s[i]
      /\ Append(s, e)[Len(s) + 1] = e
  BY AppendProperties, LenProperties
<1>2. \A i, j \in 1..Len(s) : s[i] = s[j] => i = j
  BY InjectiveByPosition
<1>3. \A i \in 1..Len(s) : s[i] # e
  BY DEF Contains
<1>4. \A i, j \in 1..(Len(s) + 1) : Append(s, e)[i] = Append(s, e)[j] => i = j
  BY <1>1, <1>2, <1>3
<1> QED
  BY <1>1, <1>4, InjectiveByPosition

\* Removing the element at a position; it is gone then.
LEMMA InjectiveRemoveAt ==
  ASSUME NEW S, NEW s \in Seq(S), IsInjective(s), NEW k \in 1..Len(s)
  PROVE  /\ IsInjective(RemoveAt(s, k))
         /\ ~Contains(RemoveAt(s, k), s[k])
<1>1. /\ RemoveAt(s, k) \in Seq(S) /\ Len(s) \in Nat
      /\ Len(RemoveAt(s, k)) = Len(s) - 1
      /\ \A i \in 1..(k - 1) : RemoveAt(s, k)[i] = s[i]
      /\ \A i \in k..(Len(s) - 1) : RemoveAt(s, k)[i] = s[i + 1]
  BY RemoveAtLemma, LenProperties
<1>2. \A i, j \in 1..Len(s) : s[i] = s[j] => i = j
  BY InjectiveByPosition
<1>3. \A i \in 1..(Len(s) - 1) :
        \E n \in 1..Len(s) : n = (IF i < k THEN i ELSE i + 1) /\ RemoveAt(s, k)[i] = s[n]
  <2> TAKE i \in 1..(Len(s) - 1)
  <2>1. CASE i < k
    BY <1>1, <2>1
  <2>2. CASE ~(i < k)
    BY <1>1, <2>2
  <2> QED
    BY <2>1, <2>2
<1>4. \A i, j \in 1..(Len(s) - 1) : RemoveAt(s, k)[i] = RemoveAt(s, k)[j] => i = j
  <2> TAKE i, j \in 1..(Len(s) - 1)
  <2>1. PICK n \in 1..Len(s) : n = (IF i < k THEN i ELSE i + 1) /\ RemoveAt(s, k)[i] = s[n]
    BY <1>3
  <2>2. PICK m \in 1..Len(s) : m = (IF j < k THEN j ELSE j + 1) /\ RemoveAt(s, k)[j] = s[m]
    BY <1>3
  <2>3. n = m => i = j
    BY <1>1, <2>1, <2>2
  <2> QED
    BY <1>2, <2>1, <2>2, <2>3
<1>5. \A i \in 1..(Len(s) - 1) : RemoveAt(s, k)[i] # s[k]
  <2> TAKE i \in 1..(Len(s) - 1)
  <2>1. PICK n \in 1..Len(s) : n = (IF i < k THEN i ELSE i + 1) /\ RemoveAt(s, k)[i] = s[n]
    BY <1>3
  <2>2. n # k
    BY <1>1, <2>1
  <2> QED
    BY <1>2, <2>1, <2>2
<1> QED
  BY <1>1, <1>4, <1>5, InjectiveByPosition DEF Contains

-----------------------------------------------------------------------------
(* Suffixes *)

\* The sequence s is the end of t, position by position.
EndOf(s, t) ==
  /\ Len(s) <= Len(t)
  /\ \A i \in 1..Len(s) : s[i] = t[(Len(t) - Len(s)) + i]

LEMMA ReverseProperties ==
  ASSUME NEW S, NEW s \in Seq(S)
  PROVE  /\ Reverse(s) \in Seq(S) /\ Len(Reverse(s)) = Len(s) /\ Len(s) \in Nat
         /\ \A i \in 1..Len(s) : Reverse(s)[i] = s[(Len(s) - i) + 1]
<1>1. Len(s) \in Nat
  BY LenProperties
<1>2. \A i \in 1..Len(s) : (Len(s) - i) + 1 \in 1..Len(s)
  BY <1>1
<1>3. \A i \in 1..Len(s) : s[(Len(s) - i) + 1] \in S
  BY <1>2, ElementOfSeq
<1> QED
  BY <1>1, <1>3 DEF Reverse

LEMMA SuffixByPosition ==
  ASSUME NEW S, NEW s \in Seq(S), NEW t \in Seq(S)
  PROVE  IsSuffix(s, t) <=> EndOf(s, t)
<1> DEFINE a == Reverse(s)
           b == Reverse(t)
           n == Len(s)
           m == Len(t)
<1>1. /\ a \in Seq(S) /\ Len(a) = n /\ n \in Nat
      /\ \A i \in 1..n : a[i] = s[(n - i) + 1]
  BY ReverseProperties
<1>2. /\ b \in Seq(S) /\ Len(b) = m /\ m \in Nat
      /\ \A i \in 1..m : b[i] = t[(m - i) + 1]
  BY ReverseProperties
<1>3. IsSuffix(s, t) <=> n <= m /\ SubSeq(a, 1, n) = SubSeq(b, 1, n)
  BY <1>1, <1>2 DEF IsSuffix, IsPrefix
<1>4. EndOf(s, t) <=> n <= m /\ \A i \in 1..n : s[i] = t[(m - n) + i]
  BY DEF EndOf
<1> HIDE DEF a, b, n, m
<1>5. ASSUME n <= m
      PROVE  SubSeq(a, 1, n) = SubSeq(b, 1, n) <=> \A i \in 1..n : a[i] = b[i]
  <2>1. /\ SubSeq(a, 1, n) \in Seq(S) /\ Len(SubSeq(a, 1, n)) = n
        /\ \A i \in 1..n : SubSeq(a, 1, n)[i] = a[i]
    <3>1. \A i \in 1..n : a[i] \in S
      BY <1>1, ElementOfSeq
    <3> QED
      BY <1>1, <3>1, SubSeqProperties
  <2>2. /\ SubSeq(b, 1, n) \in Seq(S) /\ Len(SubSeq(b, 1, n)) = n
        /\ \A i \in 1..n : SubSeq(b, 1, n)[i] = b[i]
    <3>1. \A i \in 1..n : b[i] \in S
      BY <1>1, <1>2, <1>5, ElementOfSeq
    <3> QED
      BY <1>1, <3>1, SubSeqProperties
  <2> QED
    BY <2>1, <2>2, SeqEqual
<1>6. ASSUME n <= m
      PROVE  (\A i \in 1..n : a[i] = b[i]) <=> \A i \in 1..n : s[i] = t[(m - n) + i]
  <2>1. \A i \in 1..n : (n - i) + 1 \in 1..n /\ (n - ((n - i) + 1)) + 1 = i
    BY <1>1
  <2>2. \A i \in 1..n : i \in 1..m /\ (m - i) + 1 = (m - n) + ((n - i) + 1)
    BY <1>1, <1>2, <1>6
  <2>3. \A i \in 1..n : a[i] = b[i] <=> s[(n - i) + 1] = t[(m - n) + ((n - i) + 1)]
    <3> SUFFICES ASSUME NEW i \in 1..n
                 PROVE  a[i] = b[i] <=> s[(n - i) + 1] = t[(m - n) + ((n - i) + 1)]
      OBVIOUS
    <3>1. a[i] = s[(n - i) + 1]
      BY <1>1
    <3>2. b[i] = t[(m - i) + 1]
      BY <1>2, <2>2
    <3>3. (m - i) + 1 = (m - n) + ((n - i) + 1)
      BY <2>2
    <3> QED
      BY <3>1, <3>2, <3>3
  <2> QED
    BY <2>1, <2>3
<1> QED
  BY <1>3, <1>4, <1>5, <1>6

LEMMA SuffixReflexive ==
  ASSUME NEW S, NEW s \in Seq(S)
  PROVE  IsSuffix(s, s)
<1>1. EndOf(s, s)
  BY LenProperties DEF EndOf
<1> QED
  BY <1>1, SuffixByPosition

LEMMA SuffixTransitive ==
  ASSUME NEW S, NEW s \in Seq(S), NEW t \in Seq(S), NEW u \in Seq(S),
         IsSuffix(s, t), IsSuffix(t, u)
  PROVE  IsSuffix(s, u)
<1> DEFINE n == Len(s)
           m == Len(t)
           l == Len(u)
<1>1. n \in Nat /\ m \in Nat /\ l \in Nat
  BY LenProperties
<1>2. n <= m /\ \A i \in 1..n : s[i] = t[(m - n) + i]
  BY SuffixByPosition DEF EndOf
<1>3. m <= l /\ \A i \in 1..m : t[i] = u[(l - m) + i]
  BY SuffixByPosition DEF EndOf
<1>4. EndOf(s, u) <=> n <= l /\ \A i \in 1..n : s[i] = u[(l - n) + i]
  BY DEF EndOf
<1> HIDE DEF n, m, l
<1>5. \A i \in 1..n : (m - n) + i \in 1..m /\ (l - m) + ((m - n) + i) = (l - n) + i
  BY <1>1, <1>2, <1>3
<1>6. \A i \in 1..n : s[i] = u[(l - n) + i]
  BY <1>2, <1>3, <1>5
<1> QED
  BY <1>1, <1>2, <1>3, <1>4, <1>6, SuffixByPosition

\* What is left of a sequence without its first elements.
LEMMA SuffixSubSeq ==
  ASSUME NEW S, NEW s \in Seq(S), NEW k \in 0..Len(s)
  PROVE  /\ SubSeq(s, k + 1, Len(s)) \in Seq(S)
         /\ IsSuffix(SubSeq(s, k + 1, Len(s)), s)
         /\ IsInjective(s) => IsInjective(SubSeq(s, k + 1, Len(s)))
<1> DEFINE r == SubSeq(s, k + 1, Len(s))
           n == Len(s)
<1>1. n \in Nat
  BY LenProperties
<1>2. \A i \in (k + 1)..n : s[i] \in S
  BY <1>1, ElementOfSeq
<1>3. r \in Seq(S) /\ Len(r) = n - k /\ \A i \in 1..(n - k) : r[i] = s[k + i]
  BY <1>1, <1>2, SubSeqProperties
<1>4. EndOf(r, s) <=> Len(r) <= n /\ \A i \in 1..Len(r) : r[i] = s[(n - Len(r)) + i]
  BY DEF EndOf
<1>5. IsInjective(s) => IsInjective(r)
  <2> SUFFICES ASSUME \A i, j \in 1..n : s[i] = s[j] => i = j
               PROVE  \A i, j \in 1..(n - k) : r[i] = r[j] => i = j
    BY <1>3, InjectiveByPosition
  <2> HIDE DEF r, n
  <2>1. k \in Nat /\ k <= n
    BY <1>1 DEF n
  <2>2. \A i \in 1..(n - k) : k + i \in 1..n
    BY <1>1, <2>1
  <2> TAKE i, j \in 1..(n - k)
  <2>3. r[i] = r[j] => k + i = k + j
    BY <1>3, <2>2
  <2> QED
    BY <2>1, <2>3
<1> HIDE DEF r, n
<1>6. k \in Nat /\ k <= n
  BY <1>1 DEF n
<1>7. EndOf(r, s)
  BY <1>1, <1>3, <1>4, <1>6
<1>8. IsSuffix(r, s)
  BY <1>3, <1>7, SuffixByPosition
<1> QED
  BY <1>3, <1>5, <1>8 DEF r, n


-----------------------------------------------------------------------------
(* Calls *)

\* A call for each member of a list of strategies is a list of calls.
LEMMA CallForEachType ==
  ASSUME NEW op \in {"subscribe", "unsubscribe"}, NEW s \in Seq(Strategies)
  PROVE  /\ CallForEach(op, s) \in Seq(Calls)
         /\ Len(CallForEach(op, s)) = Len(s)
         /\ \A i \in 1..Len(s) : CallForEach(op, s)[i] = Call(op, s[i])
<1>1. CallForEach(op, s) = [i \in 1..Len(s) |-> Call(op, s[i])]
  BY DEF CallForEach
<1>2. \A i \in 1..Len(s) : Call(op, s[i]) \in Calls
  BY DEF Call, Calls, Topics
<1> QED
  BY <1>1, <1>2

\* A one-call queue, and what a launch asks for.
LEMMA CallElements ==
  /\ \A c : Len(<<c>>) = 1 /\ <<c>>[1] = c
  /\ \A c, d : Len(<<c, d>>) = 2 /\ <<c, d>>[1] = c /\ <<c, d>>[2] = d
  /\ \A op, t, u : Call(op, t).topic = t /\ (Call(op, t) = Call("subscribe", u) => t = u /\ op = "subscribe")
  BY DEF Call

-----------------------------------------------------------------------------
(* Type correctness *)

\* Ask keeps the types of FCM's variables.
LEMMA AskType ==
  ASSUME TypeOK, NEW cs \in Seq(Calls), Ask(cs)
  PROVE  /\ fcmCalls' \in Seq(Calls)
         /\ waiting' \in 0..Len(fcmCalls')
         /\ topics' \subseteq Topics
         /\ lost' \subseteq Strategies /\ overtaken' \subseteq Strategies
<1>1. /\ fcmCalls' \in Seq(Calls) /\ Len(fcmCalls') = Len(fcmCalls) + Len(cs)
      /\ Len(fcmCalls) \in Nat /\ Len(cs) \in Nat
  BY ConcatProperties, LenProperties DEF TypeOK, Ask
<1>2. waiting' = waiting /\ waiting \in 0..Len(fcmCalls)
  BY DEF TypeOK, Ask
<1>3. waiting' \in 0..Len(fcmCalls')
  BY <1>1, <1>2
<1> QED
  BY <1>1, <1>3 DEF TypeOK, Ask

\* The calls without the next one, and the calls that do not wait.
LEMMA RemovedCalls ==
  ASSUME TypeOK
  PROVE  /\ Len(fcmCalls) \in Nat /\ waiting \in Nat
         /\ waiting < Len(fcmCalls) =>
              /\ waiting + 1 \in 1..Len(fcmCalls) /\ NextCall \in Calls
              /\ RemoveAt(fcmCalls, waiting + 1) \in Seq(Calls)
              /\ Len(RemoveAt(fcmCalls, waiting + 1)) = Len(fcmCalls) - 1
         /\ SubSeq(fcmCalls, waiting + 1, Len(fcmCalls)) \in Seq(Calls)
         /\ Len(SubSeq(fcmCalls, waiting + 1, Len(fcmCalls))) = Len(fcmCalls) - waiting
<1>1. /\ fcmCalls \in Seq(Calls) /\ Len(fcmCalls) \in Nat /\ waiting \in Nat
      /\ waiting <= Len(fcmCalls)
  BY LenProperties DEF TypeOK
<1>2. waiting < Len(fcmCalls) => waiting + 1 \in 1..Len(fcmCalls)
  BY <1>1
<1>3. waiting < Len(fcmCalls) => NextCall \in Calls
  BY <1>1, <1>2, ElementOfSeq DEF NextCall
<1>4. \A i \in (waiting + 1)..Len(fcmCalls) : fcmCalls[i] \in Calls
  BY <1>1, ElementOfSeq
<1> QED
  BY <1>1, <1>2, <1>3, <1>4, RemoveAtLemma, SubSeqProperties

\* What the handlers do to the tokens and the topics keeps their types.
LEMMA TakeEffectType ==
  ASSUME TypeOK, NEW cs, NEW token \in Tokens, TakeEffect(cs, token)
  PROVE  /\ topics' \subseteq Topics /\ savedTokens' \in Seq(Tokens)
         /\ savedTokens' = savedTokens \/ savedTokens' = Append(savedTokens, token)
<1>1. savedTokens' = savedTokens \/ savedTokens' = Append(savedTokens, token)
  BY Zenon DEF TakeEffect
<1>2. savedTokens \in Seq(Tokens) /\ Append(savedTokens, token) \in Seq(Tokens)
  BY AppendProperties DEF TypeOK
<1>3. topics' \subseteq Topics
  BY DEF TakeEffect
<1> QED
  BY <1>1, <1>2, <1>3

\* saveToFirebase keeps the types of the database's variables.
LEMMA SaveType ==
  ASSUME TypeOK, NEW ss \in Seq(Strategies), SaveToFirebase(ss)
  PROVE  /\ dbWrites' \in Seq(Records)
         /\ dbRecord' \in Records \cup {NoRecord}
         /\ writeLost' \in BOOLEAN
<1>1. CASE savedTokens = <<>>
  BY <1>1 DEF TypeOK, SaveToFirebase, dbVars
<1>2. CASE savedTokens # <<>>
  <2> DEFINE r == [user |-> Head(savedTokens), tokens |-> savedTokens, subscription |-> ss]
  <2>1. r \in Records
    BY <1>2, HeadTailProperties DEF TypeOK, Records
  <2>2. dbWrites' = Append(dbWrites, r) /\ writeLost' = FALSE /\ dbRecord' = dbRecord
    BY <1>2 DEF SaveToFirebase
  <2> HIDE DEF r
  <2> QED
    BY <2>1, <2>2, AppendProperties DEF TypeOK
<1> QED
  BY <1>1, <1>2

\* The calls of a launch, a follow and an unfollow.
LEMMA CallTypes ==
  /\ <<Call("token", NoTopic), Call("subscribe", TestTopic)>> \in Seq(Calls)
  /\ \A s \in Strategies : /\ <<Call("subscribe", s)>> \in Seq(Calls)
                           /\ <<Call("unsubscribe", s)>> \in Seq(Calls)
  BY DEF Call, Calls, Topics

LEMMA TypeInit == Init => TypeOK
<1>1. Init => waiting \in 0..Len(fcmCalls)
  BY EmptySeq DEF Init
<1>2. Init => fcmCalls \in Seq(Calls)
  BY EmptySeq DEF Init
<1> QED
  BY <1>1, <1>2, EmptySeq DEF Init, TypeOK

LEMMA TypeNext ==
  ASSUME TypeOK, [Next]_vars
  PROVE  TypeOK'
<1>1. CASE Launch
  <2> DEFINE cs == <<Call("token", NoTopic), Call("subscribe", TestTopic)>>
  <2>1. cs \in Seq(Calls) /\ Ask(cs)
    BY <1>1, CallTypes DEF Launch
  <2> HIDE DEF cs
  <2>2. /\ fcmCalls' \in Seq(Calls) /\ waiting' \in 0..Len(fcmCalls') /\ topics' \subseteq Topics
        /\ lost' \subseteq Strategies /\ overtaken' \subseteq Strategies
    BY <2>1, AskType
  <2> QED
    BY <1>1, <2>2, EmptySeq DEF Launch, TypeOK, dbVars
<1>2. CASE OpenStrategyTab
  <2>1. CallForEach("subscribe", savedStrats) \in Seq(Calls)
    BY CallForEachType DEF TypeOK
  <2>2. Ask(CallForEach("subscribe", savedStrats))
    BY <1>2 DEF OpenStrategyTab
  <2>3. /\ fcmCalls' \in Seq(Calls) /\ waiting' \in 0..Len(fcmCalls') /\ topics' \subseteq Topics
        /\ lost' \subseteq Strategies /\ overtaken' \subseteq Strategies
    BY <2>1, <2>2, AskType
  <2>4. /\ viewLoaded' = TRUE /\ subscribedStrats' = savedStrats /\ trimmed' = {}
        /\ UNCHANGED <<running, savedStrats, savedTokens, dbVars>>
    BY <1>2 DEF OpenStrategyTab
  <2>5. /\ subscribedStrats' \in Seq(Strategies) /\ savedStrats' \in Seq(Strategies)
        /\ savedTokens' \in Seq(Tokens) /\ running' \in BOOLEAN
    BY <2>4 DEF TypeOK
  <2>6. /\ dbWrites' \in Seq(Records) /\ dbRecord' \in Records \cup {NoRecord}
        /\ writeLost' \in BOOLEAN
    BY <2>4 DEF TypeOK, dbVars
  <2> QED
    BY <2>3, <2>4, <2>5, <2>6 DEF TypeOK
<1>3. CASE Quit
  <2>1. Len(fcmCalls') = 0 /\ fcmCalls' \in Seq(Calls) /\ waiting' = 0
    BY <1>3, EmptySeq DEF Quit
  <2>2. writeLost' \in BOOLEAN /\ lost' \subseteq Strategies
    BY <1>3, Zenon DEF Quit, TypeOK
  <2>3. /\ subscribedStrats' \in Seq(Strategies) /\ dbWrites' \in Seq(Records)
        /\ running' = FALSE /\ viewLoaded' = FALSE /\ trimmed' = {}
        /\ UNCHANGED <<savedStrats, savedTokens, topics, overtaken, dbRecord>>
    BY <1>3, EmptySeq DEF Quit
  <2>4. /\ fcmCalls' \in Seq(Calls) /\ waiting' \in 0..Len(fcmCalls')
    BY <2>1
  <2>5. /\ savedStrats' \in Seq(Strategies) /\ savedTokens' \in Seq(Tokens)
        /\ topics' \subseteq Topics /\ overtaken' \subseteq Strategies
        /\ dbRecord' \in Records \cup {NoRecord}
    BY <2>3 DEF TypeOK
  <2> QED
    BY <2>2, <2>3, <2>4, <2>5 DEF TypeOK
<1>4. ASSUME NEW s \in Strategies, NEW b \in Bounds, Subscribe(s, b)
      PROVE  TypeOK'
  <2>1. subscribedStrats' \in Seq(Strategies) /\ savedStrats' \in Seq(Strategies)
    BY <1>4 DEF Subscribe, TypeOK
  <2>2. Ask(<<Call("subscribe", s)>>) /\ SaveToFirebase(savedStrats')
    BY <1>4 DEF Subscribe
  <2>3. UNCHANGED <<running, viewLoaded, savedTokens>> /\ trimmed' \subseteq Strategies
    BY <1>4 DEF Subscribe, TypeOK
  <2> QED
    BY <2>1, <2>2, <2>3, CallTypes, AskType, SaveType DEF TypeOK
<1>5. ASSUME NEW s \in Strategies, Unsubscribe(s)
      PROVE  TypeOK'
  <2>1. subscribedStrats' \in Seq(Strategies) /\ savedStrats' = subscribedStrats'
    BY <1>5, RemoveAtLemma DEF Unsubscribe, TypeOK
  <2>2. Ask(<<Call("unsubscribe", s)>>) /\ SaveToFirebase(savedStrats')
    BY <1>5 DEF Unsubscribe
  <2>3. UNCHANGED <<running, viewLoaded, savedTokens, trimmed>>
    BY <1>5 DEF Unsubscribe
  <2> QED
    BY <2>1, <2>2, <2>3, CallTypes, AskType, SaveType DEF TypeOK
<1>6. ASSUME NEW b \in Bounds, UnsubscribeIfNecessary(b)
      PROVE  TypeOK'
  <2>1. CASE Len(savedStrats) <= b
    BY <1>6, <2>1 DEF UnsubscribeIfNecessary, vars, listVars, fcmVars, dbVars, TypeOK
  <2>2. CASE ~(Len(savedStrats) <= b)
    <3> DEFINE n == Len(savedStrats) - b
               removed == SubSeq(savedStrats, 1, n)
    <3>1. b \in Nat /\ n \in Int /\ n <= Len(savedStrats)
      BY FollowListAssumption DEF TypeOK
    <3>2. removed \in Seq(Strategies)
      BY <3>1, SubSeqProperties DEF TypeOK
    <3>3. SubSeq(savedStrats, n + 1, Len(savedStrats)) \in Seq(Strategies)
      BY <3>1, <2>2, SubSeqProperties DEF TypeOK
    <3>4. ToSet(removed) \subseteq Strategies
      BY <3>2, ElementOfSeq, LenProperties DEF ToSet
    <3>5. CallForEach("unsubscribe", removed) \in Seq(Calls)
      BY <3>2, CallForEachType
    <3>6. /\ savedStrats' = SubSeq(savedStrats, n + 1, Len(savedStrats))
          /\ trimmed' = trimmed \cup ToSet(removed)
          /\ Ask(CallForEach("unsubscribe", removed))
          /\ UNCHANGED <<running, viewLoaded, subscribedStrats, savedTokens, dbVars>>
      BY <1>6, <2>2 DEF UnsubscribeIfNecessary
    <3> HIDE DEF n, removed
    <3> QED
      BY <3>3, <3>4, <3>5, <3>6, AskType DEF TypeOK, dbVars
  <2> QED
    BY <2>1, <2>2
<1>7. ASSUME NEW token \in Tokens, ServedFromCache(token)
      PROVE  TypeOK'
  <2>1. /\ fcmCalls' \in Seq(Calls) /\ waiting' \in 0..Len(fcmCalls')
    BY <1>7, RemovedCalls DEF ServedFromCache
  <2>2. topics' \subseteq Topics /\ savedTokens' \in Seq(Tokens)
    BY <1>7, TakeEffectType DEF ServedFromCache
  <2>3. overtaken' \subseteq Strategies
    BY <1>7, Zenon DEF ServedFromCache, TypeOK
  <2>4. UNCHANGED <<running, viewLoaded, subscribedStrats, savedStrats, dbVars, trimmed, lost>>
    BY <1>7 DEF ServedFromCache
  <2> QED
    BY <2>1, <2>2, <2>3, <2>4 DEF TypeOK, dbVars
<1>8. CASE JoinsWaiting
  <2>1. waiting' \in 0..Len(fcmCalls')
    BY <1>8, RemovedCalls DEF JoinsWaiting
  <2> QED
    BY <1>8, <2>1 DEF JoinsWaiting, TypeOK, listVars, dbVars
<1>9. ASSUME NEW token \in Tokens, DefaultTokenArrives(token)
      PROVE  TypeOK'
  <2>1. /\ fcmCalls' \in Seq(Calls) /\ waiting' \in 0..Len(fcmCalls')
    BY <1>9, RemovedCalls, LenProperties DEF DefaultTokenArrives
  <2>2. topics' \subseteq Topics /\ savedTokens' \in Seq(Tokens)
    BY <1>9, TakeEffectType DEF DefaultTokenArrives
  <2>3. UNCHANGED <<running, viewLoaded, subscribedStrats, savedStrats, dbVars, trimmed, lost, overtaken>>
    BY <1>9 DEF DefaultTokenArrives
  <2> QED
    BY <2>1, <2>2, <2>3 DEF TypeOK, dbVars
<1>10. CASE CallFails
  <2>1. /\ fcmCalls' \in Seq(Calls) /\ waiting' \in 0..Len(fcmCalls')
    <3>1. CASE IdFails
      BY <3>1, RemovedCalls DEF IdFails
    <3>2. CASE DefaultTokenFails
      BY <3>2, RemovedCalls DEF DefaultTokenFails
    <3> QED
      BY <1>10, <3>1, <3>2 DEF CallFails
  <2>2. lost' \subseteq Strategies
    <3>1. CASE IdFails
      BY <3>1, Zenon DEF IdFails, TypeOK
    <3>2. CASE DefaultTokenFails
      BY <3>2 DEF DefaultTokenFails, TypeOK
    <3> QED
      BY <1>10, <3>1, <3>2 DEF CallFails
  <2>3. UNCHANGED <<running, viewLoaded, listVars, topics, overtaken, dbVars, trimmed>>
    BY <1>10 DEF CallFails, IdFails, DefaultTokenFails
  <2> QED
    BY <2>1, <2>2, <2>3 DEF TypeOK, listVars, dbVars
<1>11. CASE WriteLands
  <2>1. Tail(dbWrites) \in Seq(Records) /\ Head(dbWrites) \in Records
    BY <1>11, HeadTailProperties DEF WriteLands, TypeOK
  <2> QED
    BY <1>11, <2>1 DEF WriteLands, TypeOK, listVars, fcmVars
<1>12. CASE UNCHANGED vars
  BY <1>12 DEF vars, listVars, fcmVars, dbVars, TypeOK
<1> QED
  BY <1>1, <1>2, <1>3, <1>4, <1>5, <1>6, <1>7, <1>8, <1>9, <1>10, <1>11, <1>12
     DEF Next, Follow, Unfollow, Trim, Proceed, Deliver

\* TypeOK holds of every behaviour of the list, for all constants.
THEOREM TypeCorrect == Spec => []TypeOK
  BY TypeInit, TypeNext, PTL DEF Spec

-----------------------------------------------------------------------------
(* Calls that take effect or get an error.  What is left of the queue is   *)
(* the calls at some of its positions, in their order.                     *)

\* The calls ds are those of cs at the positions K.
KeptAt(ds, cs, K) ==
  \E f \in [1..Len(ds) -> 1..Len(cs)] :
    /\ \A i, j \in 1..Len(ds) : i < j <=> f[i] < f[j]
    /\ \A i \in 1..Len(ds) : ds[i] = cs[f[i]]
    /\ K = {f[i] : i \in 1..Len(ds)}

\* What the calls of cs at the positions K promise of the topic t, when the
\* topics T are registered.
PromisedAt(cs, K, T, t) ==
  \/ t \in T /\ \A i \in K : cs[i].topic # t
  \/ \E i \in K : /\ cs[i] = Call("subscribe", t)
                 /\ \A j \in K : j > i => cs[j].topic # t

LEMMA KeptCalls ==
  ASSUME NEW cs \in Seq(Calls), NEW ds \in Seq(Calls), NEW K, KeptAt(ds, cs, K),
         NEW t, NEW T
  PROVE  /\ About(ds, t) <=> \E k \in K : cs[k].topic = t
         /\ PromisedAt(cs, K, T, t) <=> (t \in T /\ ~About(ds, t)) \/ AsksLast(ds, "subscribe", t)
<1>1. PICK f \in [1..Len(ds) -> 1..Len(cs)] :
        /\ \A i, j \in 1..Len(ds) : i < j <=> f[i] < f[j]
        /\ \A i \in 1..Len(ds) : ds[i] = cs[f[i]]
        /\ K = {f[i] : i \in 1..Len(ds)}
  BY DEF KeptAt
<1>2. DOMAIN ds = 1..Len(ds) /\ Len(ds) \in Nat /\ Len(cs) \in Nat
  BY LenProperties
<1>3. \A i \in 1..Len(ds) : f[i] \in K
  BY <1>1
<1>4. \A k \in K : \E i \in 1..Len(ds) : f[i] = k
  BY <1>1
<1>5. About(ds, t) <=> \E k \in K : cs[k].topic = t
  <2>1. About(ds, t) <=> \E i \in 1..Len(ds) : ds[i].topic = t
    BY <1>2 DEF About
  <2>2. ASSUME NEW i \in 1..Len(ds), ds[i].topic = t
        PROVE  \E k \in K : cs[k].topic = t
    BY <1>1, <1>3, <2>2
  <2>3. ASSUME NEW k \in K, cs[k].topic = t
        PROVE  \E i \in 1..Len(ds) : ds[i].topic = t
    BY <1>1, <1>4, <2>3
  <2> QED
    BY <2>1, <2>2, <2>3
<1>6. ASSUME NEW i \in 1..Len(ds), ds[i] = Call("subscribe", t),
             \A j \in 1..Len(ds) : j > i => ds[j].topic # t
      PROVE  \E k \in K : cs[k] = Call("subscribe", t) /\ \A j \in K : j > k => cs[j].topic # t
  <2>1. f[i] \in K /\ cs[f[i]] = Call("subscribe", t)
    BY <1>1, <1>3, <1>6
  <2>2. \A j \in K : j > f[i] => cs[j].topic # t
    <3> SUFFICES ASSUME NEW j \in K, j > f[i] PROVE cs[j].topic # t
      OBVIOUS
    <3>1. PICK n \in 1..Len(ds) : f[n] = j
      BY <1>4
    <3>2. f[n] \in Nat /\ f[i] \in Nat /\ f[i] < f[n]
      BY <1>2, <3>1
    <3>3. i < n
      BY <1>1, <3>2
    <3> QED
      BY <1>1, <1>6, <3>1, <3>3
  <2> QED
    BY <2>1, <2>2
<1>7. ASSUME NEW k \in K, cs[k] = Call("subscribe", t), \A j \in K : j > k => cs[j].topic # t
      PROVE  \E i \in 1..Len(ds) : ds[i] = Call("subscribe", t) /\ \A j \in 1..Len(ds) : j > i => ds[j].topic # t
  <2>1. PICK i \in 1..Len(ds) : f[i] = k
    BY <1>4
  <2>2. \A j \in 1..Len(ds) : j > i => ds[j].topic # t
    <3> SUFFICES ASSUME NEW j \in 1..Len(ds), j > i PROVE ds[j].topic # t
      OBVIOUS
    <3>1. f[i] < f[j] /\ f[i] \in Nat /\ f[j] \in Nat
      BY <1>1, <1>2
    <3>2. f[j] \in K /\ f[j] > k
      BY <1>3, <2>1, <3>1
    <3> QED
      BY <1>1, <1>7, <3>2
  <2> QED
    BY <1>1, <1>7, <2>1, <2>2
<1>8. AsksLast(ds, "subscribe", t) <=>
        \E k \in K : cs[k] = Call("subscribe", t) /\ \A j \in K : j > k => cs[j].topic # t
  BY <1>2, <1>6, <1>7 DEF AsksLast
<1>9. PromisedAt(cs, K, T, t) <=>
        \/ t \in T /\ ~ \E k \in K : cs[k].topic = t
        \/ \E k \in K : cs[k] = Call("subscribe", t) /\ \A j \in K : j > k => cs[j].topic # t
  BY DEF PromisedAt
<1> QED
  BY <1>5, <1>8, <1>9, Zenon

\* Removing the call at k keeps the others; leaving out the first w keeps the rest.
LEMMA KeptRemoveAt ==
  ASSUME NEW cs \in Seq(Calls), NEW k \in 1..Len(cs)
  PROVE  /\ RemoveAt(cs, k) \in Seq(Calls)
         /\ KeptAt(RemoveAt(cs, k), cs, (1..Len(cs)) \ {k})
<1> DEFINE ds == RemoveAt(cs, k)
           n == Len(cs)
           f == [i \in 1..Len(ds) |-> IF i < k THEN i ELSE i + 1]
<1>1. /\ ds \in Seq(Calls) /\ Len(ds) = n - 1 /\ n \in Nat
      /\ \A i \in 1..(k - 1) : ds[i] = cs[i]
      /\ \A i \in k..(n - 1) : ds[i] = cs[i + 1]
  BY RemoveAtLemma, LenProperties
<1>2. k \in 1..n
  OBVIOUS
<1> HIDE DEF ds, n
<1>3. \A i \in 1..(n - 1) : f[i] = (IF i < k THEN i ELSE i + 1)
  BY <1>1
<1>4. f \in [1..Len(ds) -> 1..n]
  BY <1>1, <1>2
<1> HIDE DEF f
<1>5. \A i, j \in 1..(n - 1) : i < j <=> f[i] < f[j]
  BY <1>1, <1>2, <1>3
<1>6. \A i \in 1..(n - 1) : ds[i] = cs[f[i]]
  <2> TAKE i \in 1..(n - 1)
  <2>1. CASE i < k
    BY <1>1, <1>2, <1>3, <2>1
  <2>2. CASE ~(i < k)
    BY <1>1, <1>2, <1>3, <2>2
  <2> QED
    BY <2>1, <2>2
<1>7. \A i \in 1..(n - 1) : f[i] \in (1..n) \ {k}
  BY <1>1, <1>2, <1>3
<1>8. \A j \in (1..n) \ {k} : \E i \in 1..(n - 1) : f[i] = j
  <2> TAKE j \in (1..n) \ {k}
  <2>1. CASE j < k
    <3>1. j \in 1..(n - 1) /\ f[j] = j
      BY <1>1, <1>2, <1>3, <2>1
    <3> QED
      BY <3>1
  <2>2. CASE j > k
    <3>1. j - 1 \in 1..(n - 1) /\ ~(j - 1 < k) /\ (j - 1) + 1 = j
      BY <1>1, <1>2, <2>2
    <3>2. f[j - 1] = j
      BY <1>3, <3>1
    <3> QED
      BY <3>1, <3>2
  <2> QED
    BY <1>1, <1>2, <2>1, <2>2
<1>9. (1..n) \ {k} = {f[i] : i \in 1..(n - 1)}
  BY <1>7, <1>8
<1> QED
  BY <1>1, <1>4, <1>5, <1>6, <1>9 DEF KeptAt, ds, n

LEMMA KeptRest ==
  ASSUME NEW cs \in Seq(Calls), NEW w \in 0..Len(cs)
  PROVE  /\ SubSeq(cs, w + 1, Len(cs)) \in Seq(Calls)
         /\ KeptAt(SubSeq(cs, w + 1, Len(cs)), cs, (w + 1)..Len(cs))
<1> DEFINE ds == SubSeq(cs, w + 1, Len(cs))
           n == Len(cs)
           f == [i \in 1..Len(ds) |-> w + i]
<1>1. n \in Nat /\ w \in 0..n
  BY LenProperties
<1>2. \A i \in (w + 1)..n : cs[i] \in Calls
  BY <1>1, ElementOfSeq
<1>3. /\ ds \in Seq(Calls) /\ Len(ds) = n - w
      /\ \A i \in 1..(n - w) : ds[i] = cs[w + i]
  BY <1>1, <1>2, SubSeqProperties
<1> HIDE DEF ds, n
<1>4. \A i \in 1..(n - w) : f[i] = w + i
  BY <1>3
<1>5. f \in [1..Len(ds) -> 1..n]
  BY <1>1, <1>3
<1> HIDE DEF f
<1>6. /\ \A i, j \in 1..(n - w) : i < j <=> f[i] < f[j]
      /\ \A i \in 1..(n - w) : f[i] \in (w + 1)..n
  BY <1>1, <1>4
<1>7. \A j \in (w + 1)..n : j - w \in 1..(n - w) /\ w + (j - w) = j
  BY <1>1
<1>8. (w + 1)..n = {f[i] : i \in 1..(n - w)}
  BY <1>4, <1>6, <1>7
<1> QED
  BY <1>3, <1>4, <1>5, <1>6, <1>8 DEF KeptAt, ds, n

\* Among the positions below k that hold calls about a topic one is the last.
LEMMA LastBelow ==
  ASSUME NEW n \in Nat, NEW S \in SUBSET (1..n), S # {}
  PROVE  \E x \in S : \A y \in S : y <= x
<1> DEFINE T == {n - x : x \in S}
<1>0. \A x \in S : n - x \in Nat
  OBVIOUS
<1>1. T \in SUBSET Nat /\ T # {}
  BY <1>0
<1>2. PICK a \in T : \A b \in T : <<b, a>> \notin OpToRel(<, Nat)
  BY <1>1, NatLessThanWellFounded, WFMin
<1>3. PICK x \in S : a = n - x
  BY <1>2
<1>4. \A y \in S : y <= x
  <2> SUFFICES ASSUME NEW y \in S, y > x PROVE FALSE
    OBVIOUS
  <2>1. n - y \in Nat /\ a \in Nat /\ n - y < a /\ n - y \in T
    BY <1>3
  <2>2. <<n - y, a>> \in OpToRel(<, Nat)
    BY <2>1 DEF OpToRel
  <2> QED
    BY <1>2, <2>1, <2>2
<1> QED
  BY <1>4

\* The promise by positions, before and after a step that leaves the calls at K.
LEMMA PromiseBefore ==
  ASSUME TypeOK, NEW t \in Strategies
  PROVE  /\ WillBeRegistered(t) <=> PromisedAt(fcmCalls, 1..Len(fcmCalls), topics, t)
         /\ \A i \in 1..Len(fcmCalls) : fcmCalls[i].topic = t =>
              fcmCalls[i] = Call("subscribe", t) \/ fcmCalls[i] = Call("unsubscribe", t)
<1>1. fcmCalls \in Seq(Calls) /\ DOMAIN fcmCalls = 1..Len(fcmCalls)
  BY LenProperties DEF TypeOK
<1>2. \A i \in 1..Len(fcmCalls) : fcmCalls[i] \in Calls
  BY <1>1, ElementOfSeq
<1>3. t # NoTopic
  BY FollowListAssumption DEF Topics
<1>4. \A c \in Calls : c.topic = t => c = Call("subscribe", t) \/ c = Call("unsubscribe", t)
  BY <1>3 DEF Calls, Call
<1>5. WillBeRegistered(t) <=> PromisedAt(fcmCalls, 1..Len(fcmCalls), topics, t)
  BY <1>1 DEF WillBeRegistered, Asked, About, AsksLast, PromisedAt
<1> QED
  BY <1>2, <1>4, <1>5

LEMMA PromiseAfter ==
  ASSUME TypeOK, NEW ds \in Seq(Calls), NEW K, KeptAt(ds, fcmCalls, K), fcmCalls' = ds, NEW t
  PROVE  /\ WillBeRegistered(t)' <=> PromisedAt(fcmCalls, K, topics', t)
         /\ About(ds, t) <=> \E k \in K : fcmCalls[k].topic = t
<1>1. fcmCalls \in Seq(Calls)
  BY DEF TypeOK
<1>2. /\ About(ds, t) <=> \E k \in K : fcmCalls[k].topic = t
      /\ PromisedAt(fcmCalls, K, topics', t) <=>
           (t \in topics' /\ ~About(ds, t)) \/ AsksLast(ds, "subscribe", t)
  BY <1>1, KeptCalls
<1>3. WillBeRegistered(t)' <=> (t \in topics' /\ ~About(ds, t)) \/ AsksLast(ds, "subscribe", t)
  BY DEF WillBeRegistered, Asked, About, AsksLast
<1> QED
  BY <1>2, <1>3

\* The fields of a call.
LEMMA CallFields ==
  \A op, t : Call(op, t).op = op /\ Call(op, t).topic = t
  BY DEF Call

\* Taking out the call at k, and doing what it asks, changes no promise if no
\* contrary call before it becomes the last one.
LEMMA TakenOut ==
  ASSUME NEW cs, NEW n \in Nat, NEW k \in 1..n, NEW T, NEW T2, NEW t,
         \A i \in 1..n : cs[i].topic = t =>
           cs[i] = Call("subscribe", t) \/ cs[i] = Call("unsubscribe", t),
         t \in T2 <=> cs[k] = Call("subscribe", t) \/ (t \in T /\ cs[k].topic # t),
         ~ \E i \in 1..(k - 1) : /\ cs[i].topic = t /\ cs[k].topic = t /\ cs[i].op # cs[k].op
                                /\ \A j \in 1..n : j > i /\ cs[j].topic = t => j = k
  PROVE  PromisedAt(cs, (1..n) \ {k}, T2, t) <=> PromisedAt(cs, 1..n, T, t)
<1> DEFINE K == (1..n) \ {k}
<1>1. /\ Call("subscribe", t).topic = t /\ Call("unsubscribe", t).topic = t
      /\ Call("subscribe", t).op # Call("unsubscribe", t).op
  BY CallFields
<1>2. ASSUME PromisedAt(cs, K, T2, t)
      PROVE  PromisedAt(cs, 1..n, T, t)
  <2>1. CASE t \in T2 /\ \A i \in K : cs[i].topic # t
    <3>1. CASE cs[k] = Call("subscribe", t)
      <4>1. \A j \in 1..n : j > k => cs[j].topic # t
        BY <2>1
      <4> QED
        BY <3>1, <4>1 DEF PromisedAt
    <3>2. CASE t \in T /\ cs[k].topic # t
      BY <2>1, <3>2 DEF PromisedAt
    <3> QED
      BY <2>1, <3>1, <3>2
  <2>2. ASSUME NEW i \in K, cs[i] = Call("subscribe", t),
               \A j \in K : j > i => cs[j].topic # t
        PROVE  PromisedAt(cs, 1..n, T, t)
    <3>1. CASE cs[k].topic # t \/ k < i
      <4>1. \A j \in 1..n : j > i => cs[j].topic # t
        BY <2>2, <3>1
      <4> QED
        BY <2>2, <4>1 DEF PromisedAt
    <3>2. CASE cs[k].topic = t /\ k > i
      <4>1. i \in 1..(k - 1) /\ \A j \in 1..n : j > i /\ cs[j].topic = t => j = k
        BY <2>2, <3>2
      <4>2. cs[k].op = cs[i].op
        BY <1>1, <2>2, <3>2, <4>1
      <4>3. cs[k] = Call("subscribe", t)
        BY <1>1, <2>2, <3>2, <4>2
      <4>4. \A j \in 1..n : j > k => cs[j].topic # t
        BY <3>2, <4>1
      <4> QED
        BY <4>3, <4>4 DEF PromisedAt
    <3>3. k # i /\ k \in Int /\ i \in Int
      BY <2>2
    <3> QED
      BY <3>1, <3>2, <3>3
  <2> QED
    BY <1>2, <2>1, <2>2 DEF PromisedAt
<1>3. ASSUME PromisedAt(cs, 1..n, T, t)
      PROVE  PromisedAt(cs, K, T2, t)
  <2>1. CASE t \in T /\ \A i \in 1..n : cs[i].topic # t
    BY <2>1 DEF PromisedAt
  <2>2. ASSUME NEW i \in 1..n, cs[i] = Call("subscribe", t),
               \A j \in 1..n : j > i => cs[j].topic # t
        PROVE  PromisedAt(cs, K, T2, t)
    <3>1. CASE i # k
      BY <2>2, <3>1 DEF PromisedAt
    <3>2. CASE i = k
      <4>1. t \in T2
        BY <2>2, <3>2
      <4> DEFINE S == {j \in K : cs[j].topic = t}
      <4>2. CASE S = {}
        BY <4>1, <4>2 DEF PromisedAt
      <4>3. CASE S # {}
        <5>0. S \in SUBSET (1..n)
          OBVIOUS
        <5>1. PICK x \in S : \A y \in S : y <= x
          BY <4>3, <5>0, LastBelow
        <5>2. x \in K /\ x \in 1..n /\ cs[x].topic = t
          BY <5>1
        <5>3. \A j \in K : cs[j].topic = t => j <= x
          BY <5>1
        <5> HIDE DEF S
        <5>4. \A j \in K : j > x => cs[j].topic # t
          BY <5>2, <5>3
        <5>5. x < k
          BY <2>2, <3>2, <5>2
        <5>6. x \in 1..(k - 1) /\ \A j \in 1..n : j > x /\ cs[j].topic = t => j = k
          BY <5>2, <5>4, <5>5
        <5>7. cs[k] = Call("subscribe", t)
          BY <2>2, <3>2
        <5>8. cs[x].op = cs[k].op
          BY <1>1, <5>2, <5>6, <5>7
        <5>9. cs[x] = Call("subscribe", t)
          BY <1>1, <5>2, <5>7, <5>8
        <5> QED
          BY <5>2, <5>4, <5>9 DEF PromisedAt
      <4> QED
        BY <4>2, <4>3
    <3> QED
      BY <3>1, <3>2
  <2> QED
    BY <1>3, <2>1, <2>2 DEF PromisedAt
<1> QED
  BY <1>2, <1>3

\* Dropping the call at k changes no promise if a later call is about its topic.
LEMMA Dropped ==
  ASSUME NEW cs, NEW n \in Nat, NEW k \in 1..n, NEW T, NEW t,
         cs[k].topic = t => \E j \in 1..n : j > k /\ cs[j].topic = t
  PROVE  PromisedAt(cs, (1..n) \ {k}, T, t) <=> PromisedAt(cs, 1..n, T, t)
<1> DEFINE K == (1..n) \ {k}
<1>1. Call("subscribe", t).topic = t
  BY CallFields
<1>2. ASSUME PromisedAt(cs, K, T, t)
      PROVE  PromisedAt(cs, 1..n, T, t)
  <2>1. CASE t \in T /\ \A i \in K : cs[i].topic # t
    BY <2>1 DEF PromisedAt
  <2>2. ASSUME NEW i \in K, cs[i] = Call("subscribe", t), \A j \in K : j > i => cs[j].topic # t
        PROVE  PromisedAt(cs, 1..n, T, t)
    <3>1. \A j \in 1..n : j > i => cs[j].topic # t
      <4> SUFFICES ASSUME NEW j \in 1..n, j > i, cs[j].topic = t PROVE FALSE
        OBVIOUS
      <4>1. j = k
        BY <2>2
      <4>2. PICK m \in 1..n : m > k /\ cs[m].topic = t
        BY <4>1
      <4>3. m \in K /\ m > i
        BY <4>1, <4>2
      <4> QED
        BY <2>2, <4>2, <4>3
    <3> QED
      BY <2>2, <3>1 DEF PromisedAt
  <2> QED
    BY <1>2, <2>1, <2>2 DEF PromisedAt
<1>3. ASSUME PromisedAt(cs, 1..n, T, t)
      PROVE  PromisedAt(cs, K, T, t)
  <2>1. CASE t \in T /\ \A i \in 1..n : cs[i].topic # t
    BY <2>1 DEF PromisedAt
  <2>2. ASSUME NEW i \in 1..n, cs[i] = Call("subscribe", t), \A j \in 1..n : j > i => cs[j].topic # t
        PROVE  PromisedAt(cs, K, T, t)
    <3>1. i # k
      BY <1>1, <2>2
    <3> QED
      BY <2>2, <3>1 DEF PromisedAt
  <2> QED
    BY <1>3, <2>1, <2>2 DEF PromisedAt
<1> QED
  BY <1>2, <1>3

\* Taking out the first w calls changes no promise if what they ask for is
\* done (first case), or if a later call is about each of their topics.
LEMMA FirstTakenOut ==
  ASSUME NEW cs, NEW n \in Nat, NEW w \in 0..n, NEW T, NEW T2, NEW t,
         \/ t \in T2 <=> PromisedAt(cs, 1..w, T, t)
         \/ /\ T2 = T
            /\ (\E i \in 1..w : cs[i].topic = t) => \E j \in (w + 1)..n : cs[j].topic = t
  PROVE  PromisedAt(cs, (w + 1)..n, T2, t) <=> PromisedAt(cs, 1..n, T, t)
<1>1. Call("subscribe", t).topic = t
  BY CallFields
<1>2. CASE \E j \in (w + 1)..n : cs[j].topic = t
  <2>1. ASSUME NEW i \in (w + 1)..n
        PROVE  (\A j \in (w + 1)..n : j > i => cs[j].topic # t) <=>
                 (\A j \in 1..n : j > i => cs[j].topic # t)
    OBVIOUS
  <2>2. ~ \E i \in 1..w : \A j \in 1..n : j > i => cs[j].topic # t
    BY <1>2
  <2>3. PromisedAt(cs, (w + 1)..n, T2, t) <=>
          \E i \in (w + 1)..n : cs[i] = Call("subscribe", t) /\ \A j \in 1..n : j > i => cs[j].topic # t
    BY <1>2, <2>1 DEF PromisedAt
  <2>4. PromisedAt(cs, 1..n, T, t) <=>
          \E i \in 1..n : cs[i] = Call("subscribe", t) /\ \A j \in 1..n : j > i => cs[j].topic # t
    <3>1. \E j \in 1..n : cs[j].topic = t
      BY <1>2
    <3> QED
      BY <3>1 DEF PromisedAt
  <2>5. \A i \in 1..n : i \in 1..w \/ i \in (w + 1)..n
    OBVIOUS
  <2>6. \A i \in (w + 1)..n : i \in 1..n
    OBVIOUS
  <2> QED
    BY <2>2, <2>3, <2>4, <2>5, <2>6
<1>3. CASE ~ \E j \in (w + 1)..n : cs[j].topic = t
  <2>1. PromisedAt(cs, (w + 1)..n, T2, t) <=> t \in T2
    BY <1>1, <1>3 DEF PromisedAt
  <2>2. \A i \in 1..n : cs[i].topic = t => i \in 1..w
    BY <1>3
  <2>3. \A i \in 1..w : i \in 1..n
    OBVIOUS
  <2>4. PromisedAt(cs, 1..n, T, t) <=> PromisedAt(cs, 1..w, T, t)
    BY <1>1, <2>2, <2>3 DEF PromisedAt
  <2>5. (T2 = T /\ ~ \E i \in 1..w : cs[i].topic = t) => (t \in T2 <=> PromisedAt(cs, 1..w, T, t))
    BY <1>1 DEF PromisedAt
  <2> QED
    BY <1>3, <2>1, <2>4, <2>5
<1> QED
  BY <1>2, <1>3

\* A call served from the cache changes what is promised of a strategy only
\* if it overtakes a contrary one.
LEMMA ServedPromise ==
  ASSUME TypeOK, NEW token, ServedFromCache(token), NEW t \in Strategies, t \notin overtaken'
  PROVE  WillBeRegistered(t)' <=> WillBeRegistered(t)
<1>1. PICK n, k : n = Len(fcmCalls) /\ k = waiting + 1
  OBVIOUS
<1>2. /\ fcmCalls' = RemoveAt(fcmCalls, k) /\ TakeEffect(<<fcmCalls[k]>>, token)
      /\ fcmCalls \in Seq(Calls) /\ n \in Nat /\ k \in 1..n /\ waiting = k - 1
  BY <1>1, RemovedCalls DEF ServedFromCache, NextCall, TypeOK
<1>3. /\ RemoveAt(fcmCalls, k) \in Seq(Calls)
      /\ KeptAt(RemoveAt(fcmCalls, k), fcmCalls, (1..n) \ {k})
  BY <1>1, <1>2, KeptRemoveAt
<1>4. t \in topics' <=> fcmCalls[k] = Call("subscribe", t) \/ (t \in topics /\ fcmCalls[k].topic # t)
  <2>1. /\ AsksLast(<<fcmCalls[k]>>, "subscribe", t) <=> fcmCalls[k] = Call("subscribe", t)
        /\ About(<<fcmCalls[k]>>, t) <=> fcmCalls[k].topic = t
    BY CallElements DEF AsksLast, About
  <2> QED
    BY <1>2, <2>1 DEF TakeEffect, Topics
<1>5. ~ \E i \in 1..(k - 1) :
          /\ fcmCalls[i].topic = t /\ fcmCalls[k].topic = t /\ fcmCalls[i].op # fcmCalls[k].op
          /\ \A j \in 1..n : j > i /\ fcmCalls[j].topic = t => j = k
  <2> SUFFICES ASSUME NEW i \in 1..(k - 1), fcmCalls[i].topic = t, fcmCalls[k].topic = t,
                      fcmCalls[i].op # fcmCalls[k].op,
                      \A j \in 1..n : j > i /\ fcmCalls[j].topic = t => j = k
               PROVE  FALSE
    OBVIOUS
  <2>0. DOMAIN fcmCalls = 1..n
    BY <1>1, <1>2, LenProperties
  <2>1. OvertakesContrary
    BY <1>1, <1>2, <2>0 DEF OvertakesContrary, NextCall
  <2>2. t \in overtaken'
    BY <1>1, <2>1 DEF ServedFromCache, NextCall
  <2> QED
    BY <2>2
<1>6. \A i \in 1..n : fcmCalls[i].topic = t =>
        fcmCalls[i] = Call("subscribe", t) \/ fcmCalls[i] = Call("unsubscribe", t)
  BY <1>1, PromiseBefore
<1>7. PromisedAt(fcmCalls, (1..n) \ {k}, topics', t) <=> PromisedAt(fcmCalls, 1..n, topics, t)
  BY <1>2, <1>4, <1>5, <1>6, TakenOut
<1>8. WillBeRegistered(t) <=> PromisedAt(fcmCalls, 1..n, topics, t)
  BY <1>1, PromiseBefore
<1>9. WillBeRegistered(t)' <=> PromisedAt(fcmCalls, (1..n) \ {k}, topics', t)
  BY <1>2, <1>3, PromiseAfter
<1> QED
  BY <1>7, <1>8, <1>9

\* A call that gets an error changes it only if it is the last about it.
LEMMA IdFailsPromise ==
  ASSUME TypeOK, IdFails, NEW t \in Strategies, t \notin lost'
  PROVE  WillBeRegistered(t)' <=> WillBeRegistered(t)
<1>1. PICK n, k : n = Len(fcmCalls) /\ k = waiting + 1
  OBVIOUS
<1>2. /\ fcmCalls' = RemoveAt(fcmCalls, k) /\ topics' = topics
      /\ fcmCalls \in Seq(Calls) /\ n \in Nat /\ k \in 1..n /\ waiting \in Nat
  BY <1>1, RemovedCalls DEF IdFails, TypeOK
<1>3. /\ RemoveAt(fcmCalls, k) \in Seq(Calls)
      /\ KeptAt(RemoveAt(fcmCalls, k), fcmCalls, (1..n) \ {k})
  BY <1>1, <1>2, KeptRemoveAt
<1>4. fcmCalls[k].topic = t => \E j \in (waiting + 2)..n : fcmCalls[j].topic = t
  BY <1>1 DEF IdFails, NextCall
<1>5. \A j \in (waiting + 2)..n : j \in 1..n /\ j > k
  BY <1>1, <1>2
<1>6. PromisedAt(fcmCalls, (1..n) \ {k}, topics, t) <=> PromisedAt(fcmCalls, 1..n, topics, t)
  BY <1>2, <1>4, <1>5, Dropped
<1>7. WillBeRegistered(t) <=> PromisedAt(fcmCalls, 1..n, topics, t)
  BY <1>1, PromiseBefore
<1>8. WillBeRegistered(t)' <=> PromisedAt(fcmCalls, (1..n) \ {k}, topics, t)
  BY <1>2, <1>3, PromiseAfter
<1> QED
  BY <1>6, <1>7, <1>8

\* The waiting calls by position, and those that do not wait.
LEMMA WaitingByPosition ==
  ASSUME TypeOK, NEW t, NEW n, NEW w, n = Len(fcmCalls), w = waiting
  PROVE  /\ n \in Nat /\ w \in 0..n
         /\ SubSeq(fcmCalls, w + 1, n) \in Seq(Calls)
         /\ KeptAt(SubSeq(fcmCalls, w + 1, n), fcmCalls, (w + 1)..n)
         /\ About(WaitingCalls, t) <=> \E i \in 1..w : fcmCalls[i].topic = t
         /\ AsksLast(WaitingCalls, "subscribe", t) <=>
              \E i \in 1..w : /\ fcmCalls[i] = Call("subscribe", t)
                            /\ \A j \in 1..w : j > i => fcmCalls[j].topic # t
<1>1. fcmCalls \in Seq(Calls) /\ n \in Nat /\ w \in 0..n
  BY LenProperties DEF TypeOK
<1>2. /\ SubSeq(fcmCalls, w + 1, n) \in Seq(Calls)
      /\ KeptAt(SubSeq(fcmCalls, w + 1, n), fcmCalls, (w + 1)..n)
  BY <1>1, KeptRest
<1>3. \A i \in 1..w : fcmCalls[i] \in Calls
  BY <1>1, ElementOfSeq
<1>4. PICK ws : ws = SubSeq(fcmCalls, 1, w)
  OBVIOUS
<1>5. ws \in Seq(Calls) /\ Len(ws) = w /\ \A i \in 1..w : ws[i] = fcmCalls[i]
  BY <1>1, <1>3, <1>4, SubSeqProperties
<1>6. DOMAIN ws = 1..w
  BY <1>5, LenProperties
<1>7. About(ws, t) <=> \E i \in 1..w : fcmCalls[i].topic = t
  BY <1>5, <1>6 DEF About
<1>8. AsksLast(ws, "subscribe", t) <=>
              \E i \in 1..w : /\ fcmCalls[i] = Call("subscribe", t)
                            /\ \A j \in 1..w : j > i => fcmCalls[j].topic # t
  BY <1>5, <1>6 DEF AsksLast
<1>9. WaitingCalls = ws
  BY <1>4 DEF WaitingCalls
<1> QED
  BY <1>1, <1>2, <1>7, <1>8, <1>9

\* The default token changes nothing of what is promised of a strategy.
LEMMA DeliveredPromise ==
  ASSUME TypeOK, NEW token, DefaultTokenArrives(token), NEW t \in Strategies
  PROVE  WillBeRegistered(t)' <=> WillBeRegistered(t)
<1>1. PICK n, w : n = Len(fcmCalls) /\ w = waiting
  OBVIOUS
<1>2. /\ n \in Nat /\ w \in 0..n
      /\ SubSeq(fcmCalls, w + 1, n) \in Seq(Calls)
      /\ KeptAt(SubSeq(fcmCalls, w + 1, n), fcmCalls, (w + 1)..n)
      /\ About(WaitingCalls, t) <=> \E i \in 1..w : fcmCalls[i].topic = t
      /\ AsksLast(WaitingCalls, "subscribe", t) <=>
              \E i \in 1..w : /\ fcmCalls[i] = Call("subscribe", t)
                            /\ \A j \in 1..w : j > i => fcmCalls[j].topic # t
  BY <1>1, WaitingByPosition
<1>3. t \in topics' <=> AsksLast(WaitingCalls, "subscribe", t) \/ (t \in topics /\ ~About(WaitingCalls, t))
  BY DEF DefaultTokenArrives, TakeEffect, Topics
<1>4. t \in topics' <=> PromisedAt(fcmCalls, 1..w, topics, t)
  BY <1>2, <1>3, Zenon DEF PromisedAt
<1>5. PromisedAt(fcmCalls, (w + 1)..n, topics', t) <=> PromisedAt(fcmCalls, 1..n, topics, t)
  BY <1>2, <1>4, FirstTakenOut
<1>6. WillBeRegistered(t) <=> PromisedAt(fcmCalls, 1..n, topics, t)
  BY <1>1, PromiseBefore
<1>7. fcmCalls' = SubSeq(fcmCalls, w + 1, n)
  BY <1>1 DEF DefaultTokenArrives
<1>8. WillBeRegistered(t)' <=> PromisedAt(fcmCalls, (w + 1)..n, topics', t)
  BY <1>2, <1>7, PromiseAfter
<1> QED
  BY <1>5, <1>6, <1>8

\* Nor does its failure, for a strategy no waiting call was the last about.
LEMMA DefaultFailsPromise ==
  ASSUME TypeOK, DefaultTokenFails, NEW t \in Strategies, t \notin lost'
  PROVE  WillBeRegistered(t)' <=> WillBeRegistered(t)
<1>1. PICK n, w : n = Len(fcmCalls) /\ w = waiting
  OBVIOUS
<1>2. /\ n \in Nat /\ w \in 0..n
      /\ SubSeq(fcmCalls, w + 1, n) \in Seq(Calls)
      /\ KeptAt(SubSeq(fcmCalls, w + 1, n), fcmCalls, (w + 1)..n)
      /\ About(WaitingCalls, t) <=> \E i \in 1..w : fcmCalls[i].topic = t
  BY <1>1, WaitingByPosition
<1>3. topics' = topics /\ fcmCalls' = SubSeq(fcmCalls, w + 1, n)
  BY <1>1 DEF DefaultTokenFails
<1>4. About(WaitingCalls, t) => About(fcmCalls', t)
  BY DEF DefaultTokenFails
<1>5. /\ WillBeRegistered(t)' <=> PromisedAt(fcmCalls, (w + 1)..n, topics', t)
      /\ About(SubSeq(fcmCalls, w + 1, n), t) <=> \E k \in (w + 1)..n : fcmCalls[k].topic = t
  BY <1>2, <1>3, PromiseAfter
<1>6. (\E i \in 1..w : fcmCalls[i].topic = t) => \E j \in (w + 1)..n : fcmCalls[j].topic = t
  BY <1>2, <1>3, <1>4, <1>5
<1>7. PromisedAt(fcmCalls, (w + 1)..n, topics', t) <=> PromisedAt(fcmCalls, 1..n, topics, t)
  BY <1>2, <1>3, <1>6, FirstTakenOut
<1>8. WillBeRegistered(t) <=> PromisedAt(fcmCalls, 1..n, topics, t)
  BY <1>1, PromiseBefore
<1> QED
  BY <1>5, <1>7, <1>8

\* What a step of the calls on their way does to the promises, and leaves alone.
LEMMA CallStep ==
  ASSUME TypeOK, Proceed \/ Deliver \/ CallFails
  PROVE  /\ UNCHANGED <<running, viewLoaded, subscribedStrats, savedStrats, dbWrites, dbRecord,
                        writeLost, trimmed>>
         /\ lost \subseteq lost' /\ overtaken \subseteq overtaken'
         /\ \A t \in Strategies \ (lost' \cup overtaken') :
              WillBeRegistered(t)' <=> WillBeRegistered(t)
<1>1. CASE JoinsWaiting
  BY <1>1 DEF JoinsWaiting, listVars, dbVars, WillBeRegistered, Asked, About, AsksLast
<1>2. ASSUME NEW token, ServedFromCache(token)
      PROVE  /\ UNCHANGED <<running, viewLoaded, subscribedStrats, savedStrats, dbWrites, dbRecord,
                            writeLost, trimmed>>
             /\ lost \subseteq lost' /\ overtaken \subseteq overtaken'
             /\ \A t \in Strategies \ (lost' \cup overtaken') :
                  WillBeRegistered(t)' <=> WillBeRegistered(t)
  <2>1. /\ UNCHANGED <<running, viewLoaded, subscribedStrats, savedStrats, dbVars, trimmed, lost>>
        /\ overtaken \subseteq overtaken'
    BY <1>2 DEF ServedFromCache
  <2> QED
    BY <1>2, <2>1, ServedPromise DEF dbVars
<1>3. ASSUME NEW token, DefaultTokenArrives(token)
      PROVE  /\ UNCHANGED <<running, viewLoaded, subscribedStrats, savedStrats, dbWrites, dbRecord,
                            writeLost, trimmed>>
             /\ lost \subseteq lost' /\ overtaken \subseteq overtaken'
             /\ \A t \in Strategies \ (lost' \cup overtaken') :
                  WillBeRegistered(t)' <=> WillBeRegistered(t)
  <2>1. UNCHANGED <<running, viewLoaded, subscribedStrats, savedStrats, dbVars, trimmed, lost, overtaken>>
    BY <1>3 DEF DefaultTokenArrives
  <2> QED
    BY <1>3, <2>1, DeliveredPromise DEF dbVars
<1>4. CASE IdFails
  <2>1. UNCHANGED <<running, viewLoaded, listVars, topics, overtaken, dbVars, trimmed>> /\ lost \subseteq lost'
    BY <1>4 DEF IdFails
  <2> QED
    BY <1>4, <2>1, IdFailsPromise DEF listVars, dbVars
<1>5. CASE DefaultTokenFails
  <2>1. UNCHANGED <<running, viewLoaded, listVars, topics, overtaken, dbVars, trimmed>> /\ lost \subseteq lost'
    BY <1>5 DEF DefaultTokenFails
  <2> QED
    BY <1>5, <2>1, DefaultFailsPromise DEF listVars, dbVars
<1> QED
  BY <1>1, <1>2, <1>3, <1>4, <1>5 DEF Proceed, Deliver, CallFails

-----------------------------------------------------------------------------
(* OnlyFollowedNotify.  It is not inductive alone: an unfollow stores the  *)
(* Strategy tab's copy, so that copy must hold whatever UserDefaults does. *)

SavedIsShown ==
  viewLoaded => \A s \in Strategies : Contains(savedStrats, s) => Contains(subscribedStrats, s)

NotifyInv == TypeOK /\ SavedIsShown /\ OnlyFollowedNotify

\* The queue of calls after Ask, position by position.
LEMMA AskQueue ==
  ASSUME TypeOK, NEW cs \in Seq(Calls), Ask(cs)
  PROVE  /\ DOMAIN fcmCalls = 1..Len(fcmCalls) /\ Len(fcmCalls) \in Nat
         /\ DOMAIN cs = 1..Len(cs) /\ Len(cs) \in Nat
         /\ DOMAIN fcmCalls' = 1..(Len(fcmCalls) + Len(cs))
         /\ \A i \in 1..Len(fcmCalls) : fcmCalls'[i] = fcmCalls[i]
         /\ \A i \in 1..Len(cs) : fcmCalls'[Len(fcmCalls) + i] = cs[i]
<1>1. fcmCalls \in Seq(Calls) /\ fcmCalls' = fcmCalls \o cs
  BY DEF TypeOK, Ask
<1>2. /\ fcmCalls' \in Seq(Calls)
      /\ Len(fcmCalls') = Len(fcmCalls) + Len(cs)
      /\ \A i \in 1..Len(fcmCalls) : fcmCalls'[i] = fcmCalls[i]
      /\ \A i \in 1..Len(cs) : fcmCalls'[Len(fcmCalls) + i] = cs[i]
  BY <1>1, ConcatProperties
<1> QED
  BY <1>1, <1>2, LenProperties

\* After Ask a topic will be registered only because the new calls subscribe
\* to it, or because they leave alone one that would have been.
LEMMA AskRegisters ==
  ASSUME TypeOK, NEW cs \in Seq(Calls), Ask(cs), NEW t, WillBeRegistered(t)'
  PROVE  \/ \E i \in 1..Len(cs) :
              /\ cs[i] = Call("subscribe", t)
              /\ \A j \in 1..Len(cs) : j > i => cs[j].topic # t
         \/ /\ WillBeRegistered(t)
            /\ \A i \in 1..Len(cs) : cs[i].topic # t
<1> DEFINE n == Len(fcmCalls)
<1>1. /\ DOMAIN fcmCalls = 1..n /\ n \in Nat
      /\ DOMAIN cs = 1..Len(cs) /\ Len(cs) \in Nat
      /\ DOMAIN fcmCalls' = 1..(n + Len(cs))
      /\ \A i \in 1..n : fcmCalls'[i] = fcmCalls[i]
      /\ \A i \in 1..Len(cs) : fcmCalls'[n + i] = cs[i]
  BY AskQueue
<1>2. topics' = topics
  BY DEF Ask
<1> HIDE DEF n
<1>3. CASE t \in topics' /\ \A i \in DOMAIN fcmCalls' : fcmCalls'[i].topic # t
  <2>1. \A i \in 1..n : fcmCalls[i].topic # t
    BY <1>1, <1>3
  <2>2. \A i \in 1..Len(cs) : cs[i].topic # t
    BY <1>1, <1>3
  <2> QED
    BY <1>1, <1>2, <1>3, <2>1, <2>2 DEF WillBeRegistered, Asked, About, AsksLast
<1>4. ASSUME NEW k \in DOMAIN fcmCalls', fcmCalls'[k] = Call("subscribe", t),
             \A j \in DOMAIN fcmCalls' : j > k => fcmCalls'[j].topic # t
      PROVE  \/ \E i \in 1..Len(cs) :
                  /\ cs[i] = Call("subscribe", t)
                  /\ \A j \in 1..Len(cs) : j > i => cs[j].topic # t
             \/ /\ WillBeRegistered(t)
                /\ \A i \in 1..Len(cs) : cs[i].topic # t
  <2>1. CASE k <= n
    <3>1. k \in 1..n /\ fcmCalls[k] = Call("subscribe", t)
      BY <1>1, <1>4, <2>1
    <3>2. \A j \in 1..n : j > k => fcmCalls[j].topic # t
      BY <1>1, <1>4
    <3>3. \A i \in 1..Len(cs) : cs[i].topic # t
      <4> SUFFICES ASSUME NEW i \in 1..Len(cs)
                   PROVE  cs[i].topic # t
        OBVIOUS
      <4>1. n + i \in 1..(n + Len(cs)) /\ n + i > k
        BY <1>1, <2>1, <1>4
      <4> QED
        BY <1>1, <1>4, <4>1
    <3> QED
      BY <1>1, <3>1, <3>2, <3>3 DEF WillBeRegistered, Asked, About, AsksLast
  <2>2. CASE k > n
    <3> DEFINE i == k - n
    <3>1. i \in 1..Len(cs) /\ k = n + i
      BY <1>1, <1>4, <2>2
    <3>2. cs[i] = Call("subscribe", t)
      BY <1>1, <1>4, <3>1
    <3>3. \A j \in 1..Len(cs) : j > i => cs[j].topic # t
      <4> SUFFICES ASSUME NEW j \in 1..Len(cs), j > i
                   PROVE  cs[j].topic # t
        OBVIOUS
      <4>1. n + j \in 1..(n + Len(cs)) /\ n + j > k
        BY <1>1, <3>1
      <4> QED
        BY <1>1, <1>4, <4>1
    <3> QED
      BY <3>1, <3>2, <3>3
  <2> QED
    BY <1>1, <1>4, <2>1, <2>2
<1> QED
  BY <1>3, <1>4 DEF WillBeRegistered, Asked, About, AsksLast

LEMMA NotifyInit == Init => NotifyInv
  BY TypeInit, EmptySeq
     DEF Init, NotifyInv, SavedIsShown, OnlyFollowedNotify, WillBeRegistered, Asked, About, AsksLast, Contains

\* The new calls of a step all subscribe to strategies that are saved, or
\* none of them subscribes to one: what was saved and not asked to go stays.
LEMMA AskNotify ==
  ASSUME NotifyInv, NEW cs \in Seq(Calls), Ask(cs),
         \A s \in Strategies, i \in 1..Len(cs) :
           cs[i] = Call("subscribe", s) => Contains(savedStrats', s),
         \A s \in Strategies :
           Contains(savedStrats, s) =>
             Contains(savedStrats', s) \/ \E i \in 1..Len(cs) : cs[i].topic = s
  PROVE  OnlyFollowedNotify'
<1> SUFFICES ASSUME NEW s \in Strategies, WillBeRegistered(s)', s \notin lost' \cup overtaken'
             PROVE  Contains(savedStrats', s)
  BY DEF OnlyFollowedNotify
<1>1. CASE \E i \in 1..Len(cs) : cs[i] = Call("subscribe", s)
  BY <1>1
<1>2. CASE ~ \E i \in 1..Len(cs) : cs[i] = Call("subscribe", s)
  <2>1. WillBeRegistered(s) /\ \A i \in 1..Len(cs) : cs[i].topic # s
    BY <1>2, AskRegisters DEF NotifyInv
  <2>2. s \notin lost \cup overtaken
    BY <2>1, LenProperties DEF Ask
  <2>3. Contains(savedStrats, s)
    BY <2>1, <2>2 DEF NotifyInv, OnlyFollowedNotify
  <2> QED
    BY <2>1, <2>3
<1> QED
  BY <1>1, <1>2

LEMMA NotifyNext ==
  ASSUME NotifyInv, [Next]_vars
  PROVE  NotifyInv'
<1> USE DEF NotifyInv
<1>0. TypeOK'
  BY TypeNext
<1>1. CASE Launch
  <2> DEFINE cs == <<Call("token", NoTopic), Call("subscribe", TestTopic)>>
  <2>1. /\ cs \in Seq(Calls) /\ Ask(cs)
        /\ UNCHANGED savedStrats /\ ~viewLoaded'
    BY <1>1, CallTypes DEF Launch
  <2>2. \A s \in Strategies, i \in 1..Len(cs) : cs[i] # Call("subscribe", s)
    BY CallElements, FollowListAssumption DEF Call
  <2> HIDE DEF cs
  <2>3. OnlyFollowedNotify'
    BY <2>1, <2>2, AskNotify
  <2> QED
    BY <1>0, <2>1, <2>3 DEF SavedIsShown
<1>2. CASE OpenStrategyTab
  <2> DEFINE cs == CallForEach("subscribe", savedStrats)
  <2>1. /\ cs \in Seq(Calls)
        /\ Len(cs) = Len(savedStrats)
        /\ \A i \in 1..Len(savedStrats) : cs[i] = Call("subscribe", savedStrats[i])
    BY CallForEachType DEF TypeOK
  <2>2. Ask(cs) /\ subscribedStrats' = savedStrats /\ savedStrats' = savedStrats
    BY <1>2 DEF OpenStrategyTab
  <2> HIDE DEF cs
  <2>3. \A s \in Strategies, i \in 1..Len(cs) :
          cs[i] = Call("subscribe", s) => Contains(savedStrats', s)
    <3> SUFFICES ASSUME NEW s \in Strategies, NEW i \in 1..Len(savedStrats),
                        cs[i] = Call("subscribe", s)
                 PROVE  Contains(savedStrats, s)
      BY <2>1, <2>2
    <3>1. savedStrats[i] = s
      BY <2>1, CallElements
    <3> QED
      BY <3>1 DEF Contains
  <2>4. OnlyFollowedNotify'
    BY <2>1, <2>2, <2>3, AskNotify
  <2> QED
    BY <1>0, <2>2, <2>4 DEF SavedIsShown
<1>3. CASE Quit
  <2>1. fcmCalls' = <<>> /\ UNCHANGED <<savedStrats, topics>> /\ ~viewLoaded'
    BY <1>3 DEF Quit
  <2>2. lost' = lost \cup {s \in Strategies : About(fcmCalls, s)} /\ overtaken' = overtaken
    BY <1>3 DEF Quit
  <2>3. OnlyFollowedNotify'
    <3> SUFFICES ASSUME NEW s \in Strategies, WillBeRegistered(s)', s \notin lost' \cup overtaken'
                 PROVE  Contains(savedStrats, s)
      BY <2>1 DEF OnlyFollowedNotify
    <3>1. s \in topics
      BY <2>1, EmptySeq DEF WillBeRegistered, Asked, About, AsksLast
    <3>2. s \notin lost \cup overtaken /\ ~About(fcmCalls, s)
      BY <2>2
    <3> QED
      BY <3>1, <3>2 DEF OnlyFollowedNotify, WillBeRegistered
  <2> QED
    BY <1>0, <2>1, <2>3 DEF SavedIsShown
<1>4. ASSUME NEW s \in Strategies, NEW b \in Bounds, Subscribe(s, b)
      PROVE  NotifyInv'
  <2> DEFINE cs == <<Call("subscribe", s)>>
  <2>1. /\ cs \in Seq(Calls) /\ Ask(cs) /\ viewLoaded
        /\ subscribedStrats' = Append(subscribedStrats, s)
        /\ savedStrats' = subscribedStrats'
    BY <1>4, CallTypes DEF Subscribe
  <2>2. \A u \in Strategies : Contains(savedStrats', u) <=> u = s \/ Contains(subscribedStrats, u)
    <3>1. /\ Len(savedStrats') = Len(subscribedStrats) + 1 /\ Len(subscribedStrats) \in Nat
          /\ \A i \in 1..Len(subscribedStrats) : savedStrats'[i] = subscribedStrats[i]
          /\ savedStrats'[Len(subscribedStrats) + 1] = s
      BY <1>4, <2>1, AppendProperties, LenProperties DEF TypeOK
    <3> QED
      BY <3>1 DEF Contains
  <2>3. \A u \in Strategies, i \in 1..Len(cs) : cs[i] = Call("subscribe", u) => u = s
    BY CallElements
  <2> HIDE DEF cs
  <2>4. OnlyFollowedNotify'
    BY <2>1, <2>2, <2>3, AskNotify DEF SavedIsShown
  <2> QED
    BY <1>0, <2>1, <2>4 DEF SavedIsShown
<1>5. ASSUME NEW s \in Strategies, Unsubscribe(s)
      PROVE  NotifyInv'
  <2> DEFINE cs == <<Call("unsubscribe", s)>>
  <2>1. /\ cs \in Seq(Calls) /\ Ask(cs) /\ viewLoaded
        /\ savedStrats' = subscribedStrats'
    BY <1>5, CallTypes DEF Unsubscribe
  <2>2. PICK k \in 1..Len(subscribedStrats) :
          subscribedStrats[k] = s /\ subscribedStrats' = RemoveAt(subscribedStrats, k)
    BY <1>5, LenProperties DEF Unsubscribe, TypeOK
  <2>3. \A u \in Strategies \ {s} : Contains(subscribedStrats, u) => Contains(savedStrats', u)
    <3> SUFFICES ASSUME NEW u \in Strategies \ {s},
                        NEW i \in 1..Len(subscribedStrats), subscribedStrats[i] = u
                 PROVE  Contains(savedStrats', u)
      BY DEF Contains
    <3>0. subscribedStrats \in Seq(Strategies) /\ Len(subscribedStrats) \in Nat
      BY LenProperties DEF TypeOK
    <3>1. /\ Len(savedStrats') = Len(subscribedStrats) - 1 /\ Len(subscribedStrats) \in Nat
          /\ \A j \in 1..(k - 1) : savedStrats'[j] = subscribedStrats[j]
          /\ \A j \in k..(Len(subscribedStrats) - 1) : savedStrats'[j] = subscribedStrats[j + 1]
      BY <2>1, <2>2, <3>0, RemoveAtLemma
    <3>2. CASE i < k
      BY <3>1, <3>2 DEF Contains
    <3>3. CASE i > k
      <4>1. i - 1 \in 1..Len(savedStrats') /\ savedStrats'[i - 1] = u
        BY <3>1, <3>3
      <4> QED
        BY <4>1 DEF Contains
    <3> QED
      BY <2>2, <3>2, <3>3
  <2>4. /\ \A u \in Strategies, i \in 1..Len(cs) : cs[i] # Call("subscribe", u)
        /\ 1 \in 1..Len(cs) /\ cs[1].topic = s
    BY CallElements
  <2> HIDE DEF cs
  <2>5. \A u \in Strategies : Contains(savedStrats, u) =>
          Contains(savedStrats', u) \/ \E i \in 1..Len(cs) : cs[i].topic = u
    BY <2>1, <2>3, <2>4 DEF SavedIsShown
  <2>6. OnlyFollowedNotify'
    BY <2>1, <2>4, <2>5, AskNotify
  <2> QED
    BY <1>0, <2>1, <2>6 DEF SavedIsShown
<1>6. ASSUME NEW b \in Bounds, UnsubscribeIfNecessary(b)
      PROVE  NotifyInv'
  <2>1. CASE Len(savedStrats) <= b
    BY <1>0, <1>6, <2>1 DEF UnsubscribeIfNecessary, vars, listVars, fcmVars, dbVars,
       SavedIsShown, OnlyFollowedNotify, WillBeRegistered, Asked, About, AsksLast
  <2>2. CASE ~(Len(savedStrats) <= b)
    <3> DEFINE n == Len(savedStrats) - b
               removed == SubSeq(savedStrats, 1, n)
               cs == CallForEach("unsubscribe", removed)
    <3>1. b \in Nat \ {0} /\ Len(savedStrats) \in Nat /\ n \in 1..Len(savedStrats)
      BY <2>2, FollowListAssumption, LenProperties DEF TypeOK
    <3>2. /\ removed \in Seq(Strategies) /\ Len(removed) = n
          /\ \A i \in 1..n : removed[i] = savedStrats[i]
      BY <3>1, SubSeqProperties DEF TypeOK
    <3>3. /\ savedStrats' = SubSeq(savedStrats, n + 1, Len(savedStrats))
          /\ Ask(cs) /\ UNCHANGED <<viewLoaded, subscribedStrats>>
      BY <1>6, <2>2 DEF UnsubscribeIfNecessary
    <3> HIDE DEF n
    <3>4. /\ Len(savedStrats') = Len(savedStrats) - n
          /\ \A i \in 1..(Len(savedStrats) - n) : savedStrats'[i] = savedStrats[n + i]
      BY <3>1, <3>3, SubSeqProperties DEF TypeOK
    <3> HIDE DEF removed
    <3>5. /\ cs \in Seq(Calls) /\ Len(cs) = n
          /\ \A i \in 1..n : cs[i] = Call("unsubscribe", savedStrats[i])
      BY <3>2, CallForEachType
    <3> HIDE DEF cs
    <3>6. \A u \in Strategies, i \in 1..Len(cs) : cs[i] # Call("subscribe", u)
      BY <3>5 DEF Call
    <3>7. \A u \in Strategies : Contains(savedStrats, u) =>
            Contains(savedStrats', u) \/ \E i \in 1..Len(cs) : cs[i].topic = u
      <4> SUFFICES ASSUME NEW u \in Strategies,
                          NEW i \in 1..Len(savedStrats), savedStrats[i] = u
                   PROVE  Contains(savedStrats', u) \/ \E j \in 1..Len(cs) : cs[j].topic = u
        BY DEF Contains
      <4>1. CASE i <= n
        BY <3>1, <3>5, <4>1 DEF Call
      <4>2. CASE i > n
        <5>1. i - n \in 1..Len(savedStrats') /\ savedStrats'[i - n] = u
          BY <3>1, <3>4, <4>2
        <5> QED
          BY <5>1 DEF Contains
      <4> QED
        BY <3>1, <4>1, <4>2
    <3>8. \A u \in Strategies : Contains(savedStrats', u) => Contains(savedStrats, u)
      BY <3>1, <3>4 DEF Contains
    <3>9. OnlyFollowedNotify'
      BY <3>3, <3>5, <3>6, <3>7, AskNotify
    <3> QED
      BY <1>0, <3>3, <3>8, <3>9 DEF SavedIsShown
  <2> QED
    BY <2>1, <2>2
<1>7. CASE Proceed \/ Deliver \/ CallFails
  <2>1. /\ UNCHANGED <<viewLoaded, subscribedStrats, savedStrats>>
        /\ lost \subseteq lost' /\ overtaken \subseteq overtaken'
        /\ \A t \in Strategies \ (lost' \cup overtaken') : WillBeRegistered(t)' <=> WillBeRegistered(t)
    BY <1>7, CallStep
  <2> QED
    BY <1>0, <2>1 DEF SavedIsShown, OnlyFollowedNotify
<1>8. CASE WriteLands
  BY <1>0, <1>8 DEF WriteLands, listVars, fcmVars, SavedIsShown, OnlyFollowedNotify,
     WillBeRegistered, Asked, About, AsksLast
<1>9. CASE UNCHANGED vars
  BY <1>0, <1>9 DEF vars, listVars, fcmVars, dbVars, SavedIsShown, OnlyFollowedNotify,
     WillBeRegistered, Asked, About, AsksLast
<1> QED
  BY <1>1, <1>2, <1>3, <1>4, <1>5, <1>6, <1>7, <1>8, <1>9
     DEF Next, Follow, Unfollow, Trim

\* No strategy notifies that UserDefaults does not hold, unless the latest
\* request about it was lost or overtook a contrary one: for all constants,
\* every bound in force, every order in which the calls find a token and every
\* end of the process.
THEOREM NotifiesOnlyFollowed == Spec => []OnlyFollowedNotify
<1>1. NotifyInv => OnlyFollowedNotify
  BY DEF NotifyInv
<1> QED
  BY <1>1, NotifyInit, NotifyNext, PTL DEF Spec

-----------------------------------------------------------------------------
(* The copies of the list hold no strategy twice *)

\* What a trim leaves in UserDefaults is the end of what was there.
LEMMA TrimLemma ==
  ASSUME TypeOK, NEW b \in Bounds, UnsubscribeIfNecessary(b)
  PROVE  /\ UNCHANGED <<running, viewLoaded, subscribedStrats, savedTokens, dbWrites, dbRecord, writeLost>>
         /\ \/ savedStrats' = savedStrats
            \/ \E k \in 0..Len(savedStrats) : savedStrats' = SubSeq(savedStrats, k + 1, Len(savedStrats))
<1>1. CASE Len(savedStrats) <= b
  BY <1>1 DEF UnsubscribeIfNecessary, vars, listVars, fcmVars, dbVars
<1>2. CASE ~(Len(savedStrats) <= b)
  <2> DEFINE n == Len(savedStrats) - b
  <2>1. n \in 0..Len(savedStrats)
    BY <1>2, FollowListAssumption, LenProperties DEF TypeOK
  <2>2. /\ savedStrats' = SubSeq(savedStrats, n + 1, Len(savedStrats))
        /\ UNCHANGED <<running, viewLoaded, subscribedStrats, savedTokens, dbVars>>
    BY <1>2 DEF UnsubscribeIfNecessary
  <2> HIDE DEF n
  <2> QED
    BY <2>1, <2>2 DEF dbVars
<1> QED
  BY <1>1, <1>2

LEMMA OnceInit == Init => FollowedOnce
<1> SUFFICES ASSUME Init PROVE IsInjective(<<>>)
  BY DEF Init, FollowedOnce
<1> QED
  BY DEF IsInjective

LEMMA OnceNext ==
  ASSUME TypeOK, FollowedOnce, [Next]_vars
  PROVE  FollowedOnce'
<1>0. /\ subscribedStrats \in Seq(Strategies) /\ savedStrats \in Seq(Strategies)
      /\ IsInjective(savedStrats) /\ IsInjective(subscribedStrats)
  BY DEF TypeOK, FollowedOnce
<1>1. CASE Launch \/ Quit
  <2>1. subscribedStrats' = <<>> /\ savedStrats' = savedStrats
    BY <1>1 DEF Launch, Quit
  <2>2. IsInjective(<<>>)
    BY DEF IsInjective
  <2> QED
    BY <1>0, <2>1, <2>2 DEF FollowedOnce
<1>2. CASE OpenStrategyTab
  BY <1>0, <1>2 DEF OpenStrategyTab, FollowedOnce
<1>3. ASSUME NEW s \in Strategies, NEW b \in Bounds, Subscribe(s, b)
      PROVE  FollowedOnce'
  <2>1. /\ ~Contains(subscribedStrats, s)
        /\ subscribedStrats' = Append(subscribedStrats, s) /\ savedStrats' = subscribedStrats'
    BY <1>3 DEF Subscribe
  <2> QED
    BY <1>0, <2>1, InjectiveAppend DEF FollowedOnce
<1>4. ASSUME NEW s \in Strategies, Unsubscribe(s)
      PROVE  FollowedOnce'
  <2>1. PICK k \in DOMAIN subscribedStrats : subscribedStrats' = RemoveAt(subscribedStrats, k)
    BY <1>4 DEF Unsubscribe
  <2>2. k \in 1..Len(subscribedStrats) /\ savedStrats' = subscribedStrats'
    BY <1>0, <1>4, LenProperties DEF Unsubscribe
  <2> QED
    BY <1>0, <2>1, <2>2, InjectiveRemoveAt DEF FollowedOnce
<1>5. ASSUME NEW b \in Bounds, UnsubscribeIfNecessary(b)
      PROVE  FollowedOnce'
  <2>1. subscribedStrats' = subscribedStrats /\
        (savedStrats' = savedStrats \/ \E k \in 0..Len(savedStrats) :
                                         savedStrats' = SubSeq(savedStrats, k + 1, Len(savedStrats)))
    BY <1>0, <1>5, TrimLemma
  <2> QED
    BY <1>0, <2>1, SuffixSubSeq DEF FollowedOnce
<1>6. CASE Proceed \/ Deliver \/ CallFails \/ WriteLands \/ UNCHANGED vars
  <2>1. UNCHANGED <<subscribedStrats, savedStrats>>
    BY <1>6, CallStep DEF WriteLands, vars, listVars
  <2> QED
    BY <2>1 DEF FollowedOnce
<1> QED
  BY <1>1, <1>2, <1>3, <1>4, <1>5, <1>6 DEF Next, Follow, Unfollow, Trim

\* No copy of the list ever holds a strategy twice, so toUnsubscribe, which
\* removes the first occurrence, always removes it altogether.
THEOREM AlwaysFollowedOnce == Spec => []FollowedOnce
<1> DEFINE Inv == TypeOK /\ FollowedOnce
<1>1. Init => Inv
  BY TypeInit, OnceInit
<1>2. Inv /\ [Next]_vars => Inv'
  BY TypeNext, OnceNext
<1> QED
  BY <1>1, <1>2, PTL DEF Spec

-----------------------------------------------------------------------------
(* OneUserRecord *)

LEMMA RecordNext ==
  ASSUME TypeOK, OneUserRecord, [Next]_vars
  PROVE  OneUserRecord'
<1>0. savedTokens \in Seq(Tokens) /\ dbWrites \in Seq(Records)
  BY DEF TypeOK
<1>1. ASSUME NEW ss, SaveToFirebase(ss), UNCHANGED savedTokens
      PROVE  OneUserRecord'
  <2>1. CASE savedTokens = <<>>
    BY <1>1, <2>1 DEF SaveToFirebase, dbVars, OneUserRecord
  <2>2. CASE savedTokens # <<>>
    <3> DEFINE r == [user |-> Head(savedTokens), tokens |-> savedTokens, subscription |-> ss]
    <3>1. dbWrites' = Append(dbWrites, r) /\ dbRecord' = dbRecord /\ r.user = Head(savedTokens)
      BY <1>1, <2>2 DEF SaveToFirebase
    <3> HIDE DEF r
    <3>2. ToSet(dbWrites') \subseteq ToSet(dbWrites) \cup {r}
      BY <1>0, <3>1 DEF ToSet
    <3> QED
      BY <1>1, <2>2, <3>1, <3>2 DEF OneUserRecord
  <2> QED
    BY <2>1, <2>2
<1>2. CASE Proceed \/ Deliver \/ CallFails
  <2>1. savedTokens' = savedTokens \/ \E token \in Tokens : savedTokens' = Append(savedTokens, token)
    BY <1>2, TakeEffectType
       DEF Proceed, JoinsWaiting, ServedFromCache, Deliver, DefaultTokenArrives,
           CallFails, IdFails, DefaultTokenFails, listVars
  <2>2. savedTokens # <<>> => savedTokens' # <<>> /\ Head(savedTokens') = Head(savedTokens)
    BY <1>0, <2>1, HeadTailAppend, AppendProperties
  <2>3. UNCHANGED <<dbWrites, dbRecord>>
    BY <1>2, CallStep
  <2> QED
    BY <2>2, <2>3 DEF OneUserRecord
<1>3. CASE WriteLands
  <2>1. /\ dbWrites # <<>> /\ dbRecord' = Head(dbWrites) /\ dbWrites' = Tail(dbWrites)
        /\ savedTokens' = savedTokens
    BY <1>3 DEF WriteLands, listVars
  <2>2. Head(dbWrites) \in ToSet(dbWrites) /\ ToSet(Tail(dbWrites)) \subseteq ToSet(dbWrites)
    <3>1. Len(dbWrites) \in Nat \ {0} /\ DOMAIN dbWrites = 1..Len(dbWrites)
      BY <1>0, <2>1, LenProperties, EmptySeq
    <3>2. Head(dbWrites) = dbWrites[1]
      BY <1>0, <2>1
    <3>3. /\ DOMAIN Tail(dbWrites) = 1..(Len(dbWrites) - 1)
          /\ \A i \in 1..(Len(dbWrites) - 1) : Tail(dbWrites)[i] = dbWrites[i + 1]
      BY <1>0, <2>1, HeadTailProperties, LenProperties
    <3>4. \A i \in 1..(Len(dbWrites) - 1) : i + 1 \in 1..Len(dbWrites)
      BY <3>1
    <3> QED
      BY <3>1, <3>2, <3>3, <3>4 DEF ToSet
  <2> QED
    BY <2>1, <2>2 DEF OneUserRecord
<1>4. CASE Quit
  <2>1. dbWrites' = <<>> /\ UNCHANGED <<dbRecord, savedTokens>>
    BY <1>4 DEF Quit
  <2>2. ToSet(dbWrites') = {}
    BY <2>1 DEF ToSet
  <2> QED
    BY <2>1, <2>2 DEF OneUserRecord
<1>5. ASSUME NEW s \in Strategies, NEW b \in Bounds, Subscribe(s, b)
      PROVE  OneUserRecord'
  BY <1>1, <1>5 DEF Subscribe
<1>6. ASSUME NEW s \in Strategies, Unsubscribe(s)
      PROVE  OneUserRecord'
  BY <1>1, <1>6 DEF Unsubscribe
<1>7. CASE Launch \/ OpenStrategyTab \/ Trim \/ UNCHANGED vars
  <2>1. UNCHANGED <<savedTokens, dbWrites, dbRecord>>
    BY <1>7 DEF Launch, OpenStrategyTab, Trim, UnsubscribeIfNecessary, vars, listVars, dbVars
  <2> QED
    BY <2>1 DEF OneUserRecord
<1> QED
  BY <1>2, <1>3, <1>4, <1>5, <1>6, <1>7 DEF Next, Follow, Unfollow

LEMMA RecordInit == Init => OneUserRecord
<1> SUFFICES ASSUME Init PROVE OneUserRecord
  OBVIOUS
<1>1. ToSet(dbWrites) = {}
  BY DEF Init, ToSet
<1> QED
  BY <1>1 DEF Init, OneUserRecord

\* The user's records all carry one key, however often FCM changes the token.
THEOREM AlwaysOneUserRecord == Spec => []OneUserRecord
<1> DEFINE Inv == TypeOK /\ OneUserRecord
<1>1. Init => Inv
  BY TypeInit, RecordInit
<1>2. Inv /\ [Next]_vars => Inv'
  BY TypeNext, RecordNext
<1> QED
  BY <1>1, <1>2, PTL DEF Spec

-----------------------------------------------------------------------------
(* CopiesDifferByTrims.  A record exists only under a stored token, so the *)
(* list that a step without a token fails to write has no record to match. *)

TabNeedsProcess == ~running => ~viewLoaded

Newest == IF viewLoaded THEN subscribedStrats ELSE savedStrats

CopiesInv == TypeOK /\ OneUserRecord /\ TabNeedsProcess /\ CopiesDifferByTrims

LEMMA RequestedType ==
  ASSUME TypeOK
  PROVE  /\ RequestedRecord \in Records \cup {NoRecord}
         /\ Newest \in Seq(Strategies) /\ savedStrats \in Seq(Strategies)
<1>1. dbWrites # <<>> => Last(dbWrites) \in Records
  <2> SUFFICES ASSUME dbWrites # <<>> PROVE dbWrites[Len(dbWrites)] \in Records
    BY DEF Last
  <2>1. dbWrites \in Seq(Records) /\ Len(dbWrites) \in 1..Len(dbWrites)
    BY LenProperties, EmptySeq DEF TypeOK
  <2> QED
    BY <2>1, ElementOfSeq
<1> QED
  BY <1>1 DEF TypeOK, RequestedRecord, Newest

\* A step that leaves the newest copy, the record and UserDefaults alone.
LEMMA CopiesUnchanged ==
  ASSUME CopiesDifferByTrims, Newest' = Newest, savedStrats' = savedStrats,
         RequestedRecord' = RequestedRecord, writeLost' = writeLost
  PROVE  CopiesDifferByTrims'
  BY DEF CopiesDifferByTrims, Newest

\* A follow or an unfollow makes all copies equal.
LEMMA CopiesStored ==
  ASSUME CopiesInv, TypeOK', SaveToFirebase(savedStrats'), viewLoaded',
         savedStrats' = subscribedStrats'
  PROVE  CopiesDifferByTrims'
<1>1. savedStrats' \in Seq(Strategies)
  BY DEF TypeOK
<1>2. IsSuffix(savedStrats', savedStrats')
  BY <1>1, SuffixReflexive
<1>3. CASE savedTokens = <<>>
  <2>1. dbRecord = NoRecord /\ ToSet(dbWrites) = {}
    BY <1>3 DEF CopiesInv, OneUserRecord
  <2>2. dbWrites = <<>>
    <3> SUFFICES ASSUME dbWrites # <<>> PROVE FALSE
      OBVIOUS
    <3>1. 1 \in DOMAIN dbWrites
      BY LenProperties, EmptySeq DEF CopiesInv, TypeOK
    <3>2. dbWrites[1] \in ToSet(dbWrites)
      BY <3>1 DEF ToSet
    <3> QED
      BY <2>1, <3>2
  <2>3. RequestedRecord' = NoRecord
    BY <1>3, <2>1, <2>2 DEF SaveToFirebase, dbVars, RequestedRecord
  <2> QED
    BY <1>2, <2>3 DEF CopiesDifferByTrims
<1>4. CASE savedTokens # <<>>
  <2> DEFINE r == [user |-> Head(savedTokens), tokens |-> savedTokens, subscription |-> savedStrats']
  <2>1. r \in Records /\ r.subscription = savedStrats'
    BY <1>1, <1>4, HeadTailProperties DEF CopiesInv, TypeOK, Records
  <2>2. dbWrites' = Append(dbWrites, r)
    BY <1>4 DEF SaveToFirebase
  <2> HIDE DEF r
  <2>3. dbWrites' # <<>> /\ dbWrites'[Len(dbWrites')] = r
    BY <2>1, <2>2, AppendProperties DEF CopiesInv, TypeOK
  <2>4. RequestedRecord' = r
    BY <2>3 DEF RequestedRecord, Last
  <2> QED
    BY <1>2, <2>1, <2>4 DEF CopiesDifferByTrims
<1> QED
  BY <1>3, <1>4

\* UserDefaults may lose its first entries, and become the newest copy.
LEMMA CopiesTrimmed ==
  ASSUME CopiesInv, NEW s \in Seq(Strategies), IsSuffix(s, savedStrats),
         NEW newest, newest = Newest \/ newest = s
  PROVE  /\ IsSuffix(s, newest)
         /\ RequestedRecord # NoRecord /\ ~writeLost
              => IsSuffix(newest, RequestedRecord.subscription)
<1>1. /\ Newest \in Seq(Strategies) /\ savedStrats \in Seq(Strategies)
      /\ RequestedRecord \in Records \cup {NoRecord}
  BY RequestedType DEF CopiesInv
<1>2. IsSuffix(savedStrats, Newest) /\ IsSuffix(s, s)
  BY SuffixReflexive DEF CopiesInv, CopiesDifferByTrims, Newest
<1>3. IsSuffix(s, Newest)
  BY <1>1, <1>2, SuffixTransitive
<1>4. ASSUME RequestedRecord # NoRecord, ~writeLost
      PROVE  IsSuffix(newest, RequestedRecord.subscription)
  <2>1. RequestedRecord.subscription \in Seq(Strategies)
    BY <1>1, <1>4 DEF Records
  <2>2. IsSuffix(Newest, RequestedRecord.subscription)
    BY <1>4 DEF CopiesInv, CopiesDifferByTrims, Newest
  <2>3. IsSuffix(s, RequestedRecord.subscription)
    BY <1>1, <1>3, <2>1, <2>2, SuffixTransitive
  <2> QED
    BY <2>2, <2>3
<1> QED
  BY <1>2, <1>3, <1>4

LEMMA CopiesNext ==
  ASSUME CopiesInv, [Next]_vars
  PROVE  CopiesInv'
<1>0. TypeOK /\ TypeOK' /\ OneUserRecord' /\ CopiesDifferByTrims
  BY TypeNext, RecordNext DEF CopiesInv
<1>1. CASE Launch
  <2>1. /\ ~running /\ running' /\ ~viewLoaded' /\ savedStrats' = savedStrats
        /\ UNCHANGED <<dbWrites, dbRecord, writeLost>>
    BY <1>1 DEF Launch, dbVars
  <2>2. Newest' = Newest /\ RequestedRecord' = RequestedRecord /\ writeLost' = writeLost
    BY <2>1 DEF Newest, CopiesInv, TabNeedsProcess, RequestedRecord
  <2> QED
    BY <1>0, <2>1, <2>2, CopiesUnchanged DEF CopiesInv, TabNeedsProcess
<1>2. CASE OpenStrategyTab
  <2>1. /\ running' /\ ~viewLoaded /\ viewLoaded' /\ savedStrats' = savedStrats
        /\ subscribedStrats' = savedStrats /\ UNCHANGED <<dbWrites, dbRecord, writeLost>>
    BY <1>2 DEF OpenStrategyTab, dbVars
  <2>2. Newest' = Newest /\ RequestedRecord' = RequestedRecord /\ writeLost' = writeLost
    BY <2>1 DEF Newest, RequestedRecord
  <2> QED
    BY <1>0, <2>1, <2>2, CopiesUnchanged DEF CopiesInv, TabNeedsProcess
<1>3. CASE Quit
  <2>1. /\ ~viewLoaded' /\ savedStrats' = savedStrats /\ dbWrites' = <<>> /\ dbRecord' = dbRecord
        /\ writeLost' = (writeLost \/ dbWrites # <<>>)
    BY <1>3 DEF Quit
  <2>2. savedStrats \in Seq(Strategies) /\ IsSuffix(savedStrats, savedStrats)
    BY <1>0, SuffixReflexive DEF TypeOK
  <2>3. ~writeLost' => RequestedRecord' = RequestedRecord /\ ~writeLost
    BY <2>1 DEF RequestedRecord
  <2>4. Newest' = savedStrats
    BY <2>1 DEF Newest
  <2>5. CopiesDifferByTrims'
    BY <2>1, <2>2, <2>3, CopiesTrimmed DEF CopiesDifferByTrims
  <2> QED
    BY <1>0, <2>1, <2>5 DEF CopiesInv, TabNeedsProcess
<1>4. ASSUME NEW s \in Strategies, NEW b \in Bounds, Subscribe(s, b)
      PROVE  CopiesInv'
  <2>1. /\ running' = running /\ running /\ viewLoaded' /\ savedStrats' = subscribedStrats'
        /\ SaveToFirebase(savedStrats')
    BY <1>4 DEF Subscribe
  <2> QED
    BY <1>0, <2>1, CopiesStored DEF CopiesInv, TabNeedsProcess
<1>5. ASSUME NEW s \in Strategies, Unsubscribe(s)
      PROVE  CopiesInv'
  <2>1. /\ running' = running /\ running /\ viewLoaded' /\ savedStrats' = subscribedStrats'
        /\ SaveToFirebase(savedStrats')
    BY <1>5 DEF Unsubscribe
  <2> QED
    BY <1>0, <2>1, CopiesStored DEF CopiesInv, TabNeedsProcess
<1>6. ASSUME NEW b \in Bounds, UnsubscribeIfNecessary(b)
      PROVE  CopiesInv'
  <2>1. UNCHANGED <<running, viewLoaded, subscribedStrats, dbWrites, dbRecord, writeLost>>
    BY <1>0, <1>6, TrimLemma
  <2>2. savedStrats' \in Seq(Strategies) /\ IsSuffix(savedStrats', savedStrats)
    <3>1. savedStrats \in Seq(Strategies)
      BY <1>0 DEF TypeOK
    <3>2. \/ savedStrats' = savedStrats
          \/ \E k \in 0..Len(savedStrats) : savedStrats' = SubSeq(savedStrats, k + 1, Len(savedStrats))
      BY <1>0, <1>6, TrimLemma
    <3> QED
      BY <3>1, <3>2, SuffixReflexive, SuffixSubSeq
  <2>3. RequestedRecord' = RequestedRecord /\ writeLost' = writeLost
    BY <2>1 DEF RequestedRecord
  <2>4. Newest' = Newest \/ Newest' = savedStrats'
    BY <2>1 DEF Newest
  <2>5. /\ IsSuffix(savedStrats', Newest')
        /\ RequestedRecord # NoRecord /\ ~writeLost
             => IsSuffix(Newest', RequestedRecord.subscription)
    BY <2>2, <2>4, CopiesTrimmed
  <2>6. CopiesDifferByTrims'
    BY <2>3, <2>5 DEF CopiesDifferByTrims, Newest
  <2> QED
    BY <1>0, <2>1, <2>6 DEF CopiesInv, TabNeedsProcess
<1>7. CASE WriteLands
  <2>1. /\ dbWrites # <<>> /\ dbRecord' = Head(dbWrites) /\ dbWrites' = Tail(dbWrites)
        /\ UNCHANGED <<running, viewLoaded, subscribedStrats, savedStrats, writeLost>>
    BY <1>7 DEF WriteLands, listVars
  <2>2. RequestedRecord' = RequestedRecord
    <3>1. dbWrites \in Seq(Records) /\ Len(dbWrites) \in Nat \ {0}
      BY <1>0, <2>1, LenProperties, EmptySeq DEF TypeOK
    <3>2. /\ Tail(dbWrites) \in Seq(Records) /\ Len(Tail(dbWrites)) = Len(dbWrites) - 1
          /\ \A i \in 1..(Len(dbWrites) - 1) : Tail(dbWrites)[i] = dbWrites[i + 1]
          /\ Head(dbWrites) = dbWrites[1]
      BY <2>1, <3>1, HeadTailProperties
    <3>3. PICK n \in Nat \ {0} : n = Len(dbWrites)
      BY <3>1
    <3>4. CASE n = 1
      <4>1. Len(Tail(dbWrites)) = 0
        BY <3>2, <3>3, <3>4
      <4>2. Tail(dbWrites) = <<>>
        BY <3>2, <4>1, EmptySeq
      <4> QED
        BY <2>1, <3>2, <3>3, <3>4, <4>2 DEF RequestedRecord, Last
    <3>5. CASE n > 1
      <4>1. Len(Tail(dbWrites)) = n - 1 /\ n - 1 # 0 /\ n - 1 \in 1..(n - 1)
        BY <3>2, <3>3, <3>5
      <4>2. Tail(dbWrites) # <<>>
        BY <4>1, EmptySeq
      <4>3. Tail(dbWrites)[n - 1] = dbWrites[(n - 1) + 1]
        BY <3>2, <3>3, <4>1
      <4>4. (n - 1) + 1 = n
        BY <3>5
      <4> QED
        BY <2>1, <3>3, <4>1, <4>2, <4>3, <4>4 DEF RequestedRecord, Last
    <3> QED
      BY <3>4, <3>5
  <2>3. Newest' = Newest
    BY <2>1 DEF Newest
  <2> QED
    BY <1>0, <2>1, <2>2, <2>3, CopiesUnchanged DEF CopiesInv, TabNeedsProcess
<1>8. CASE Proceed \/ Deliver \/ CallFails \/ UNCHANGED vars
  <2>1. UNCHANGED <<running, viewLoaded, subscribedStrats, savedStrats, dbWrites, dbRecord, writeLost>>
    BY <1>0, <1>8, CallStep DEF vars, listVars, dbVars
  <2>2. Newest' = Newest /\ RequestedRecord' = RequestedRecord
    BY <2>1 DEF Newest, RequestedRecord
  <2> QED
    BY <1>0, <2>1, <2>2, CopiesUnchanged DEF CopiesInv, TabNeedsProcess
<1> QED
  BY <1>1, <1>2, <1>3, <1>4, <1>5, <1>6, <1>7, <1>8 DEF Next, Follow, Unfollow, Trim

\* The list in UserDefaults, the list of the Strategy tab and the user's
\* record never differ by anything but trims and lost writes.
THEOREM CopiesAlwaysDifferByTrims == Spec => []CopiesDifferByTrims
<1>1. Init => CopiesInv
  <2> SUFFICES ASSUME Init PROVE CopiesInv
    OBVIOUS
  <2>1. IsSuffix(savedStrats, savedStrats) /\ Newest = savedStrats /\ RequestedRecord = NoRecord
    BY TypeInit, SuffixReflexive DEF Init, TypeOK, Newest, RequestedRecord
  <2>2. CopiesDifferByTrims
    BY <2>1 DEF CopiesDifferByTrims, Newest
  <2> QED
    BY <2>2, TypeInit, RecordInit DEF CopiesInv, TabNeedsProcess, Init
<1>2. CopiesInv => CopiesDifferByTrims
  BY DEF CopiesInv
<1> QED
  BY <1>1, <1>2, CopiesNext, PTL DEF Spec

-----------------------------------------------------------------------------
(* CheckedStrategyNotifies.  That no strategy is listed twice is needed: a *)
(* second entry would keep the checkmark of one whose topic was left.      *)

\* After Ask a topic will be registered if the new calls subscribe to it
\* last, or leave alone one that would have been.
LEMMA AskKeeps ==
  ASSUME TypeOK, NEW cs \in Seq(Calls), Ask(cs), NEW t,
         \/ \E i \in 1..Len(cs) :
              /\ cs[i] = Call("subscribe", t)
              /\ \A j \in 1..Len(cs) : j > i => cs[j].topic # t
         \/ /\ WillBeRegistered(t)
            /\ \A i \in 1..Len(cs) : cs[i].topic # t
  PROVE  WillBeRegistered(t)'
<1> DEFINE n == Len(fcmCalls)
           m == Len(cs)
<1>1. /\ DOMAIN fcmCalls = 1..n /\ n \in Nat
      /\ DOMAIN cs = 1..m /\ m \in Nat
      /\ DOMAIN fcmCalls' = 1..(n + m)
      /\ \A i \in 1..n : fcmCalls'[i] = fcmCalls[i]
      /\ \A i \in 1..m : fcmCalls'[n + i] = cs[i]
  BY AskQueue
<1>2. topics' = topics
  BY DEF Ask
<1> HIDE DEF n, m
<1>3. \A j \in 1..(n + m) : j > n => \E i \in 1..m : j = n + i /\ fcmCalls'[j] = cs[i]
  <2> SUFFICES ASSUME NEW j \in 1..(n + m), j > n
               PROVE  \E i \in 1..m : j = n + i /\ fcmCalls'[j] = cs[i]
    OBVIOUS
  <2>1. j - n \in 1..m /\ j = n + (j - n)
    BY <1>1
  <2> QED
    BY <1>1, <2>1
<1>4. ASSUME NEW i \in 1..m, cs[i] = Call("subscribe", t), \A j \in 1..m : j > i => cs[j].topic # t
      PROVE  WillBeRegistered(t)'
  <2>1. n + i \in 1..(n + m) /\ fcmCalls'[n + i] = Call("subscribe", t)
    BY <1>1, <1>4
  <2>2. \A j \in 1..(n + m) : j > n + i => fcmCalls'[j].topic # t
    BY <1>1, <1>3, <1>4
  <2> QED
    BY <1>1, <2>1, <2>2 DEF WillBeRegistered, Asked, About, AsksLast
<1>5. ASSUME WillBeRegistered(t), \A i \in 1..m : cs[i].topic # t
      PROVE  WillBeRegistered(t)'
  <2>1. \A j \in 1..(n + m) : j > n => fcmCalls'[j].topic # t
    BY <1>3, <1>5
  <2>2. CASE t \in topics /\ \A i \in DOMAIN fcmCalls : fcmCalls[i].topic # t
    <3>1. \A j \in 1..(n + m) : fcmCalls'[j].topic # t
      BY <1>1, <2>1, <2>2
    <3> QED
      BY <1>1, <1>2, <2>2, <3>1 DEF WillBeRegistered, Asked, About, AsksLast
  <2>3. ASSUME NEW k \in 1..n, fcmCalls[k] = Call("subscribe", t),
               \A j \in 1..n : j > k => fcmCalls[j].topic # t
        PROVE  WillBeRegistered(t)'
    <3>1. k \in 1..(n + m) /\ fcmCalls'[k] = Call("subscribe", t)
      BY <1>1, <2>3
    <3>2. \A j \in 1..(n + m) : j > k => fcmCalls'[j].topic # t
      BY <1>1, <2>1, <2>3
    <3> QED
      BY <1>1, <3>1, <3>2 DEF WillBeRegistered, Asked, About, AsksLast
  <2> QED
    BY <1>1, <1>5, <2>2, <2>3 DEF WillBeRegistered, Asked, About, AsksLast
<1> QED
  BY <1>4, <1>5 DEF m

CheckInv == TypeOK /\ FollowedOnce /\ CheckedStrategyNotifies

\* The checkmarks after a step that asks for the calls cs: each was there
\* before and the calls leave it alone, or the calls subscribe to it last.
LEMMA AskChecks ==
  ASSUME CheckInv, NEW cs \in Seq(Calls), Ask(cs),
         \A t \in ToSet(subscribedStrats') \ trimmed' :
           \/ \E i \in 1..Len(cs) :
                /\ cs[i] = Call("subscribe", t)
                /\ \A j \in 1..Len(cs) : j > i => cs[j].topic # t
           \/ /\ viewLoaded /\ t \in ToSet(subscribedStrats) \ trimmed
              /\ \A i \in 1..Len(cs) : cs[i].topic # t
  PROVE  CheckedStrategyNotifies'
<1> SUFFICES ASSUME NEW t \in ToSet(subscribedStrats') \ (trimmed' \cup lost' \cup overtaken')
             PROVE  WillBeRegistered(t)'
  BY DEF CheckedStrategyNotifies
<1>1. CASE \E i \in 1..Len(cs) :
                /\ cs[i] = Call("subscribe", t)
                /\ \A j \in 1..Len(cs) : j > i => cs[j].topic # t
  BY <1>1, AskKeeps DEF CheckInv
<1>2. CASE /\ viewLoaded /\ t \in ToSet(subscribedStrats) \ trimmed
           /\ \A i \in 1..Len(cs) : cs[i].topic # t
  <2>1. DOMAIN cs = 1..Len(cs)
    BY LenProperties
  <2>2. t \notin lost \cup overtaken
    BY <1>2, <2>1 DEF Ask
  <2>3. WillBeRegistered(t)
    BY <1>2, <2>2 DEF CheckInv, CheckedStrategyNotifies
  <2> QED
    BY <1>2, <2>3, AskKeeps DEF CheckInv
<1> QED
  BY <1>1, <1>2

LEMMA CheckNext ==
  ASSUME CheckInv, [Next]_vars
  PROVE  CheckInv'
<1>0. TypeOK /\ FollowedOnce /\ CheckedStrategyNotifies /\ TypeOK' /\ FollowedOnce'
  BY TypeNext, OnceNext DEF CheckInv
<1>a. /\ savedStrats \in Seq(Strategies) /\ subscribedStrats \in Seq(Strategies)
      /\ IsInjective(savedStrats) /\ IsInjective(subscribedStrats)
      /\ DOMAIN savedStrats = 1..Len(savedStrats) /\ DOMAIN subscribedStrats = 1..Len(subscribedStrats)
  BY <1>0, LenProperties DEF TypeOK, FollowedOnce
<1>1. CASE Launch \/ Quit
  BY <1>0, <1>1 DEF Launch, Quit, CheckInv, CheckedStrategyNotifies
<1>2. CASE OpenStrategyTab
  <2> DEFINE cs == CallForEach("subscribe", savedStrats)
  <2>1. /\ cs \in Seq(Calls)
        /\ Len(cs) = Len(savedStrats)
        /\ \A i \in 1..Len(savedStrats) : cs[i] = Call("subscribe", savedStrats[i])
    BY <1>a, CallForEachType
  <2>2. Ask(cs) /\ subscribedStrats' = savedStrats
    BY <1>2 DEF OpenStrategyTab
  <2> HIDE DEF cs
  <2>3. \A i, j \in 1..Len(savedStrats) : savedStrats[i] = savedStrats[j] => i = j
    BY <1>a, InjectiveByPosition
  <2>4. \A t \in ToSet(subscribedStrats') : \E i \in 1..Len(cs) :
          cs[i] = Call("subscribe", t) /\ \A j \in 1..Len(cs) : j > i => cs[j].topic # t
    <3> SUFFICES ASSUME NEW i \in 1..Len(savedStrats), NEW j \in 1..Len(savedStrats), j > i
                 PROVE  cs[j].topic # savedStrats[i]
      BY <1>a, <2>1, <2>2 DEF ToSet
    <3>1. cs[j].topic = savedStrats[j] /\ i # j
      BY <2>1, CallElements
    <3> QED
      BY <2>3, <3>1
  <2>5. CheckedStrategyNotifies'
    BY <2>1, <2>2, <2>4, AskChecks
  <2> QED
    BY <1>0, <2>5 DEF CheckInv
<1>3. ASSUME NEW s \in Strategies, NEW b \in Bounds, Subscribe(s, b)
      PROVE  CheckInv'
  <2> DEFINE cs == <<Call("subscribe", s)>>
  <2>1. /\ cs \in Seq(Calls) /\ Ask(cs) /\ viewLoaded
        /\ subscribedStrats' = Append(subscribedStrats, s) /\ trimmed' = trimmed \ {s}
    BY <1>3, CallTypes DEF Subscribe
  <2>2. \A t \in ToSet(subscribedStrats') : t = s \/ t \in ToSet(subscribedStrats)
    BY <1>a, <2>1 DEF ToSet
  <2>3. /\ Len(cs) = 1 /\ cs[1] = Call("subscribe", s) /\ cs[1].topic = s
    BY CallElements
  <2> HIDE DEF cs
  <2>4. /\ 1 \in 1..Len(cs) /\ \A j \in 1..Len(cs) : ~(j > 1)
        /\ \A i \in 1..Len(cs) : cs[i].topic = s
    BY <2>3
  <2>5. \A t \in ToSet(subscribedStrats') \ trimmed' :
          t = s \/ (t \in ToSet(subscribedStrats) \ trimmed /\ \A i \in 1..Len(cs) : cs[i].topic # t)
    BY <2>1, <2>2, <2>4
  <2>6. CheckedStrategyNotifies'
    BY <2>1, <2>3, <2>4, <2>5, AskChecks
  <2> QED
    BY <1>0, <2>6 DEF CheckInv
<1>4. ASSUME NEW s \in Strategies, Unsubscribe(s)
      PROVE  CheckInv'
  <2> DEFINE cs == <<Call("unsubscribe", s)>>
  <2>1. /\ cs \in Seq(Calls) /\ Ask(cs) /\ viewLoaded /\ trimmed' = trimmed
    BY <1>4, CallTypes DEF Unsubscribe
  <2>2. PICK k \in 1..Len(subscribedStrats) :
          subscribedStrats[k] = s /\ subscribedStrats' = RemoveAt(subscribedStrats, k)
    BY <1>4, <1>a DEF Unsubscribe
  <2>3. \A t \in ToSet(subscribedStrats') : t # s /\ t \in ToSet(subscribedStrats)
    <3>1. /\ subscribedStrats' \in Seq(Strategies) /\ Len(subscribedStrats) \in Nat
          /\ Len(subscribedStrats') = Len(subscribedStrats) - 1
          /\ \A i \in 1..(k - 1) : subscribedStrats'[i] = subscribedStrats[i]
          /\ \A i \in k..(Len(subscribedStrats) - 1) : subscribedStrats'[i] = subscribedStrats[i + 1]
      BY <1>a, <2>2, RemoveAtLemma, LenProperties
    <3>2. DOMAIN subscribedStrats' = 1..(Len(subscribedStrats) - 1)
      BY <3>1, LenProperties
    <3>3. ~Contains(subscribedStrats', s)
      BY <1>a, <2>2, InjectiveRemoveAt
    <3>4. \A i \in 1..(Len(subscribedStrats) - 1) : subscribedStrats'[i] # s
      BY <3>1, <3>3 DEF Contains
    <3>5. \A i \in 1..(Len(subscribedStrats) - 1) :
            \E j \in 1..Len(subscribedStrats) : subscribedStrats'[i] = subscribedStrats[j]
      <4> TAKE i \in 1..(Len(subscribedStrats) - 1)
      <4>1. CASE i < k
        BY <3>1, <4>1
      <4>2. CASE ~(i < k)
        BY <3>1, <4>2
      <4> QED
        BY <4>1, <4>2
    <3> QED
      BY <1>a, <3>2, <3>4, <3>5 DEF ToSet
  <2>4. \A i \in 1..Len(cs) : cs[i].topic = s
    BY CallElements
  <2> HIDE DEF cs
  <2>5. CheckedStrategyNotifies'
    BY <2>1, <2>3, <2>4, AskChecks
  <2> QED
    BY <1>0, <2>5 DEF CheckInv
<1>5. ASSUME NEW b \in Bounds, UnsubscribeIfNecessary(b)
      PROVE  CheckInv'
  <2>1. CASE Len(savedStrats) <= b
    BY <1>0, <1>5, <2>1 DEF UnsubscribeIfNecessary, vars, listVars, fcmVars, dbVars,
       CheckInv, CheckedStrategyNotifies, WillBeRegistered, Asked, About, AsksLast
  <2>2. CASE ~(Len(savedStrats) <= b)
    <3> DEFINE n == Len(savedStrats) - b
               removed == SubSeq(savedStrats, 1, n)
               cs == CallForEach("unsubscribe", removed)
    <3>1. n \in 1..Len(savedStrats)
      BY <2>2, FollowListAssumption, LenProperties DEF TypeOK, CheckInv
    <3>2. removed \in Seq(Strategies)
      BY <3>1, <1>a, SubSeqProperties
    <3>3. /\ Ask(cs) /\ UNCHANGED <<viewLoaded, subscribedStrats>>
          /\ trimmed' = trimmed \cup ToSet(removed)
      BY <1>5, <2>2 DEF UnsubscribeIfNecessary
    <3> HIDE DEF n, removed
    <3>4. /\ cs \in Seq(Calls) /\ Len(cs) = Len(removed) /\ DOMAIN removed = 1..Len(removed)
          /\ \A i \in 1..Len(removed) : cs[i] = Call("unsubscribe", removed[i])
      BY <3>2, CallForEachType, LenProperties
    <3> HIDE DEF cs
    <3>5. \A i \in 1..Len(cs) : cs[i].topic \in trimmed'
      BY <3>3, <3>4, CallElements DEF ToSet
    <3>6. CASE viewLoaded
      <4>1. \A t \in ToSet(subscribedStrats') \ trimmed' :
              /\ t \in ToSet(subscribedStrats) \ trimmed
              /\ \A i \in 1..Len(cs) : cs[i].topic # t
        BY <3>3, <3>5
      <4>2. CheckedStrategyNotifies'
        BY <3>3, <3>4, <3>6, <4>1, AskChecks
      <4> QED
        BY <1>0, <4>2 DEF CheckInv
    <3>7. CASE ~viewLoaded
      BY <1>0, <3>3, <3>7 DEF CheckInv, CheckedStrategyNotifies
    <3> QED
      BY <3>6, <3>7
  <2> QED
    BY <2>1, <2>2
<1>6. CASE Proceed \/ Deliver \/ CallFails
  <2>1. /\ UNCHANGED <<viewLoaded, subscribedStrats, trimmed>>
        /\ lost \subseteq lost' /\ overtaken \subseteq overtaken'
        /\ \A t \in Strategies \ (lost' \cup overtaken') : WillBeRegistered(t)' <=> WillBeRegistered(t)
    BY <1>0, <1>6, CallStep
  <2>2. ToSet(subscribedStrats) \subseteq Strategies
    BY <1>a, ElementOfSeq DEF ToSet
  <2> QED
    BY <1>0, <2>1, <2>2 DEF CheckInv, CheckedStrategyNotifies
<1>7. CASE WriteLands \/ UNCHANGED vars
  BY <1>0, <1>7 DEF WriteLands, vars, listVars, fcmVars, CheckInv, CheckedStrategyNotifies,
     WillBeRegistered, Asked, About, AsksLast
<1> QED
  BY <1>1, <1>2, <1>3, <1>4, <1>5, <1>6, <1>7 DEF Next, Follow, Unfollow, Trim

\* Every strategy the Strategy tab marks as followed has its notification, or
\* will have it, unless a trim, the loss of a request or a request that
\* overtook a contrary one separated the two.
THEOREM CheckedAlwaysNotifies == Spec => []CheckedStrategyNotifies
<1>1. Init => CheckInv
  BY TypeInit, OnceInit DEF CheckInv, CheckedStrategyNotifies, Init
<1>2. CheckInv => CheckedStrategyNotifies
  BY DEF CheckInv
<1> QED
  BY <1>1, <1>2, CheckNext, PTL DEF Spec

=============================================================================
