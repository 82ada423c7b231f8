------------------------- MODULE PendingTopicsProofs -------------------------
(***************************************************************************)
(* Proofs about PendingTopics, for every set of topics and every bound:    *)
(* the completion block of a request always finds the batch the request    *)
(* was made for, the last operation asked for a topic decides unless its   *)
(* batch overtook another or a request given up on was executed after      *)
(* everything else, and the list implements TopicRegister.                 *)
(***************************************************************************)
EXTENDS PendingTopics, SequenceTheorems, FiniteSetTheorems, TLAPS

\* The end of the process leaves nothing under way.
NothingRunsWhenDead == ~running => requests = {} /\ currentBatch = 0

BatchInv == TypeOK /\ InFlightIsCurrent /\ NoEmptyBatch /\ NothingRunsWhenDead

-----------------------------------------------------------------------------
(* Sequences of batches *)

\* Removing the element at a position keeps the others and the type.
LEMMA RemoveAtLemma ==
  ASSUME NEW S, NEW s \in Seq(S), NEW k \in 1..Len(s)
  PROVE  /\ RemoveAt(s, k) \in Seq(S)
         /\ Len(RemoveAt(s, k)) = Len(s) - 1
         /\ \A i \in 1..(k - 1) : RemoveAt(s, k)[i] = s[i]
         /\ \A i \in k..(Len(s) - 1) : RemoveAt(s, k)[i] = s[i + 1]
<1> DEFINE a == SubSeq(s, 1, k - 1)
           b == SubSeq(s, k + 1, Len(s))
<1>1. /\ a \in Seq(S) /\ Len(a) = k - 1
      /\ \A i \in 1..(k - 1) : a[i] = s[i]
  BY SubSeqProperties
<1>2. /\ b \in Seq(S) /\ Len(b) = Len(s) - k
      /\ \A i \in 1..(Len(s) - k) : b[i] = s[k + i]
  BY SubSeqProperties
<1>3. RemoveAt(s, k) = a \o b
  BY DEF RemoveAt
<1> HIDE DEF a, b
<1>4. /\ a \o b \in Seq(S)
      /\ Len(a \o b) = Len(s) - 1
      /\ \A i \in 1..(k - 1) : (a \o b)[i] = a[i]
      /\ \A i \in k..(Len(s) - 1) : (a \o b)[i] = b[i - (k - 1)]
  BY <1>1, <1>2, ConcatProperties
<1>5. \A i \in k..(Len(s) - 1) : b[i - (k - 1)] = s[i + 1]
  <2> TAKE i \in k..(Len(s) - 1)
  <2>1. Len(s) \in Nat
    BY LenProperties
  <2>2. i - (k - 1) \in 1..(Len(s) - k) /\ k + (i - (k - 1)) = i + 1
    BY <2>1
  <2> QED
    BY <1>2, <2>2
<1> QED
  BY <1>1, <1>3, <1>4, <1>5

\* The batches of a list, by position.
LEMMA BatchType ==
  ASSUME NEW bs \in Seq(Batches), NEW i \in 1..Len(bs)
  PROVE  bs[i] \in Batches /\ bs[i].action \in Actions /\ bs[i].topics \subseteq Topics
<1>1. bs[i] \in Batches
  BY ElementOfSeq
<1> QED
  BY <1>1 DEF Batches

\* Every topic of a list of batches is one of Topics.
LEMMA TopicsOfType ==
  ASSUME NEW bs \in Seq(Batches)
  PROVE  TopicsOf(bs) \subseteq Topics
<1>1. \A i \in DOMAIN bs : bs[i].topics \subseteq Topics
  BY BatchType, LenProperties
<1> QED
  BY <1>1 DEF TopicsOf

\* The list bs with the topics ts in its n-th batch.
WithTopics(bs, n, ts) == [bs EXCEPT ![n].topics = ts]

\* Replacing the topics of one batch keeps everything else.
LEMMA ExceptTopics ==
  ASSUME NEW bs \in Seq(Batches), NEW n \in 1..Len(bs), NEW ts \in SUBSET Topics
  PROVE  /\ WithTopics(bs, n, ts) \in Seq(Batches)
         /\ Len(WithTopics(bs, n, ts)) = Len(bs)
         /\ \A i \in 1..Len(bs) : i # n => WithTopics(bs, n, ts)[i] = bs[i]
         /\ WithTopics(bs, n, ts)[n].action = bs[n].action
         /\ WithTopics(bs, n, ts)[n].topics = ts
<1> DEFINE b == [bs[n] EXCEPT !.topics = ts]
<1>1. bs[n] \in Batches /\ bs \in [1..Len(bs) -> Batches]
  BY ElementOfSeq, LenProperties
<1>2. b \in Batches /\ b.action = bs[n].action /\ b.topics = ts
  BY <1>1 DEF Batches
<1>3. WithTopics(bs, n, ts) = [bs EXCEPT ![n] = b]
  BY DEF WithTopics
<1> HIDE DEF b
<1>4. [bs EXCEPT ![n] = b] \in Seq(Batches) /\ Len([bs EXCEPT ![n] = b]) = Len(bs)
  BY <1>2, ExceptSeq
<1> QED
  BY <1>1, <1>2, <1>3, <1>4

-----------------------------------------------------------------------------
(* The operations of the list *)

\* Only operations that were requested go adrift.
LEMMA AdriftType ==
  ASSUME TypeOK, NEW rs \in SUBSET requests, GoAdrift(rs)
  PROVE  /\ adrift' \subseteq [action : Actions, topic : Topics]
         /\ \E some \in SUBSET {Operation(r) : r \in rs} : adrift' = adrift \cup some
<1>1. PICK some \in SUBSET {Operation(r) : r \in {q \in rs : q.result = "none" /\ ~q.executed}} :
        adrift' = adrift \cup some
  BY DEF GoAdrift
<1>2. some \in SUBSET {Operation(r) : r \in rs}
  OBVIOUS
<1>3. \A r \in rs : Operation(r) \in [action : Actions, topic : Topics]
  BY DEF TypeOK, Requests, Operation
<1>4. some \subseteq [action : Actions, topic : Topics]
  BY <1>2, <1>3
<1> QED
  BY <1>1, <1>2, <1>4 DEF TypeOK

\* addOperationForTopic only adds: the batches keep their places, actions and
\* topics, and the last one has the new topic.
LEMMA AddedBatches ==
  ASSUME TypeOK, NEW topic \in Topics, NEW action \in Actions, AddOperation(topic, action)
  PROVE  \E n \in 1..(Len(topicBatches) + 1) :
           /\ topicBatches' \in Seq(Batches)
           /\ Len(topicBatches') = n /\ n >= Len(topicBatches)
           /\ \A i \in 1..Len(topicBatches) :
                /\ topicBatches'[i].action = topicBatches[i].action
                /\ topicBatches[i].topics \subseteq topicBatches'[i].topics
           /\ topic \in topicBatches'[n].topics
           /\ currentBatch' = IF currentBatch = 0 THEN n ELSE currentBatch
           /\ overtaken' \subseteq Topics
           /\ resumes' \in Nat
<1> DEFINE newBatch == topicBatches = <<>> \/ Last(topicBatches).action # action
           n == IF newBatch THEN Len(topicBatches) + 1 ELSE Len(topicBatches)
           empty == [action |-> action, topics |-> {}]
           batches == IF newBatch THEN Append(topicBatches, empty) ELSE topicBatches
<1>1. topicBatches \in Seq(Batches) /\ Len(topicBatches) \in Nat
  BY LenProperties DEF TypeOK
<1>2. empty \in Batches
  BY DEF Batches
<1> HIDE DEF empty
<1>3. /\ batches \in Seq(Batches) /\ Len(batches) = n /\ n \in 1..(Len(topicBatches) + 1)
      /\ n >= Len(topicBatches)
      /\ \A i \in 1..Len(topicBatches) : batches[i] = topicBatches[i]
  BY <1>1, <1>2, AppendProperties, EmptySeq
<1> DEFINE ts == batches[n].topics \cup {topic}
<1>4. /\ topicBatches' = [batches EXCEPT ![n].topics = ts]
      /\ currentBatch' = IF currentBatch = 0 THEN n ELSE currentBatch
      /\ resumes' \in {resumes, resumes + 1}
      /\ overtaken' \in {overtaken, overtaken \ {topic},
                         overtaken \cup TopicsOf(SubSeq(batches, 1, n - 1))}
  BY DEF AddOperation, empty
<1> HIDE DEF newBatch, n, batches
<1>5. ts \subseteq Topics /\ topic \in ts
  BY <1>3, BatchType
<1>6. /\ topicBatches' \in Seq(Batches) /\ Len(topicBatches') = n
      /\ \A i \in 1..Len(batches) : i # n => topicBatches'[i] = batches[i]
      /\ topicBatches'[n].action = batches[n].action
      /\ topicBatches'[n].topics = ts
  <2> HIDE DEF ts
  <2> DEFINE last == [batches[n] EXCEPT !.topics = ts]
  <2>1. batches \in Seq(Batches) /\ n \in 1..Len(batches)
    BY <1>1, <1>3
  <2>2. batches[n] \in Batches
    BY <2>1, ElementOfSeq
  <2>3. last \in Batches /\ last.action = batches[n].action /\ last.topics = ts
    BY <1>5, <2>2 DEF Batches
  <2>4. topicBatches' = [batches EXCEPT ![n] = last]
    BY <1>4
  <2> HIDE DEF last
  <2> QED
    BY <1>3, <2>1, <2>3, <2>4, ExceptSeq
<1>7. TopicsOf(SubSeq(batches, 1, n - 1)) \subseteq Topics
  <2>1. SubSeq(batches, 1, n - 1) \in Seq(Batches)
    BY <1>3, SubSeqProperties
  <2> QED
    BY <2>1, TopicsOfType
<1>8. overtaken' \subseteq Topics /\ resumes' \in Nat
  BY <1>4, <1>7 DEF TypeOK
<1>9. \A i \in 1..Len(topicBatches) :
        /\ topicBatches'[i].action = topicBatches[i].action
        /\ topicBatches[i].topics \subseteq topicBatches'[i].topics
  BY <1>1, <1>3, <1>6
<1> QED
  BY <1>3, <1>4, <1>6, <1>8, <1>9

LEMMA AddKeepsBatchInv ==
  ASSUME BatchInv, NEW topic \in Topics, NEW action \in Actions, AddOperation(topic, action)
  PROVE  BatchInv'
<1> USE DEF BatchInv
<1>1. PICK n \in 1..(Len(topicBatches) + 1) :
           /\ topicBatches' \in Seq(Batches)
           /\ Len(topicBatches') = n /\ n >= Len(topicBatches)
           /\ \A i \in 1..Len(topicBatches) :
                /\ topicBatches'[i].action = topicBatches[i].action
                /\ topicBatches[i].topics \subseteq topicBatches'[i].topics
           /\ topic \in topicBatches'[n].topics
           /\ currentBatch' = IF currentBatch = 0 THEN n ELSE currentBatch
           /\ overtaken' \subseteq Topics
           /\ resumes' \in Nat
  BY AddedBatches
<1>2. /\ UNCHANGED <<running, canRequest, topicsInFlight, requests, adrift, registered, belated,
                      refused>>
      /\ wanted' = [wanted EXCEPT ![topic] = action] /\ running
  BY DEF AddOperation, serverVars
<1>3. Len(topicBatches) \in Nat /\ currentBatch \in 0..Len(topicBatches)
  BY LenProperties DEF TypeOK
<1>4. TypeOK'
  <2>1. currentBatch' \in 0..Len(topicBatches')
    BY <1>1, <1>3
  <2>2. wanted' \in [Topics -> Actions \cup {"none"}]
    BY <1>2 DEF TypeOK
  <2> QED
    BY <1>1, <1>2, <2>1, <2>2 DEF TypeOK
<1>5. InFlightIsCurrent'
  BY <1>1, <1>2, <1>3 DEF InFlightIsCurrent
<1>6. NoEmptyBatch'
  <2> SUFFICES ASSUME NEW i \in 1..n
               PROVE  topicBatches'[i].topics # {}
    BY <1>1, LenProperties DEF NoEmptyBatch
  <2>1. CASE i = n
    BY <1>1, <2>1
  <2>2. CASE i # n
    <3>1. i \in 1..Len(topicBatches) /\ i \in DOMAIN topicBatches
      BY <1>1, <1>3, <2>2, LenProperties DEF TypeOK
    <3> QED
      BY <1>1, <3>1 DEF NoEmptyBatch
  <2> QED
    BY <2>1, <2>2
<1> QED
  BY <1>2, <1>4, <1>5, <1>6 DEF NothingRunsWhenDead

\* resumeOperationsIfNeeded requests topics of the batch it makes current.
LEMMA ResumeKeepsBatchInv ==
  ASSUME BatchInv, running, NEW tokenKnown \in BOOLEAN, ResumeOperationsIfNeeded(tokenKnown),
         canRequest' \in BOOLEAN, resumes' \in Nat
  PROVE  BatchInv'
<1> USE DEF BatchInv
<1> DEFINE current == IF currentBatch = 0 /\ topicBatches # <<>> THEN 1 ELSE currentBatch
           idle == IF current = 0 \/ ~tokenKnown THEN {}
                   ELSE topicBatches[current].topics \ topicsInFlight
           new == {[action |-> topicBatches[current].action, topic |-> t,
                    executed |-> FALSE, result |-> "none"] : t \in idle}
<1>1. /\ currentBatch' = current
      /\ topicsInFlight' = topicsInFlight \cup idle
      /\ requests' = requests \cup new
      /\ UNCHANGED <<topicBatches, adrift, registered, belated, running, wanted, refused,
                      overtaken>>
  BY DEF ResumeOperationsIfNeeded, serverVars, historyVars
<1>2. topicBatches \in Seq(Batches) /\ Len(topicBatches) \in Nat /\ current \in 0..Len(topicBatches)
  BY LenProperties, EmptySeq DEF TypeOK
<1>3. currentBatch # 0 => current = currentBatch
  OBVIOUS
<1>4. /\ idle \subseteq Topics /\ idle \cap topicsInFlight = {}
      /\ idle # {} => current # 0 /\ topicBatches[current].action \in Actions
      /\ \A t \in idle : t \in topicBatches[current].topics
  BY <1>2, BatchType
<1> HIDE DEF current, idle
<1>5. /\ new \subseteq Requests
      /\ \A t \in idle : \E r \in new : r.topic = t
      /\ \A r \in new : r.action = topicBatches[current].action /\ r.topic \in idle
      /\ \A r1, r2 \in new : r1.topic = r2.topic => r1 = r2
  <2> DEFINE requestFor(t) == [action |-> topicBatches[current].action, topic |-> t,
                               executed |-> FALSE, result |-> "none"]
  <2>1. \A t \in idle : requestFor(t) \in Requests /\ requestFor(t).topic = t
                       /\ requestFor(t).action = topicBatches[current].action
    BY <1>4 DEF Requests
  <2>2. new = {requestFor(t) : t \in idle}
    OBVIOUS
  <2> HIDE DEF requestFor, new
  <2> QED
    BY <2>1, <2>2
<1> HIDE DEF new
<1>6. TypeOK'
  BY <1>1, <1>2, <1>4, <1>5 DEF TypeOK
<1>7. InFlightIsCurrent'
  <2>1. topicsInFlight' = {r.topic : r \in requests'}
    BY <1>1, <1>5 DEF InFlightIsCurrent
  <2>2. \A r \in requests' : /\ currentBatch' # 0
                             /\ r.topic \in topicBatches'[currentBatch'].topics
                             /\ r.action = topicBatches'[currentBatch'].action
    BY <1>1, <1>3, <1>4, <1>5 DEF InFlightIsCurrent
  <2>3. \A r1 \in requests, r2 \in new : r1.topic # r2.topic
    BY <1>4, <1>5 DEF InFlightIsCurrent
  <2>4. \A r1, r2 \in requests' : r1.topic = r2.topic => r1 = r2
    BY <1>1, <1>5, <2>3 DEF InFlightIsCurrent
  <2> QED
    BY <2>1, <2>2, <2>4 DEF InFlightIsCurrent
<1> QED
  BY <1>1, <1>6, <1>7 DEF NoEmptyBatch, NothingRunsWhenDead

\* The server changes a request, never what it is about.
LEMMA ServerKeepsBatchInv ==
  ASSUME BatchInv, NEW r \in requests, NEW q \in Requests,
         q.topic = r.topic, q.action = r.action,
         requests' = (requests \ {r}) \cup {q},
         adrift' \subseteq [action : Actions, topic : Topics],
         registered' \subseteq Topics, belated' \subseteq Topics,
         UNCHANGED <<running, canRequest, clientVars, historyVars>>
  PROVE  BatchInv'
<1> USE DEF BatchInv
<1>1. UNCHANGED <<running, canRequest, topicBatches, currentBatch, topicsInFlight, resumes,
                  wanted, refused, overtaken>>
  BY DEF clientVars, historyVars
<1>2. TypeOK'
  BY <1>1 DEF TypeOK
<1>3. InFlightIsCurrent'
  <2>1. {x.topic : x \in requests'} = {x.topic : x \in requests}
    OBVIOUS
  <2>2. \A x \in requests' : /\ currentBatch # 0
                             /\ x.topic \in topicBatches[currentBatch].topics
                             /\ x.action = topicBatches[currentBatch].action
    BY DEF InFlightIsCurrent
  <2>3. \A r1, r2 \in requests' : r1.topic = r2.topic => r1 = r2
    BY DEF InFlightIsCurrent
  <2> QED
    BY <1>1, <2>1, <2>2, <2>3 DEF InFlightIsCurrent
<1> QED
  BY <1>1, <1>2, <1>3 DEF NoEmptyBatch, NothingRunsWhenDead

\* A batch leaves only when nothing of it is in flight any more.
LEMMA CompleteKeepsBatchInv ==
  ASSUME BatchInv, NEW r \in requests, Complete(r)
  PROVE  BatchInv'
<1> USE DEF BatchInv
<1> DEFINE left == topicBatches[currentBatch].topics \ {r.topic}
<1>1. /\ requests' = requests \ {r} /\ topicsInFlight' = topicsInFlight \ {r.topic}
      /\ UNCHANGED <<running, canRequest, adrift, registered, belated, wanted, overtaken>>
  BY DEF Complete, serverVars
<1>2. topicBatches \in Seq(Batches) /\ Len(topicBatches) \in Nat
      /\ DOMAIN topicBatches = 1..Len(topicBatches)
  BY LenProperties DEF TypeOK
<1>3. currentBatch \in 1..Len(topicBatches)
  BY <1>2 DEF InFlightIsCurrent, TypeOK
<1>4. r.topic \in Topics /\ running
  BY DEF TypeOK, Requests, NothingRunsWhenDead
<1>5. left \subseteq Topics
  BY <1>2, <1>3, BatchType
<1>6. \A x \in requests' : x.topic \in left /\ x.action = topicBatches[currentBatch].action
  BY <1>1 DEF InFlightIsCurrent
<1>7. topicsInFlight' = {x.topic : x \in requests'}
  BY <1>1 DEF InFlightIsCurrent
<1>8. \A r1, r2 \in requests' : r1.topic = r2.topic => r1 = r2
  BY <1>1 DEF InFlightIsCurrent
<1>9. CASE r.result = "network"
  <2>1. UNCHANGED <<topicBatches, currentBatch, resumes, refused>>
    BY <1>9 DEF Complete
  <2>2. TypeOK'
    BY <1>1, <2>1 DEF TypeOK
  <2>3. InFlightIsCurrent'
    BY <1>3, <1>6, <1>7, <1>8, <2>1 DEF InFlightIsCurrent
  <2> QED
    BY <1>1, <2>1, <2>2, <2>3 DEF NoEmptyBatch, NothingRunsWhenDead
<1>10. CASE r.result # "network"
  <2>1. resumes' = resumes + 1 /\ refused' \in {refused \cup {r.topic}, refused \ {r.topic}}
    BY <1>10 DEF Complete
  <2>2. resumes' \in Nat /\ refused' \subseteq Topics
    BY <1>4, <2>1 DEF TypeOK
  <2>3. CASE left = {}
    <3>1. topicBatches' = RemoveAt(topicBatches, currentBatch) /\ currentBatch' = 0
      BY <1>10, <2>3 DEF Complete
    <3>2. /\ topicBatches' \in Seq(Batches) /\ Len(topicBatches') = Len(topicBatches) - 1
          /\ \A i \in 1..(Len(topicBatches) - 1) :
               topicBatches'[i] = topicBatches[IF i < currentBatch THEN i ELSE i + 1]
      <4>1. /\ RemoveAt(topicBatches, currentBatch) \in Seq(Batches)
            /\ Len(RemoveAt(topicBatches, currentBatch)) = Len(topicBatches) - 1
            /\ \A i \in 1..(currentBatch - 1) :
                 RemoveAt(topicBatches, currentBatch)[i] = topicBatches[i]
            /\ \A i \in currentBatch..(Len(topicBatches) - 1) :
                 RemoveAt(topicBatches, currentBatch)[i] = topicBatches[i + 1]
        BY <1>2, <1>3, RemoveAtLemma
      <4> QED
        BY <1>2, <1>3, <3>1, <4>1
    <3>3. requests' = {}
      BY <1>6, <2>3
    <3>4. TypeOK'
      BY <1>1, <1>2, <2>2, <3>1, <3>2, <3>3 DEF TypeOK
    <3>5. NoEmptyBatch'
      <4> SUFFICES ASSUME NEW i \in 1..(Len(topicBatches) - 1)
                   PROVE  topicBatches'[i].topics # {}
        BY <3>2, LenProperties DEF NoEmptyBatch
      <4>1. (IF i < currentBatch THEN i ELSE i + 1) \in DOMAIN topicBatches
        BY <1>2, <1>3
      <4> QED
        BY <3>2, <4>1 DEF NoEmptyBatch
    <3> QED
      BY <1>1, <1>7, <3>1, <3>3, <3>4, <3>5 DEF InFlightIsCurrent, NothingRunsWhenDead
  <2>4. CASE left # {}
    <3>1. topicBatches' = WithTopics(topicBatches, currentBatch, left)
          /\ currentBatch' = currentBatch
      BY <1>10, <2>4 DEF Complete, WithTopics
    <3> HIDE DEF left
    <3>2. /\ topicBatches' \in Seq(Batches) /\ Len(topicBatches') = Len(topicBatches)
          /\ \A i \in 1..Len(topicBatches) : i # currentBatch => topicBatches'[i] = topicBatches[i]
          /\ topicBatches'[currentBatch].action = topicBatches[currentBatch].action
          /\ topicBatches'[currentBatch].topics = left
      BY <1>2, <1>3, <1>5, <3>1, ExceptTopics
    <3>3. TypeOK'
      BY <1>1, <2>2, <3>1, <3>2 DEF TypeOK
    <3>4. NoEmptyBatch'
      BY <1>2, <2>4, <3>2, LenProperties DEF NoEmptyBatch
    <3>5. InFlightIsCurrent'
      BY <1>3, <1>6, <1>7, <1>8, <3>1, <3>2 DEF InFlightIsCurrent
    <3> QED
      BY <1>1, <1>4, <3>3, <3>4, <3>5 DEF NothingRunsWhenDead
  <2> QED
    BY <2>3, <2>4
<1> QED
  BY <1>9, <1>10

-----------------------------------------------------------------------------
LEMMA BatchInit == Init => BatchInv
<1> SUFFICES ASSUME Init PROVE BatchInv
  OBVIOUS
<1>1. topicBatches = <<>> /\ <<>> \in Seq(Batches) /\ Len(<<>>) = 0
  BY EmptySeq DEF Init
<1>2. TypeOK
  <2>1. topicBatches \in Seq(Batches) /\ currentBatch \in 0..Len(topicBatches)
    BY <1>1 DEF Init
  <2>2. /\ running \in BOOLEAN /\ canRequest \in BOOLEAN /\ resumes \in Nat
        /\ topicsInFlight \subseteq Topics /\ requests \subseteq Requests
        /\ adrift \subseteq [action : Actions, topic : Topics]
        /\ registered \subseteq Topics /\ belated \subseteq Topics
        /\ refused \subseteq Topics /\ overtaken \subseteq Topics
    BY DEF Init
  <2> QED
    BY <2>1, <2>2 DEF Init, TypeOK
<1>3. NoEmptyBatch
  BY <1>1 DEF NoEmptyBatch
<1> QED
  BY <1>2, <1>3 DEF Init, BatchInv, InFlightIsCurrent, NothingRunsWhenDead

LEMMA BatchNext ==
  ASSUME BatchInv, [Next]_vars
  PROVE  BatchInv'
<1> USE DEF BatchInv
<1>1. CASE Launch
  <2>1. Prune(topicBatches) = topicBatches
    BY DEF Prune, NoEmptyBatch
  <2>2. /\ UNCHANGED <<canRequest, topicBatches, currentBatch, topicsInFlight, requests, resumes,
                       adrift, registered, belated, wanted, refused, overtaken>>
        /\ running' = TRUE
    BY <1>1, <2>1 DEF Launch, serverVars, historyVars
  <2> QED
    BY <2>2 DEF TypeOK, InFlightIsCurrent, NoEmptyBatch, NothingRunsWhenDead
<1>2. CASE Quit
  <2>1. /\ running' = FALSE /\ canRequest' = FALSE /\ currentBatch' = 0
        /\ topicsInFlight' = {} /\ requests' = {} /\ resumes' = 0
        /\ UNCHANGED <<topicBatches, registered, belated, wanted, refused, overtaken>>
        /\ GoAdrift(requests)
    BY <1>2 DEF Quit, historyVars
  <2>2. TypeOK'
    <3>1. Len(topicBatches) \in Nat
      BY LenProperties DEF TypeOK
    <3>2. topicBatches' \in Seq(Batches) /\ currentBatch' \in 0..Len(topicBatches')
      BY <2>1, <3>1 DEF TypeOK
    <3>3. adrift' \subseteq [action : Actions, topic : Topics]
      BY <2>1, AdriftType
    <3> QED
      BY <2>1, <3>2, <3>3 DEF TypeOK
  <2> QED
    BY <2>1, <2>2 DEF InFlightIsCurrent, NoEmptyBatch, NothingRunsWhenDead
<1>3. ASSUME NEW t \in Topics, NEW a \in Actions, AddOperation(t, a)
      PROVE  BatchInv'
  BY <1>3, AddKeepsBatchInv
<1>4. CASE Resume
  <2>1. running /\ ResumeOperationsIfNeeded(canRequest) /\ canRequest \in BOOLEAN
        /\ canRequest' \in BOOLEAN /\ resumes' \in Nat
    BY <1>4 DEF Resume, TypeOK
  <2> QED
    BY <2>1, ResumeKeepsBatchInv
<1>5. CASE TokenRefreshed \/ NetworkChanged
  <2>1. running /\ ResumeOperationsIfNeeded(TRUE)
        /\ canRequest' \in BOOLEAN /\ resumes' \in Nat
    BY <1>5 DEF TokenRefreshed, NetworkChanged, TypeOK
  <2> QED
    BY <2>1, ResumeKeepsBatchInv
<1>6. ASSUME NEW r \in requests, Execute(r)
      PROVE  BatchInv'
  <2> DEFINE q == [r EXCEPT !.executed = TRUE]
  <2>1. r \in Requests
    BY DEF TypeOK
  <2>2. q \in Requests /\ q.topic = r.topic /\ q.action = r.action
    BY <2>1 DEF Requests
  <2>3. /\ requests' = (requests \ {r}) \cup {q}
        /\ UNCHANGED <<running, canRequest, clientVars, adrift, historyVars>>
        /\ registered' \in {registered \cup {r.topic}, registered \ {r.topic}}
        /\ belated' = belated \ {r.topic}
    BY <1>6 DEF Execute, Register
  <2>4. /\ adrift' \subseteq [action : Actions, topic : Topics]
        /\ registered' \subseteq Topics /\ belated' \subseteq Topics
    BY <2>1, <2>3 DEF TypeOK, Requests
  <2> HIDE DEF q
  <2> QED
    BY <2>2, <2>3, <2>4, ServerKeepsBatchInv
<1>7. ASSUME NEW r \in requests, NEW result \in {"success", "network", "refused"},
             Answer(r, result)
      PROVE  BatchInv'
  <2> DEFINE q == [r EXCEPT !.result = result]
  <2>1. r \in Requests
    BY DEF TypeOK
  <2>2. q \in Requests /\ q.topic = r.topic /\ q.action = r.action
    BY <2>1 DEF Requests
  <2>3. /\ requests' = (requests \ {r}) \cup {q}
        /\ UNCHANGED <<running, canRequest, clientVars, registered, belated, historyVars>>
        /\ GoAdrift({r}) \/ adrift' = adrift
    BY <1>7 DEF Answer
  <2>4. registered' \subseteq Topics /\ belated' \subseteq Topics
    BY <2>3 DEF TypeOK
  <2>5. adrift' \subseteq [action : Actions, topic : Topics]
    BY <2>3, AdriftType DEF TypeOK
  <2> HIDE DEF q
  <2> QED
    BY <2>2, <2>3, <2>4, <2>5, ServerKeepsBatchInv
<1>8. ASSUME NEW r \in requests, Complete(r)
      PROVE  BatchInv'
  BY <1>8, CompleteKeepsBatchInv
<1>9. ASSUME NEW o \in adrift, ExecuteLate(o)
      PROVE  BatchInv'
  <2>1. o.topic \in Topics
    BY DEF TypeOK
  <2>2. /\ UNCHANGED <<running, canRequest, topicBatches, currentBatch, topicsInFlight, resumes,
                        requests, wanted, refused, overtaken>>
        /\ registered' \in {registered \cup {o.topic}, registered \ {o.topic}}
        /\ belated' = belated \cup {o.topic} /\ adrift' \subseteq adrift
    BY <1>9 DEF ExecuteLate, Register, clientVars, historyVars
  <2>3. TypeOK'
    BY <2>1, <2>2 DEF TypeOK
  <2> QED
    BY <2>2, <2>3 DEF InFlightIsCurrent, NoEmptyBatch, NothingRunsWhenDead
<1>10. CASE UNCHANGED vars
  BY <1>10 DEF vars, clientVars, serverVars, historyVars, TypeOK, InFlightIsCurrent, NoEmptyBatch,
     NothingRunsWhenDead
<1> QED
  BY <1>1, <1>2, <1>3, <1>4, <1>5, <1>6, <1>7, <1>8, <1>9, <1>10 DEF Next, Add, ServerAnswers

\* The types of PendingTopics hold in every behaviour: currentBatch is always
\* nil or a batch of the list.
THEOREM TypeCorrect == Spec => []TypeOK
<1>1. BatchInv => TypeOK
  BY DEF BatchInv
<1> QED
  BY <1>1, BatchInit, BatchNext, PTL DEF Spec

\* What is in flight always belongs to the current batch, whose action it has,
\* although the completion block does not know its batch.
THEOREM CompletionFindsItsBatch == Spec => []InFlightIsCurrent
<1>1. BatchInv => InFlightIsCurrent
  BY DEF BatchInv
<1> QED
  BY <1>1, BatchInit, BatchNext, PTL DEF Spec

\* No batch is ever empty: the list cannot stop at one.
THEOREM BatchesNeverEmpty == Spec => []NoEmptyBatch
<1>1. BatchInv => NoEmptyBatch
  BY DEF BatchInv
<1> QED
  BY <1>1, BatchInit, BatchNext, PTL DEF Spec

-----------------------------------------------------------------------------
(* LastOperationDecides.  It needs to know what is still to come: of the   *)
(* batches with a topic the last one has the wanted action, unless a later *)
(* batch overtook an older one with this topic, and no batch with such a   *)
(* topic is before the current one.                                        *)

LastBatchIsWanted ==
  \A t \in Topics \ overtaken, i \in 1..Len(topicBatches) :
    /\ t \in topicBatches[i].topics
    /\ \A j \in 1..Len(topicBatches) : j > i => t \notin topicBatches[j].topics
    => topicBatches[i].action = wanted[t]

NothingOlder ==
  \A t \in Topics \ overtaken, i \in 1..Len(topicBatches) :
    i < currentBatch => t \notin topicBatches[i].topics

\* An executed request has its effect until its completion block runs: no
\* other request of its topic is executed meanwhile, but for one that the
\* client had given up on.
ExecutedIsRegistered ==
  \A r \in requests :
    /\ r.executed =>
         r.topic \in belated \/ (r.topic \in registered <=> r.action = "subscribe")
    /\ r.result = "success" => r.executed

OrderInv == /\ BatchInv /\ LastBatchIsWanted /\ NothingOlder
            /\ ExecutedIsRegistered /\ LastOperationDecides

\* The topics of a list of batches, by position.
LEMMA TopicsOfByPosition ==
  ASSUME NEW bs \in Seq(Batches), NEW t
  PROVE  t \in TopicsOf(bs) <=> \E i \in 1..Len(bs) : t \in bs[i].topics
  BY LenProperties DEF TopicsOf

\* What addOperationForTopic does, position by position, and to the topics
\* that count as overtaken.
LEMMA AddedOrder ==
  ASSUME TypeOK, NEW topic \in Topics, NEW action \in Actions, AddOperation(topic, action)
  PROVE  \E n \in 1..(Len(topicBatches) + 1) :
           /\ Len(topicBatches') = n /\ n >= Len(topicBatches)
           /\ \A i \in 1..Len(topicBatches) :
                /\ topicBatches'[i].action = topicBatches[i].action
                /\ topicBatches'[i].topics \subseteq topicBatches[i].topics \cup {topic}
                /\ topicBatches[i].topics \subseteq topicBatches'[i].topics
                /\ i # n => topicBatches'[i] = topicBatches[i]
           /\ n > Len(topicBatches) => topicBatches'[n].topics = {topic}
           /\ topicBatches'[n].action = action /\ topic \in topicBatches'[n].topics
           /\ currentBatch' = IF currentBatch = 0 THEN n ELSE currentBatch
           /\ overtaken \subseteq overtaken' \cup {topic}
           /\ currentBatch = 0 =>
                \A t \in Topics \ overtaken', i \in 1..(n - 1) : t \notin topicBatches[i].topics
           /\ currentBatch # 0 /\ topic \in overtaken \ overtaken' =>
                \A i \in 1..Len(topicBatches) : topic \notin topicBatches[i].topics
<1> DEFINE newBatch == topicBatches = <<>> \/ Last(topicBatches).action # action
           n == IF newBatch THEN Len(topicBatches) + 1 ELSE Len(topicBatches)
           empty == [action |-> action, topics |-> {}]
           batches == IF newBatch THEN Append(topicBatches, empty) ELSE topicBatches
<1>1. topicBatches \in Seq(Batches) /\ Len(topicBatches) \in Nat
  BY LenProperties DEF TypeOK
<1>2. empty \in Batches /\ empty.action = action /\ empty.topics = {}
  BY DEF Batches
<1> HIDE DEF empty
<1>3. /\ batches \in Seq(Batches) /\ Len(batches) = n /\ n \in 1..(Len(topicBatches) + 1)
      /\ n >= Len(topicBatches)
      /\ \A i \in 1..Len(topicBatches) : batches[i] = topicBatches[i]
  BY <1>1, <1>2, AppendProperties, EmptySeq
<1>4. /\ batches[n].action = action
      /\ n > Len(topicBatches) => batches[n].topics = {}
  <2>1. CASE newBatch
    BY <1>1, <1>2, <2>1, AppendProperties
  <2>2. CASE ~newBatch
    BY <1>1, <2>2 DEF Last
  <2> QED
    BY <2>1, <2>2
<1> DEFINE ts == batches[n].topics \cup {topic}
<1>5. /\ topicBatches' = WithTopics(batches, n, ts)
      /\ currentBatch' = IF currentBatch = 0 THEN n ELSE currentBatch
      /\ overtaken' = IF currentBatch = 0
                      THEN overtaken \cup TopicsOf(SubSeq(batches, 1, n - 1))
                      ELSE IF topic \in TopicsOf(batches) THEN overtaken ELSE overtaken \ {topic}
  BY DEF AddOperation, empty, WithTopics
<1> HIDE DEF newBatch, n, batches
<1>6. ts \subseteq Topics /\ topic \in ts
  BY <1>3, BatchType
<1>7. /\ Len(topicBatches') = n
      /\ \A i \in 1..Len(batches) : i # n => topicBatches'[i] = batches[i]
      /\ topicBatches'[n].action = batches[n].action
      /\ topicBatches'[n].topics = ts
  <2> HIDE DEF ts
  <2>1. batches \in Seq(Batches) /\ n \in 1..Len(batches)
    BY <1>1, <1>3
  <2> QED
    BY <1>3, <1>5, <1>6, <2>1, ExceptTopics
<1>8. currentBatch = 0 =>
        \A t \in Topics \ overtaken', i \in 1..(n - 1) : t \notin topicBatches[i].topics
  <2> SUFFICES ASSUME currentBatch = 0, NEW t \in Topics \ overtaken', NEW i \in 1..(n - 1)
               PROVE  t \notin topicBatches[i].topics
    OBVIOUS
  <2>1. n \in Nat /\ \A j \in 1..(n - 1) : batches[j] \in Batches
    BY <1>3, ElementOfSeq
  <2>2. /\ SubSeq(batches, 1, n - 1) \in Seq(Batches)
        /\ Len(SubSeq(batches, 1, n - 1)) = n - 1
        /\ SubSeq(batches, 1, n - 1)[i] = batches[i]
    BY <1>3, <2>1, SubSeqProperties
  <2>3. t \notin batches[i].topics
    BY <1>5, <2>2, TopicsOfByPosition
  <2>4. i \in 1..Len(topicBatches)
    BY <1>1, <1>3
  <2> QED
    BY <1>3, <2>3, <2>4
<1>9. currentBatch # 0 /\ topic \in overtaken \ overtaken' =>
        \A i \in 1..Len(topicBatches) : topic \notin topicBatches[i].topics
  <2> SUFFICES ASSUME topic \notin TopicsOf(batches), NEW i \in 1..Len(topicBatches)
               PROVE  topic \notin topicBatches[i].topics
    BY <1>5
  <2>1. i \in 1..Len(batches) /\ batches[i] = topicBatches[i]
    BY <1>1, <1>3
  <2> QED
    BY <1>3, <2>1, TopicsOfByPosition
<1>10. overtaken \subseteq overtaken' \cup {topic}
  BY <1>5
<1>11. \A i \in 1..Len(topicBatches) :
         /\ topicBatches'[i].action = topicBatches[i].action
         /\ topicBatches'[i].topics \subseteq topicBatches[i].topics \cup {topic}
         /\ topicBatches[i].topics \subseteq topicBatches'[i].topics
         /\ i # n => topicBatches'[i] = topicBatches[i]
  BY <1>1, <1>3, <1>7
<1>12. /\ topicBatches'[n].action = action /\ topic \in topicBatches'[n].topics
       /\ n > Len(topicBatches) => topicBatches'[n].topics = {topic}
  BY <1>4, <1>6, <1>7
<1>13. Len(topicBatches') = n /\ n >= Len(topicBatches) /\ n \in 1..(Len(topicBatches) + 1)
       /\ currentBatch' = IF currentBatch = 0 THEN n ELSE currentBatch
  BY <1>3, <1>5, <1>7
<1> QED
  BY <1>8, <1>9, <1>10, <1>11, <1>12, <1>13

LEMMA AddKeepsOrder ==
  ASSUME OrderInv, NEW topic \in Topics, NEW action \in Actions, AddOperation(topic, action)
  PROVE  LastBatchIsWanted' /\ NothingOlder' /\ ExecutedIsRegistered' /\ LastOperationDecides'
<1>0. TypeOK /\ TypeOK'
  BY AddKeepsBatchInv DEF OrderInv, BatchInv
<1>1. PICK n \in 1..(Len(topicBatches) + 1) :
           /\ Len(topicBatches') = n /\ n >= Len(topicBatches)
           /\ \A i \in 1..Len(topicBatches) :
                /\ topicBatches'[i].action = topicBatches[i].action
                /\ topicBatches'[i].topics \subseteq topicBatches[i].topics \cup {topic}
                /\ topicBatches[i].topics \subseteq topicBatches'[i].topics
                /\ i # n => topicBatches'[i] = topicBatches[i]
           /\ n > Len(topicBatches) => topicBatches'[n].topics = {topic}
           /\ topicBatches'[n].action = action /\ topic \in topicBatches'[n].topics
           /\ currentBatch' = IF currentBatch = 0 THEN n ELSE currentBatch
           /\ overtaken \subseteq overtaken' \cup {topic}
           /\ currentBatch = 0 =>
                \A t \in Topics \ overtaken', i \in 1..(n - 1) : t \notin topicBatches[i].topics
           /\ currentBatch # 0 /\ topic \in overtaken \ overtaken' =>
                \A i \in 1..Len(topicBatches) : topic \notin topicBatches[i].topics
  BY <1>0, AddedOrder
<1>2. /\ UNCHANGED <<requests, registered, belated, refused>>
      /\ wanted' = [wanted EXCEPT ![topic] = action]
  BY DEF AddOperation, serverVars
<1>3. /\ topicBatches \in Seq(Batches) /\ topicBatches' \in Seq(Batches)
      /\ Len(topicBatches) \in Nat /\ currentBatch \in 0..Len(topicBatches)
      /\ wanted'[topic] = action /\ \A t \in Topics \ {topic} : wanted'[t] = wanted[t]
  BY <1>0, <1>2, LenProperties DEF TypeOK
<1>4. \A i \in 1..n : i # n => i \in 1..Len(topicBatches)
  BY <1>1, <1>3
<1>5. \A t \in Topics \ {topic}, i \in 1..n :
        t \in topicBatches'[i].topics => i \in 1..Len(topicBatches) /\ t \in topicBatches[i].topics
  BY <1>1, <1>3, <1>4
<1>6. LastBatchIsWanted'
  <2> SUFFICES ASSUME NEW t \in Topics \ overtaken', NEW i \in 1..n,
                      t \in topicBatches'[i].topics,
                      \A j \in 1..n : j > i => t \notin topicBatches'[j].topics
               PROVE  topicBatches'[i].action = wanted'[t]
    BY <1>1 DEF LastBatchIsWanted
  <2>1. CASE t = topic
    <3>1. i = n
      BY <1>1, <2>1
    <3> QED
      BY <1>1, <1>3, <2>1, <3>1
  <2>2. CASE t # topic
    <3>1. i \in 1..Len(topicBatches) /\ t \in topicBatches[i].topics
      BY <1>5, <2>2
    <3>2. \A j \in 1..Len(topicBatches) : j > i => t \notin topicBatches[j].topics
      BY <1>1, <1>3
    <3>3. topicBatches[i].action = wanted[t]
      BY <1>1, <2>2, <3>1, <3>2 DEF OrderInv, LastBatchIsWanted
    <3> QED
      BY <1>1, <1>3, <2>2, <3>1, <3>3
  <2> QED
    BY <2>1, <2>2
<1>7. NothingOlder'
  <2> SUFFICES ASSUME NEW t \in Topics \ overtaken', NEW i \in 1..n, i < currentBatch'
               PROVE  t \notin topicBatches'[i].topics
    BY <1>1 DEF NothingOlder
  <2>1. i # n /\ i \in 1..Len(topicBatches) /\ topicBatches'[i] = topicBatches[i] /\ i \in 1..(n - 1)
    BY <1>1, <1>3
  <2>2. CASE currentBatch = 0
    BY <1>1, <2>1, <2>2
  <2>3. CASE currentBatch # 0
    <3>1. CASE t \in overtaken
      <4>1. t = topic /\ topic \in overtaken \ overtaken'
        BY <1>1, <3>1
      <4> QED
        BY <1>1, <2>1, <2>3, <4>1
    <3>2. CASE t \notin overtaken
      BY <1>1, <2>1, <2>3, <3>2 DEF OrderInv, NothingOlder
    <3> QED
      BY <3>1, <3>2
  <2> QED
    BY <2>2, <2>3
<1>8. ExecutedIsRegistered'
  BY <1>2 DEF OrderInv, ExecutedIsRegistered
<1>9. LastOperationDecides'
  <2> SUFFICES ASSUME NEW t \in Topics, t \notin TopicsOf(topicBatches'), t \notin refused,
                      t \notin overtaken', t \notin belated, wanted'[t] # "none"
               PROVE  t \in registered <=> wanted'[t] = "subscribe"
    BY <1>2 DEF LastOperationDecides, AsWanted
  <2>1. n \in 1..Len(topicBatches')
    BY <1>1
  <2>2. t # topic
    BY <1>1, <1>3, <2>1, TopicsOfByPosition
  <2>3. \A i \in 1..Len(topicBatches) : i \in 1..Len(topicBatches')
    BY <1>1, <1>3
  <2>4. t \notin TopicsOf(topicBatches)
    BY <1>1, <1>3, <2>3, TopicsOfByPosition
  <2> QED
    BY <1>1, <1>3, <2>2, <2>4 DEF OrderInv, LastOperationDecides, AsWanted
<1> QED
  BY <1>6, <1>7, <1>8, <1>9

LEMMA ResumeKeepsOrder ==
  ASSUME OrderInv, NEW tokenKnown \in BOOLEAN, ResumeOperationsIfNeeded(tokenKnown)
  PROVE  LastBatchIsWanted' /\ NothingOlder' /\ ExecutedIsRegistered' /\ LastOperationDecides'
<1>1. UNCHANGED <<topicBatches, registered, belated, wanted, refused, overtaken>>
  BY DEF ResumeOperationsIfNeeded, serverVars, historyVars
<1>2. currentBatch' = 1 \/ currentBatch' = currentBatch
  BY DEF ResumeOperationsIfNeeded
<1>3. \A r \in requests' : r \in requests \/ (r.executed = FALSE /\ r.result = "none")
  BY DEF ResumeOperationsIfNeeded
<1>4. LastBatchIsWanted'
  BY <1>1 DEF OrderInv, LastBatchIsWanted
<1>5. NothingOlder'
  BY <1>1, <1>2 DEF OrderInv, NothingOlder
<1>6. ExecutedIsRegistered'
  BY <1>1, <1>3 DEF OrderInv, ExecutedIsRegistered
<1>7. LastOperationDecides'
  BY <1>1 DEF OrderInv, LastOperationDecides, AsWanted
<1> QED
  BY <1>4, <1>5, <1>6, <1>7

\* The server touches the registration of topics only that are pending.
LEMMA ExecuteKeepsOrder ==
  ASSUME OrderInv, NEW r \in requests, Execute(r)
  PROVE  LastBatchIsWanted' /\ NothingOlder' /\ ExecutedIsRegistered' /\ LastOperationDecides'
<1> DEFINE q == [r EXCEPT !.executed = TRUE]
<1>1. /\ r \in Requests /\ topicBatches \in Seq(Batches) /\ r.result = "none"
      /\ currentBatch \in 1..Len(topicBatches) /\ r.topic \in topicBatches[currentBatch].topics
      /\ \A x \in requests : x # r => x.topic # r.topic
  BY LenProperties DEF OrderInv, BatchInv, TypeOK, InFlightIsCurrent, Execute
<1>2. /\ requests' = (requests \ {r}) \cup {q}
      /\ registered' = IF r.action = "subscribe" THEN registered \cup {r.topic}
                                                 ELSE registered \ {r.topic}
      /\ belated' = belated \ {r.topic}
      /\ UNCHANGED <<topicBatches, currentBatch, wanted, refused, overtaken>>
  BY DEF Execute, Register, clientVars, historyVars
<1>3. q.topic = r.topic /\ q.action = r.action /\ q.result = "none" /\ q.executed = TRUE
  BY <1>1 DEF Requests
<1> HIDE DEF q
<1>4. LastBatchIsWanted' /\ NothingOlder'
  BY <1>2 DEF OrderInv, LastBatchIsWanted, NothingOlder
<1>5. ExecutedIsRegistered'
  <2> SUFFICES ASSUME NEW x \in requests'
               PROVE  /\ x.executed => \/ x.topic \in belated'
                                       \/ (x.topic \in registered' <=> x.action = "subscribe")
                      /\ x.result = "success" => x.executed
    BY DEF ExecutedIsRegistered
  <2>1. CASE x = q
    BY <1>1, <1>2, <1>3, <2>1
  <2>2. CASE x \in requests \ {r}
    <3>1. /\ x.topic \in registered' <=> x.topic \in registered
          /\ x.topic \in belated' <=> x.topic \in belated
      BY <1>1, <1>2, <2>2
    <3> QED
      BY <2>2, <3>1 DEF OrderInv, ExecutedIsRegistered
  <2> QED
    BY <1>2, <2>1, <2>2
<1>6. r.topic \in TopicsOf(topicBatches)
  BY <1>1, TopicsOfByPosition
<1>7. LastOperationDecides'
  BY <1>2, <1>6 DEF OrderInv, LastOperationDecides, AsWanted
<1> QED
  BY <1>4, <1>5, <1>7

LEMMA AnswerKeepsOrder ==
  ASSUME OrderInv, NEW r \in requests, NEW result \in {"success", "network", "refused"},
         Answer(r, result)
  PROVE  LastBatchIsWanted' /\ NothingOlder' /\ ExecutedIsRegistered' /\ LastOperationDecides'
<1> DEFINE q == [r EXCEPT !.result = result]
<1>1. r \in Requests
  BY DEF OrderInv, BatchInv, TypeOK
<1>2. /\ requests' = (requests \ {r}) \cup {q}
      /\ result = "success" => r.executed
      /\ UNCHANGED <<topicBatches, currentBatch, registered, belated, wanted, refused, overtaken>>
  BY DEF Answer, clientVars, historyVars
<1>3. q.topic = r.topic /\ q.action = r.action /\ q.result = result /\ q.executed = r.executed
  BY <1>1 DEF Requests
<1> HIDE DEF q
<1>4. LastBatchIsWanted' /\ NothingOlder' /\ LastOperationDecides'
  BY <1>2 DEF OrderInv, LastBatchIsWanted, NothingOlder, LastOperationDecides, AsWanted
<1>5. ExecutedIsRegistered'
  <2> SUFFICES ASSUME NEW x \in requests'
               PROVE  /\ x.executed => \/ x.topic \in belated'
                                       \/ (x.topic \in registered' <=> x.action = "subscribe")
                      /\ x.result = "success" => x.executed
    BY DEF ExecutedIsRegistered
  <2>1. CASE x = q
    <3>1. r.executed => r.topic \in belated \/ (r.topic \in registered <=> r.action = "subscribe")
      BY DEF OrderInv, ExecutedIsRegistered
    <3> QED
      BY <1>2, <1>3, <2>1, <3>1
  <2>2. CASE x \in requests
    BY <1>2, <2>2 DEF OrderInv, ExecutedIsRegistered
  <2> QED
    BY <1>2, <2>1, <2>2
<1> QED
  BY <1>4, <1>5

\* The position was[i] each batch had before a completion block of a request
\* for the topic t: only the current batch loses t, or leaves the list.
Keeps(was, t) ==
  /\ \A i, j \in 1..Len(topicBatches') : i < j => was[i] < was[j]
  /\ \A i \in 1..Len(topicBatches') : currentBatch' # 0 => was[i] = i
  /\ \A i \in 1..Len(topicBatches') :
       /\ topicBatches'[i].action = topicBatches[was[i]].action
       /\ topicBatches'[i].topics = IF was[i] = currentBatch
                                    THEN topicBatches[was[i]].topics \ {t}
                                    ELSE topicBatches[was[i]].topics
  /\ \A k \in 1..Len(topicBatches) :
       \/ \E i \in 1..Len(topicBatches') : was[i] = k
       \/ k = currentBatch /\ topicBatches[k].topics = {t}

LEMMA CompletedBatches ==
  ASSUME BatchInv, NEW r \in requests, Complete(r), r.result # "network"
  PROVE  /\ currentBatch \in 1..Len(topicBatches)
         /\ currentBatch' \in {0, currentBatch}
         /\ topicBatches' \in Seq(Batches) /\ Len(topicBatches') \in Nat
         /\ \E was \in [1..Len(topicBatches') -> 1..Len(topicBatches)] : Keeps(was, r.topic)
<1> DEFINE left == topicBatches[currentBatch].topics \ {r.topic}
           c == currentBatch
           m == Len(topicBatches)
<1>1. topicBatches \in Seq(Batches) /\ m \in Nat /\ c \in 1..m
  BY LenProperties DEF BatchInv, TypeOK, InFlightIsCurrent
<1>2. left \subseteq Topics /\ r.topic \in topicBatches[c].topics
  BY <1>1, BatchType DEF BatchInv, InFlightIsCurrent
<1>3. CASE left = {}
  <2>1. topicBatches' = RemoveAt(topicBatches, c) /\ currentBatch' = 0
    BY <1>3 DEF Complete
  <2> HIDE DEF c, m
  <2>2. /\ topicBatches' \in Seq(Batches) /\ Len(topicBatches') = m - 1
        /\ \A i \in 1..(c - 1) : topicBatches'[i] = topicBatches[i]
        /\ \A i \in c..(m - 1) : topicBatches'[i] = topicBatches[i + 1]
    BY <1>1, <2>1, RemoveAtLemma DEF m
  <2> DEFINE at == [i \in 1..(m - 1) |-> IF i < c THEN i ELSE i + 1]
  <2>3. at \in [1..(m - 1) -> 1..m] /\ \A i \in 1..(m - 1) : at[i] # c
    BY <1>1
  <2>4. \A i, j \in 1..(m - 1) : i < j => at[i] < at[j]
    BY <1>1
  <2>5. \A i \in 1..(m - 1) : topicBatches'[i] = topicBatches[at[i]]
    BY <1>1, <2>2
  <2>6. \A k \in 1..m : (\E i \in 1..(m - 1) : at[i] = k) \/ k = c
    <3> SUFFICES ASSUME NEW k \in 1..m, k # c
                 PROVE  \E i \in 1..(m - 1) : at[i] = k
      OBVIOUS
    <3>1. CASE k < c
      <4>1. k \in 1..(m - 1) /\ at[k] = k
        BY <1>1, <3>1
      <4> QED
        BY <4>1
    <3>2. CASE k > c
      <4>1. k - 1 \in 1..(m - 1) /\ at[k - 1] = k
        BY <1>1, <3>2
      <4> QED
        BY <4>1
    <3> QED
      BY <1>1, <3>1, <3>2
  <2>7. topicBatches[c].topics = {r.topic}
    BY <1>2, <1>3 DEF c
  <2> HIDE DEF at
  <2>8. Len(topicBatches') = m - 1 /\ m - 1 \in Nat
    BY <1>1, <2>2
  <2>9. \E was \in [1..Len(topicBatches') -> 1..m] : Keeps(was, r.topic)
    <3>1. at \in [1..Len(topicBatches') -> 1..m]
      BY <2>3, <2>8
    <3> QED
      BY <3>1, <2>1, <2>3, <2>4, <2>5, <2>6, <2>7, <2>8, SMTT(30) DEF c, m, Keeps
  <2> QED
    BY <1>1, <2>1, <2>2, <2>8, <2>9 DEF c, m
<1>4. CASE left # {}
  <2> HIDE DEF m
  <2>a. /\ m = Len(topicBatches)
        /\ left = topicBatches[currentBatch].topics \ {r.topic}
    BY DEF m
  <2>b. topicBatches \in Seq(Batches) /\ Len(topicBatches) \in Nat
        /\ DOMAIN topicBatches = 1..Len(topicBatches)
    BY <1>1, LenProperties DEF m
  <2>d. currentBatch \in 1..Len(topicBatches)
    BY <1>1 DEF m
  <2>e. left \subseteq Topics
    BY <1>2
  <2>1. topicBatches' = WithTopics(topicBatches, currentBatch, left)
        /\ currentBatch' = currentBatch
    BY <1>4 DEF Complete, WithTopics
  <2> HIDE DEF left, c
  <2>c. /\ topicBatches' \in Seq(Batches) /\ Len(topicBatches') = Len(topicBatches)
        /\ \A i \in 1..Len(topicBatches) : i # currentBatch => topicBatches'[i] = topicBatches[i]
        /\ topicBatches'[currentBatch].action = topicBatches[currentBatch].action
        /\ topicBatches'[currentBatch].topics = left
    BY <2>b, <2>d, <2>e, <2>1, ExceptTopics
  <2>2. /\ topicBatches' \in Seq(Batches) /\ Len(topicBatches') = m
        /\ \A i \in 1..m : i # c => topicBatches'[i] = topicBatches[i]
        /\ topicBatches'[c].action = topicBatches[c].action
        /\ topicBatches'[c].topics = topicBatches[c].topics \ {r.topic}
    BY <2>a, <2>c DEF c
  <2> DEFINE at == [i \in 1..m |-> i]
  <2>3. at \in [1..m -> 1..m] /\ \A i \in 1..m : at[i] = i
    OBVIOUS
  <2>4. \A i \in 1..m : /\ topicBatches'[i].action = topicBatches[i].action
                        /\ topicBatches'[i].topics = IF i = c THEN topicBatches[i].topics \ {r.topic}
                                                              ELSE topicBatches[i].topics
    BY <2>2
  <2> HIDE DEF at
  <2>9. \E was \in [1..Len(topicBatches') -> 1..m] : Keeps(was, r.topic)
    <3>1. at \in [1..Len(topicBatches') -> 1..m]
      BY <2>2, <2>3
    <3> QED
      <4>1. /\ \A i, j \in 1..m : i < j => at[i] < at[j]
            /\ \A i \in 1..m : currentBatch' # 0 => at[i] = i
            /\ \A k \in 1..m : \E i \in 1..m : at[i] = k
        BY <2>3
      <4>2. \A i \in 1..m :
              /\ topicBatches'[i].action = topicBatches[at[i]].action
              /\ topicBatches'[i].topics = IF at[i] = c
                                           THEN topicBatches[at[i]].topics \ {r.topic}
                                           ELSE topicBatches[at[i]].topics
        BY <2>3, <2>4
      <4>3. Len(topicBatches') = m /\ m = Len(topicBatches) /\ c = currentBatch
        BY <2>2, <2>a DEF c
      <4>4. Keeps(at, r.topic)
        BY <4>1, <4>2, <4>3 DEF Keeps
      <4> QED
        BY <3>1, <4>4
  <2> QED
    BY <1>1, <2>1, <2>2, <2>9 DEF c, m
<1> QED
  BY <1>3, <1>4

LEMMA CompleteKeepsOrder ==
  ASSUME OrderInv, NEW r \in requests, Complete(r)
  PROVE  LastBatchIsWanted' /\ NothingOlder' /\ ExecutedIsRegistered' /\ LastOperationDecides'
<1>1. /\ requests' = requests \ {r} /\ r.result # "none"
      /\ UNCHANGED <<registered, belated, wanted, overtaken>>
  BY DEF Complete, serverVars
<1>2. ExecutedIsRegistered'
  BY <1>1 DEF OrderInv, ExecutedIsRegistered
<1>3. CASE r.result = "network"
  <2>1. UNCHANGED <<topicBatches, currentBatch, refused>>
    BY <1>3 DEF Complete
  <2>2. LastBatchIsWanted' /\ NothingOlder'
    BY <1>1, <2>1 DEF OrderInv, LastBatchIsWanted, NothingOlder
  <2>3. LastOperationDecides'
    BY <1>1, <2>1 DEF OrderInv, LastOperationDecides, AsWanted
  <2> QED
    BY <1>2, <2>2, <2>3
<1>4. CASE r.result # "network"
  <2> DEFINE c == currentBatch
             m == Len(topicBatches)
             m2 == Len(topicBatches')
  <2>1. /\ c \in 1..m /\ currentBatch' \in {0, c}
        /\ topicBatches' \in Seq(Batches) /\ m2 \in Nat
        /\ topicBatches \in Seq(Batches) /\ m \in Nat
    BY <1>4, CompletedBatches, LenProperties DEF OrderInv, BatchInv, TypeOK
  <2>2. PICK at \in [1..m2 -> 1..m] : Keeps(at, r.topic)
    BY <1>4, CompletedBatches DEF OrderInv
  <2>a. /\ \A i \in 1..m2 : at[i] \in 1..m
        /\ \A i, j \in 1..m2 : i < j => at[i] < at[j]
    BY <2>2 DEF Keeps
  <2>b. currentBatch' # 0 => \A i \in 1..m2 : at[i] = i
    BY <2>2 DEF Keeps
  <2>c. \A i \in 1..m2 :
          /\ topicBatches'[i].action = topicBatches[at[i]].action
          /\ topicBatches'[i].topics = IF at[i] = c THEN topicBatches[at[i]].topics \ {r.topic}
                                                 ELSE topicBatches[at[i]].topics
    BY <2>2 DEF Keeps
  <2>d. \A k \in 1..m :
          \/ \E i \in 1..m2 : at[i] = k
          \/ k = c /\ topicBatches[k].topics = {r.topic}
    BY <2>2 DEF Keeps
  <2>3. /\ \A t \in Topics \ overtaken, i \in 1..m : i < c => t \notin topicBatches[i].topics
        /\ r.topic \in topicBatches[c].topics /\ r.action = topicBatches[c].action
    BY DEF OrderInv, NothingOlder, BatchInv, InFlightIsCurrent
  <2>4. \A t \in Topics \ overtaken, i \in 1..m :
          /\ t \in topicBatches[i].topics
          /\ \A j \in 1..m : j > i => t \notin topicBatches[j].topics
          => topicBatches[i].action = wanted[t]
    BY DEF OrderInv, LastBatchIsWanted
  <2>5. refused' = IF r.result = "refused" THEN refused \cup {r.topic} ELSE refused \ {r.topic}
    BY <1>4 DEF Complete
  <2>6. LastBatchIsWanted' <=>
          \A t \in Topics \ overtaken, i \in 1..m2 :
            /\ t \in topicBatches'[i].topics
            /\ \A j \in 1..m2 : j > i => t \notin topicBatches'[j].topics
            => topicBatches'[i].action = wanted[t]
    BY <1>1 DEF LastBatchIsWanted
  <2>7. NothingOlder' <=>
          \A t \in Topics \ overtaken, i \in 1..m2 :
            i < currentBatch' => t \notin topicBatches'[i].topics
    BY <1>1 DEF NothingOlder
  <2>8. /\ \A t : t \in TopicsOf(topicBatches) <=> \E i \in 1..m : t \in topicBatches[i].topics
        /\ \A t : t \in TopicsOf(topicBatches') <=> \E i \in 1..m2 : t \in topicBatches'[i].topics
    BY <2>1, TopicsOfByPosition
  <2> HIDE DEF c, m, m2
  <2>9. LastBatchIsWanted'
    <3> SUFFICES ASSUME NEW t \in Topics \ overtaken, NEW i \in 1..m2,
                        t \in topicBatches'[i].topics,
                        \A j \in 1..m2 : j > i => t \notin topicBatches'[j].topics
                 PROVE  topicBatches'[i].action = wanted[t]
      BY <2>6
    <3>1. at[i] \in 1..m /\ t \in topicBatches[at[i]].topics
      BY <2>a, <2>c
    <3>2. \A k \in 1..m : k > at[i] => t \notin topicBatches[k].topics
      <4> SUFFICES ASSUME NEW k \in 1..m, k > at[i], t \in topicBatches[k].topics
                   PROVE  FALSE
        OBVIOUS
      <4>1. k # c
        BY <2>3, <3>1
      <4>2. PICK j \in 1..m2 : at[j] = k
        BY <2>d, <4>1
      <4>3. t \in topicBatches'[j].topics
        BY <2>c, <4>1, <4>2
      <4>4. j > i
        <5>1. j = i \/ j < i \/ j > i
          BY <2>1
        <5>2. j < i => at[j] < at[i]
          BY <2>a
        <5> QED
          BY <2>1, <2>a, <3>1, <4>2, <5>1, <5>2
      <4> QED
        BY <4>3, <4>4
    <3> QED
      BY <2>c, <2>4, <3>1, <3>2
  <2>10. NothingOlder'
    <3> SUFFICES ASSUME NEW t \in Topics \ overtaken, NEW i \in 1..m2, i < currentBatch'
                 PROVE  t \notin topicBatches'[i].topics
      BY <2>7
    <3>1. currentBatch' = c /\ currentBatch' # 0
      BY <2>1
    <3>2. at[i] = i /\ i \in 1..m
      BY <2>a, <2>b, <3>1
    <3> QED
      BY <2>c, <2>3, <3>1, <3>2
  <2>11. LastOperationDecides'
    <3> SUFFICES ASSUME NEW t \in Topics, t \notin TopicsOf(topicBatches'), t \notin refused',
                        t \notin overtaken, t \notin belated, wanted[t] # "none"
                 PROVE  t \in registered <=> wanted[t] = "subscribe"
      BY <1>1 DEF LastOperationDecides, AsWanted
    <3>1. \A k \in 1..m : t \in topicBatches[k].topics => k = c /\ t = r.topic
      <4> SUFFICES ASSUME NEW k \in 1..m, t \in topicBatches[k].topics
                   PROVE  k = c /\ t = r.topic
        OBVIOUS
      <4>1. ASSUME NEW i \in 1..m2, at[i] = k PROVE k = c /\ t = r.topic
        BY <2>8, <2>c, <4>1
      <4> QED
        BY <2>d, <4>1
    <3>2. CASE t = r.topic
      <4>1. topicBatches[c].action = wanted[t]
        BY <2>1, <2>3, <2>4, <3>1, <3>2
      <4>2. r \in Requests
        BY DEF OrderInv, BatchInv, TypeOK
      <4>3. r.result = "success"
        BY <1>1, <1>4, <2>5, <3>2, <4>2 DEF Requests
      <4> QED
        BY <2>3, <3>2, <4>1, <4>3 DEF OrderInv, ExecutedIsRegistered
    <3>3. CASE t # r.topic
      <4>1. t \notin TopicsOf(topicBatches) /\ t \notin refused
        BY <2>5, <2>8, <3>1, <3>3
      <4> QED
        BY <4>1 DEF OrderInv, LastOperationDecides, AsWanted
    <3> QED
      BY <3>2, <3>3
  <2> QED
    BY <1>2, <2>9, <2>10, <2>11
<1> QED
  BY <1>3, <1>4

LEMMA OrderNext ==
  ASSUME OrderInv, [Next]_vars
  PROVE  OrderInv'
<1>0. BatchInv /\ BatchInv'
  BY BatchNext DEF OrderInv
<1>1. CASE Launch \/ UNCHANGED vars
  <2>1. Prune(topicBatches) = topicBatches
    BY <1>0 DEF Prune, BatchInv, NoEmptyBatch
  <2>2. UNCHANGED <<topicBatches, currentBatch, requests, registered, belated, wanted, refused,
                    overtaken>>
    BY <1>1, <2>1 DEF Launch, vars, clientVars, serverVars, historyVars
  <2> QED
    BY <1>0, <2>2 DEF OrderInv, LastBatchIsWanted, NothingOlder, ExecutedIsRegistered,
       LastOperationDecides, AsWanted
<1>2. CASE Quit
  <2>1. /\ currentBatch' = 0 /\ requests' = {}
        /\ UNCHANGED <<topicBatches, registered, belated, wanted, refused, overtaken>>
    BY <1>2 DEF Quit, historyVars
  <2> QED
    BY <1>0, <2>1 DEF OrderInv, LastBatchIsWanted, NothingOlder, ExecutedIsRegistered,
       LastOperationDecides, AsWanted
<1>3. ASSUME NEW t \in Topics, NEW a \in Actions, AddOperation(t, a)
      PROVE  OrderInv'
  BY <1>0, <1>3, AddKeepsOrder DEF OrderInv
<1>4. CASE Resume \/ TokenRefreshed \/ NetworkChanged
  <2>1. ResumeOperationsIfNeeded(canRequest) \/ ResumeOperationsIfNeeded(TRUE)
    BY <1>4 DEF Resume, TokenRefreshed, NetworkChanged
  <2>2. canRequest \in BOOLEAN
    BY <1>0 DEF BatchInv, TypeOK
  <2> QED
    BY <1>0, <2>1, <2>2, ResumeKeepsOrder DEF OrderInv
<1>5. ASSUME NEW r \in requests, Execute(r) \/ Complete(r)
      PROVE  OrderInv'
  BY <1>0, <1>5, ExecuteKeepsOrder, CompleteKeepsOrder DEF OrderInv
<1>6. CASE ServerAnswers
  BY <1>0, <1>6, AnswerKeepsOrder DEF OrderInv, ServerAnswers
<1>7. ASSUME NEW o \in adrift, ExecuteLate(o)
      PROVE  OrderInv'
  <2>1. /\ UNCHANGED <<topicBatches, currentBatch, requests, wanted, refused, overtaken>>
        /\ \A t \in Topics : t # o.topic => (t \in registered' <=> t \in registered)
        /\ belated' = belated \cup {o.topic}
    BY <1>7 DEF ExecuteLate, Register, clientVars, historyVars
  <2>2. LastBatchIsWanted' /\ NothingOlder'
    BY <2>1 DEF OrderInv, LastBatchIsWanted, NothingOlder
  <2>3. \A r \in requests : r.topic \in Topics
    BY <1>0 DEF BatchInv, TypeOK, Requests
  <2>4. ExecutedIsRegistered'
    BY <2>1, <2>3 DEF OrderInv, ExecutedIsRegistered
  <2>5. LastOperationDecides'
    BY <2>1 DEF OrderInv, LastOperationDecides, AsWanted
  <2> QED
    BY <1>0, <2>2, <2>4, <2>5 DEF OrderInv
<1> QED
  BY <1>1, <1>2, <1>3, <1>4, <1>5, <1>6, <1>7 DEF Next, Add

LEMMA OrderInit == Init => OrderInv
<1> SUFFICES ASSUME Init PROVE OrderInv
  OBVIOUS
<1>1. Len(topicBatches) = 0 /\ requests = {} /\ \A t \in Topics : wanted[t] = "none"
  BY EmptySeq DEF Init
<1> QED
  BY <1>1, BatchInit DEF OrderInv, LastBatchIsWanted, NothingOlder, ExecutedIsRegistered,
     LastOperationDecides

\* Whatever is retried, refused, lost with the process or executed without an
\* answer: the operation the app asked for last decides about a topic, unless
\* its batch overtook an older one or the server executed last a request that
\* the client had given up on.
THEOREM LastAlwaysDecides == Spec => []LastOperationDecides
<1>1. OrderInv => LastOperationDecides
  BY DEF OrderInv
<1> QED
  BY <1>1, OrderInit, OrderNext, PTL DEF Spec

-----------------------------------------------------------------------------
(* TopicRegister.  What it sees of the list: how many batches have an      *)
(* operation, and what the server made of the requests.                    *)

Operations == [action : Actions, topic : Topics]

PendingIn(bs, o) == {i \in DOMAIN bs : bs[i].action = o.action /\ o.topic \in bs[i].topics}
Executed(rs) == {Operation(r) : r \in {q \in rs : q.executed}}
Refused(rs) == {Operation(r) : r \in {q \in rs : q.result = "refused"}}

\* The pending operations of the list, with the number of their batches.
PendingOf(bs) == [o \in Operations |-> Cardinality(PendingIn(bs, o))]

LEMMA PendingFinite ==
  ASSUME NEW bs \in Seq(Batches), NEW o
  PROVE  /\ PendingIn(bs, o) \subseteq 1..Len(bs)
         /\ IsFiniteSet(PendingIn(bs, o)) /\ Cardinality(PendingIn(bs, o)) \in Nat
         /\ PendingIn(bs, o) # {} => Cardinality(PendingIn(bs, o)) > 0
<1>1. Len(bs) \in Nat /\ DOMAIN bs = 1..Len(bs)
  BY LenProperties
<1>2. PendingIn(bs, o) \subseteq 1..Len(bs)
  BY <1>1 DEF PendingIn
<1>3. IsFiniteSet(PendingIn(bs, o))
  <2>1. IsFiniteSet(1..Len(bs))
    BY <1>1, FS_Interval
  <2> QED
    BY <1>2, <2>1, FS_Subset
<1>4. Cardinality(PendingIn(bs, o)) \in Nat
  BY <1>3, FS_CardinalityType
<1>5. PendingIn(bs, o) # {} => Cardinality(PendingIn(bs, o)) # 0
  BY <1>3, FS_EmptySet
<1> QED
  BY <1>2, <1>3, <1>4, <1>5

\* What is requested is pending.
LEMMA RequestedIsPending ==
  ASSUME BatchInv, NEW r \in requests
  PROVE  /\ Operation(r) \in Operations
         /\ PendingOf(topicBatches)[Operation(r)] \in Nat \ {0}
<1>1. topicBatches \in Seq(Batches) /\ currentBatch \in 1..Len(topicBatches)
      /\ DOMAIN topicBatches = 1..Len(topicBatches)
  BY LenProperties DEF BatchInv, TypeOK, InFlightIsCurrent
<1>2. Operation(r) \in Operations
  BY DEF BatchInv, TypeOK, Requests, Operations, Operation
<1>3. currentBatch \in PendingIn(topicBatches, Operation(r))
  BY <1>1 DEF BatchInv, InFlightIsCurrent, PendingIn, Operation
<1>4. Cardinality(PendingIn(topicBatches, Operation(r))) \in Nat \ {0}
  BY <1>1, <1>3, PendingFinite
<1> QED
  BY <1>2, <1>4 DEF PendingOf

\* addOperationForTopic makes one operation pending once more, or merges it.
LEMMA AddedPending ==
  ASSUME BatchInv, NEW topic \in Topics, NEW action \in Actions, AddOperation(topic, action)
  PROVE  LET o == [action |-> action, topic |-> topic]
             before == PendingOf(topicBatches)
             after == PendingOf(topicBatches')
         IN  \/ after = [before EXCEPT ![o] = @ + 1]
             \/ before[o] > 0 /\ after = before
<1> DEFINE o == [action |-> action, topic |-> topic]
<1>1. PICK n \in 1..(Len(topicBatches) + 1) :
        /\ Len(topicBatches') = n /\ n >= Len(topicBatches)
        /\ \A i \in 1..Len(topicBatches) :
             /\ topicBatches'[i].action = topicBatches[i].action
             /\ topicBatches'[i].topics \subseteq topicBatches[i].topics \cup {topic}
             /\ topicBatches[i].topics \subseteq topicBatches'[i].topics
             /\ i # n => topicBatches'[i] = topicBatches[i]
        /\ n > Len(topicBatches) => topicBatches'[n].topics = {topic}
        /\ topicBatches'[n].action = action /\ topic \in topicBatches'[n].topics
        /\ currentBatch' = IF currentBatch = 0 THEN n ELSE currentBatch
        /\ overtaken \subseteq overtaken' \cup {topic}
        /\ currentBatch = 0 =>
             \A t \in Topics \ overtaken', i \in 1..(n - 1) : t \notin topicBatches[i].topics
        /\ currentBatch # 0 /\ topic \in overtaken \ overtaken' =>
             \A i \in 1..Len(topicBatches) : topic \notin topicBatches[i].topics
  BY AddedOrder DEF BatchInv
<1>2. /\ topicBatches \in Seq(Batches) /\ topicBatches' \in Seq(Batches)
      /\ Len(topicBatches) \in Nat /\ DOMAIN topicBatches = 1..Len(topicBatches)
      /\ DOMAIN topicBatches' = 1..n
  BY <1>1, AddedBatches, LenProperties DEF BatchInv, TypeOK
<1>3. \A i \in 1..n : i \in 1..Len(topicBatches) \/ (i = n /\ n > Len(topicBatches))
  BY <1>1, <1>2
<1>4. \A p : \A i \in 1..Len(topicBatches) :
        i \in PendingIn(topicBatches, p) => i \in PendingIn(topicBatches', p)
  BY <1>1, <1>2 DEF PendingIn
<1>5. \A p \in Operations : p # o => PendingIn(topicBatches', p) = PendingIn(topicBatches, p)
  <2> SUFFICES ASSUME NEW p \in Operations, p # o, NEW i \in PendingIn(topicBatches', p)
               PROVE  i \in PendingIn(topicBatches, p)
    BY <1>2, <1>4 DEF PendingIn
  <2>1. i \in 1..n /\ topicBatches'[i].action = p.action /\ p.topic \in topicBatches'[i].topics
    BY <1>2 DEF PendingIn
  <2>2. p.action # action \/ p.topic # topic
    BY DEF Operations
  <2>3. i # n \/ p.topic # topic
    BY <1>1, <2>1, <2>2
  <2>4. i \in 1..Len(topicBatches)
    BY <1>1, <1>3, <2>1, <2>3
  <2>5. p.topic \in topicBatches[i].topics /\ topicBatches[i].action = p.action
    BY <1>1, <2>1, <2>3, <2>4
  <2> QED
    BY <1>2, <2>4, <2>5 DEF PendingIn
<1>6. PendingIn(topicBatches', o) = PendingIn(topicBatches, o) \cup {n}
  <2>1. n \in PendingIn(topicBatches', o)
    BY <1>1, <1>2 DEF PendingIn
  <2>2. \A i \in PendingIn(topicBatches', o) : i # n => i \in PendingIn(topicBatches, o)
    BY <1>1, <1>2, <1>3 DEF PendingIn
  <2>3. \A i \in PendingIn(topicBatches, o) : i \in PendingIn(topicBatches', o)
    BY <1>2, <1>4 DEF PendingIn
  <2> QED
    BY <2>1, <2>2, <2>3
<1>7. o \in Operations
  BY DEF Operations
<1> HIDE DEF o
<1>8. CASE n \in PendingIn(topicBatches, o)
  <2>1. \A p \in Operations : PendingIn(topicBatches', p) = PendingIn(topicBatches, p)
    BY <1>5, <1>6, <1>8
  <2>2. PendingOf(topicBatches') = PendingOf(topicBatches)
    BY <2>1 DEF PendingOf
  <2>3. PendingOf(topicBatches)[o] > 0
    BY <1>2, <1>7, <1>8, PendingFinite DEF PendingOf
  <2> QED
    BY <2>2, <2>3 DEF o
<1>9. CASE n \notin PendingIn(topicBatches, o)
  <2>1. Cardinality(PendingIn(topicBatches', o)) = Cardinality(PendingIn(topicBatches, o)) + 1
    BY <1>2, <1>6, <1>9, PendingFinite, FS_AddElement
  <2>2. \A p \in Operations :
          Cardinality(PendingIn(topicBatches', p)) =
            IF p = o THEN Cardinality(PendingIn(topicBatches, p)) + 1
                     ELSE Cardinality(PendingIn(topicBatches, p))
    BY <1>5, <2>1
  <2>3. PendingOf(topicBatches') = [PendingOf(topicBatches) EXCEPT ![o] = @ + 1]
    BY <1>7, <2>2 DEF PendingOf
  <2> QED
    BY <2>3 DEF o
<1> QED
  BY <1>8, <1>9

\* The completion block takes one pending operation away, the one of its
\* request, wherever the batches are afterwards.
LEMMA CompletedPending ==
  ASSUME BatchInv, NEW r \in requests, Complete(r), r.result # "network"
  PROVE  PendingOf(topicBatches') =
           [PendingOf(topicBatches) EXCEPT ![Operation(r)] = @ - 1]
<1> DEFINE done == Operation(r)
           gone(o) == IF o = done THEN {currentBatch} ELSE {}
<1>1. /\ currentBatch \in 1..Len(topicBatches)
      /\ topicBatches' \in Seq(Batches) /\ Len(topicBatches') \in Nat
      /\ topicBatches \in Seq(Batches)
      /\ DOMAIN topicBatches = 1..Len(topicBatches)
      /\ DOMAIN topicBatches' = 1..Len(topicBatches')
  BY CompletedBatches, LenProperties DEF BatchInv, TypeOK
<1>2. PICK was \in [1..Len(topicBatches') -> 1..Len(topicBatches)] : Keeps(was, r.topic)
  BY CompletedBatches
<1>3. topicBatches[currentBatch].action = r.action
      /\ r.topic \in topicBatches[currentBatch].topics
  BY DEF BatchInv, InFlightIsCurrent
<1>4. done \in Operations /\ done.action = r.action /\ done.topic = r.topic
  BY RequestedIsPending DEF Operation
<1>5. ASSUME NEW o \in Operations
      PROVE  Cardinality(PendingIn(topicBatches', o))
               = Cardinality(PendingIn(topicBatches, o) \ gone(o))
  <2> DEFINE S == PendingIn(topicBatches', o)
             T == PendingIn(topicBatches, o) \ gone(o)
             f == [i \in S |-> was[i]]
  <2>1. o = done <=> o.action = r.action /\ o.topic = r.topic
    BY <1>4 DEF Operations, Operation
  <2>2. \A i \in 1..Len(topicBatches') :
          /\ topicBatches'[i].action = topicBatches[was[i]].action
          /\ topicBatches'[i].topics = IF was[i] = currentBatch
                                       THEN topicBatches[was[i]].topics \ {r.topic}
                                       ELSE topicBatches[was[i]].topics
    BY <1>2 DEF Keeps
  <2>3. \A k \in 1..Len(topicBatches) :
          \/ \E i \in 1..Len(topicBatches') : was[i] = k
          \/ k = currentBatch /\ topicBatches[k].topics = {r.topic}
    BY <1>2 DEF Keeps
  <2>4. \A i, j \in 1..Len(topicBatches') : i < j => was[i] < was[j]
    BY <1>2 DEF Keeps
  <2>5. \A i \in S : i \in 1..Len(topicBatches') /\ was[i] \in T
    BY <1>1, <1>2, <2>1, <2>2 DEF PendingIn
  <2>6. \A k \in T : \E i \in S : was[i] = k
    <3> SUFFICES ASSUME NEW k \in T PROVE \E i \in S : was[i] = k
      OBVIOUS
    <3>1. /\ k \in 1..Len(topicBatches) /\ (o = done => k # currentBatch)
          /\ topicBatches[k].action = o.action /\ o.topic \in topicBatches[k].topics
      BY <1>1 DEF PendingIn
    <3>2. ~(k = currentBatch /\ o.topic = r.topic)
      BY <1>3, <2>1, <3>1
    <3>3. PICK i \in 1..Len(topicBatches') : was[i] = k
      BY <2>3, <3>1, <3>2
    <3>4. i \in S
      BY <1>1, <2>2, <3>1, <3>2, <3>3 DEF PendingIn
    <3> QED
      BY <3>3, <3>4
  <2>7. \A i, j \in S : was[i] = was[j] => i = j
    <3> SUFFICES ASSUME NEW i \in S, NEW j \in S, was[i] = was[j], i # j PROVE FALSE
      OBVIOUS
    <3>1. i \in 1..Len(topicBatches') /\ j \in 1..Len(topicBatches')
      BY <2>5
    <3>2. i < j \/ j < i
      BY <1>1, <3>1
    <3>3. was[i] \in Int /\ was[j] \in Int
      BY <1>2, <3>1
    <3> QED
      BY <2>4, <3>1, <3>2, <3>3
  <2> HIDE DEF S, T
  <2>8. f \in Bijection(S, T)
    <3>1. f \in [S -> T]
      BY <2>5
    <3>2. \A i, j \in S : f[i] = f[j] => i = j
      BY <2>7
    <3>3. \A k \in T : \E i \in S : f[i] = k
      BY <2>6
    <3> QED
      BY <3>1, <3>2, <3>3 DEF Bijection, Injection, Surjection, IsInjective
  <2>9. IsFiniteSet(S)
    BY <1>1, PendingFinite DEF S
  <2> QED
    BY <2>8, <2>9, FS_Bijection DEF S, T, ExistsBijection
<1>6. Cardinality(PendingIn(topicBatches, done) \ {currentBatch})
        = Cardinality(PendingIn(topicBatches, done)) - 1
  <2>1. currentBatch \in PendingIn(topicBatches, done)
    BY <1>1, <1>3, <1>4 DEF PendingIn
  <2> QED
    BY <1>1, <2>1, PendingFinite, FS_RemoveElement
<1>7. \A o \in Operations :
        Cardinality(PendingIn(topicBatches', o)) =
          IF o = done THEN Cardinality(PendingIn(topicBatches, o)) - 1
                      ELSE Cardinality(PendingIn(topicBatches, o))
  BY <1>5, <1>6
<1> HIDE DEF done
<1>8. PendingOf(topicBatches') = [PendingOf(topicBatches) EXCEPT ![done] = @ - 1]
  BY <1>4, <1>7 DEF PendingOf
<1> QED
  BY <1>8 DEF done

\* The requests of the current batch: what they tell of its operations.
LEMMA RequestDecides ==
  ASSUME BatchInv, NEW r \in requests, NEW x \in requests, Operation(x) = Operation(r)
  PROVE  x = r
<1>1. x.topic = r.topic
  BY DEF Operation
<1> QED
  BY <1>1 DEF BatchInv, InFlightIsCurrent

\* When r is gone, so is what was known of its operation.
LEMMA WithoutRequest ==
  ASSUME BatchInv, NEW r \in requests
  PROVE  /\ Executed(requests \ {r}) = Executed(requests) \ {Operation(r)}
         /\ Refused(requests \ {r}) = Refused(requests) \ {Operation(r)}
<1>1. \A x \in requests \ {r} : Operation(x) # Operation(r)
  BY RequestDecides
<1> QED
  BY <1>1 DEF Executed, Refused

\* A request q of the same operation takes the place of r.
LEMMA WithRequest ==
  ASSUME BatchInv, NEW r \in requests, NEW q, Operation(q) = Operation(r)
  PROVE  LET rs == (requests \ {r}) \cup {q} IN
         /\ Executed(rs) = (Executed(requests) \ {Operation(r)})
                              \cup (IF q.executed THEN {Operation(r)} ELSE {})
         /\ Refused(rs) = (Refused(requests) \ {Operation(r)})
                             \cup (IF q.result = "refused" THEN {Operation(r)} ELSE {})
<1> DEFINE rest == requests \ {r}
<1>1. /\ Executed(rest) = Executed(requests) \ {Operation(r)}
      /\ Refused(rest) = Refused(requests) \ {Operation(r)}
  BY WithoutRequest
<1> HIDE DEF rest
<1>2. Executed(rest \cup {q}) = Executed(rest) \cup (IF q.executed THEN {Operation(q)} ELSE {})
  BY DEF Executed
<1>3. Refused(rest \cup {q})
        = Refused(rest) \cup (IF q.result = "refused" THEN {Operation(q)} ELSE {})
  BY DEF Refused
<1> QED
  BY <1>1, <1>2, <1>3 DEF rest

\* For the one request of an operation: what is known of the operation.
LEMMA KnownOfRequest ==
  ASSUME BatchInv, NEW r \in requests
  PROVE  /\ r.executed \in BOOLEAN
         /\ Operation(r) \in Executed(requests) <=> r.executed
         /\ Operation(r) \in Refused(requests) <=> r.result = "refused"
<1>1. r \in Requests
  BY DEF BatchInv, TypeOK
<1>2. \A x \in requests : Operation(x) = Operation(r) => x = r
  BY RequestDecides
<1>3. r.executed \in BOOLEAN
  BY <1>1 DEF Requests
<1> QED
  BY <1>2, <1>3 DEF Executed, Refused

-----------------------------------------------------------------------------
(* The steps of the list, as steps of the register *)

\* The operations of TopicRegister on what it sees: the pending operations,
\* those executed and those refused.
Pending == PendingOf(topicBatches)
ExecutedNow == Executed(requests)
RefusedNow == Refused(requests)

Requested(o) ==
  /\ Pending' = [Pending EXCEPT ![o] = @ + 1] \/ (Pending[o] > 0 /\ Pending' = Pending)
  /\ ExecutedNow' = ExecutedNow /\ RefusedNow' = RefusedNow
  /\ adrift' = adrift /\ registered' = registered

Carried(o) ==
  /\ Pending[o] > 0
  /\ Register(o)
  /\ ExecutedNow' = ExecutedNow \cup {o}
  /\ Pending' = Pending /\ RefusedNow' = RefusedNow /\ adrift' = adrift

CarriedLate(o) ==
  /\ o \in adrift
  /\ Register(o)
  /\ adrift' \in {adrift, adrift \ {o}}
  /\ Pending' = Pending /\ ExecutedNow' = ExecutedNow /\ RefusedNow' = RefusedNow

Declined(o) ==
  /\ Pending[o] > 0
  /\ RefusedNow' = RefusedNow \cup {o}
  /\ Pending' = Pending /\ ExecutedNow' = ExecutedNow
  /\ adrift' = adrift /\ registered' = registered

Concluded(o) ==
  /\ Pending[o] > 0 /\ o \in ExecutedNow \cup RefusedNow
  /\ Pending' = [Pending EXCEPT ![o] = @ - 1]
  /\ ExecutedNow' = ExecutedNow \ {o} /\ RefusedNow' = RefusedNow \ {o}
  /\ adrift' = adrift /\ registered' = registered

\* Also what changes nothing at all.
Forgotten ==
  /\ ExecutedNow' \in SUBSET ExecutedNow /\ RefusedNow' \in SUBSET RefusedNow
  /\ \E some \in SUBSET {o \in Operations : Pending[o] > 0} : adrift' = adrift \cup some
  /\ Pending' = Pending /\ registered' = registered

RegisterStep ==
  \/ \E o \in Operations :
       Requested(o) \/ Carried(o) \/ CarriedLate(o) \/ Declined(o) \/ Concluded(o)
  \/ Forgotten

\* What goes adrift has been pending.
LEMMA AdriftWasPending ==
  ASSUME BatchInv, NEW rs \in SUBSET requests, GoAdrift(rs)
  PROVE  \E some \in SUBSET {o \in Operations : Pending[o] > 0} : adrift' = adrift \cup some
<1>1. PICK some \in SUBSET {Operation(r) : r \in rs} : adrift' = adrift \cup some
  BY AdriftType DEF BatchInv
<1>2. \A r \in rs : Operation(r) \in Operations /\ Pending[Operation(r)] > 0
  BY RequestedIsPending DEF Pending
<1> HIDE DEF Pending, Operations
<1>3. some \in SUBSET {o \in Operations : Pending[o] > 0}
  BY <1>2
<1> QED
  BY <1>1, <1>3

\* A step that changes nothing but what is known of the requests.
LEMMA ForgottenWithoutAdrift ==
  ASSUME ExecutedNow' \in SUBSET ExecutedNow, RefusedNow' \in SUBSET RefusedNow,
         Pending' = Pending, registered' = registered, adrift' = adrift
  PROVE  Forgotten
<1>1. adrift' = adrift \cup {} /\ {} \in SUBSET {o \in Operations : Pending[o] > 0}
  OBVIOUS
<1> QED
  BY <1>1 DEF Forgotten

LEMMA AddRegisters ==
  ASSUME BatchInv, NEW topic \in Topics, NEW action \in Actions, AddOperation(topic, action)
  PROVE  RegisterStep
<1> DEFINE o == [action |-> action, topic |-> topic]
<1>1. UNCHANGED <<requests, adrift, registered>>
  BY DEF AddOperation, serverVars
<1>2. ExecutedNow' = ExecutedNow /\ RefusedNow' = RefusedNow
  BY <1>1 DEF ExecutedNow, RefusedNow
<1>3. o \in Operations
  BY DEF Operations
<1>4. Pending' = [Pending EXCEPT ![o] = @ + 1] \/ (Pending[o] > 0 /\ Pending' = Pending)
  BY AddedPending DEF Pending
<1> HIDE DEF o
<1>5. Requested(o)
  BY <1>1, <1>2, <1>4 DEF Requested
<1> QED
  BY <1>3, <1>5 DEF RegisterStep

LEMMA ResumeRegisters ==
  ASSUME NEW tokenKnown, ResumeOperationsIfNeeded(tokenKnown)
  PROVE  RegisterStep
<1> DEFINE current == IF currentBatch = 0 /\ topicBatches # <<>> THEN 1 ELSE currentBatch
           idle == IF current = 0 \/ ~tokenKnown THEN {}
                   ELSE topicBatches[current].topics \ topicsInFlight
           new == {[action |-> topicBatches[current].action, topic |-> t,
                    executed |-> FALSE, result |-> "none"] : t \in idle}
<1>a. requests' = requests \cup new /\ UNCHANGED <<topicBatches, adrift, registered>>
  BY DEF ResumeOperationsIfNeeded, serverVars
<1>b. \A r \in new : r.executed = FALSE /\ r.result = "none"
  OBVIOUS
<1> HIDE DEF new
<1>1. /\ requests' = requests \cup new
      /\ \A r \in new : r.executed = FALSE /\ r.result = "none"
      /\ UNCHANGED <<topicBatches, adrift, registered>>
  BY <1>a, <1>b
<1>2. ExecutedNow' = ExecutedNow
  BY <1>1 DEF ExecutedNow, Executed
<1>3. RefusedNow' = RefusedNow
  BY <1>1 DEF RefusedNow, Refused
<1>4. Pending' = Pending
  BY <1>1 DEF Pending
<1> QED
  BY <1>1, <1>2, <1>3, <1>4, ForgottenWithoutAdrift DEF RegisterStep

LEMMA ExecuteRegisters ==
  ASSUME BatchInv, NEW r \in requests, Execute(r)
  PROVE  RegisterStep
<1> DEFINE o == Operation(r)
           q == [r EXCEPT !.executed = TRUE]
<1>1. r \in Requests
  BY DEF BatchInv, TypeOK
<1>2. /\ q.executed = TRUE /\ q.result = r.result /\ Operation(q) = o
      /\ o.action = r.action /\ o.topic = r.topic
  BY <1>1 DEF Requests, Operation
<1>3. /\ requests' = (requests \ {r}) \cup {q} /\ r.result = "none"
      /\ Register(r) /\ UNCHANGED <<topicBatches, adrift>>
  BY DEF Execute, clientVars
<1>4. o \in Operations /\ Pending[o] > 0
  BY RequestedIsPending DEF Pending
<1> HIDE DEF q, o
<1>a. Operation(q) = Operation(r) /\ o = Operation(r)
  BY <1>2 DEF o
<1>5. /\ Executed((requests \ {r}) \cup {q}) = (Executed(requests) \ {o}) \cup {o}
      /\ Refused((requests \ {r}) \cup {q}) = Refused(requests) \ {o}
  BY <1>2, <1>3, <1>a, WithRequest
<1>6. o \notin Refused(requests)
  BY <1>3, <1>a, KnownOfRequest
<1>7. ExecutedNow' = ExecutedNow \cup {o} /\ RefusedNow' = RefusedNow
  BY <1>3, <1>5, <1>6 DEF ExecutedNow, RefusedNow
<1>8. Pending' = Pending
  BY <1>3 DEF Pending
<1>9. Register(o)
  BY <1>2, <1>3 DEF Register
<1>10. Carried(o)
  BY <1>3, <1>4, <1>7, <1>8, <1>9 DEF Carried
<1> QED
  BY <1>4, <1>10 DEF RegisterStep

LEMMA AnswerRegisters ==
  ASSUME BatchInv, NEW r \in requests, NEW result, Answer(r, result)
  PROVE  RegisterStep
<1> DEFINE o == Operation(r)
           q == [r EXCEPT !.result = result]
<1>1. r \in Requests
  BY DEF BatchInv, TypeOK
<1>2. q.executed = r.executed /\ q.result = result /\ Operation(q) = o
  BY <1>1 DEF Requests, Operation
<1>3. /\ requests' = (requests \ {r}) \cup {q} /\ r.result = "none"
      /\ UNCHANGED <<topicBatches, registered>>
      /\ IF result = "network" THEN GoAdrift({r}) ELSE UNCHANGED adrift
  BY DEF Answer, clientVars
<1>4. o \in Operations /\ Pending[o] > 0
  BY RequestedIsPending DEF Pending
<1> HIDE DEF q, o
<1>a. Operation(q) = Operation(r) /\ o = Operation(r)
  BY <1>2 DEF o
<1>5. /\ Executed((requests \ {r}) \cup {q})
           = (Executed(requests) \ {o}) \cup (IF r.executed THEN {o} ELSE {})
      /\ Refused((requests \ {r}) \cup {q})
           = (Refused(requests) \ {o}) \cup (IF result = "refused" THEN {o} ELSE {})
  BY <1>2, <1>a, WithRequest
<1>6. /\ r.executed \in BOOLEAN /\ (o \in Executed(requests) <=> r.executed)
      /\ o \notin Refused(requests)
  BY <1>3, <1>a, KnownOfRequest
<1>7. ExecutedNow' = ExecutedNow
  BY <1>3, <1>5, <1>6 DEF ExecutedNow
<1>8. RefusedNow' = RefusedNow \cup (IF result = "refused" THEN {o} ELSE {})
  BY <1>3, <1>5, <1>6 DEF RefusedNow
<1>9. Pending' = Pending
  BY <1>3 DEF Pending
<1>10. CASE result = "refused"
  <2>1. Declined(o)
    BY <1>3, <1>4, <1>7, <1>8, <1>9, <1>10 DEF Declined
  <2> QED
    BY <1>4, <2>1 DEF RegisterStep
<1>11. CASE result = "network"
  BY <1>3, <1>7, <1>8, <1>9, <1>11, AdriftWasPending DEF RegisterStep, Forgotten
<1>12. CASE result \notin {"network", "refused"}
  BY <1>3, <1>7, <1>8, <1>9, <1>12, ForgottenWithoutAdrift DEF RegisterStep
<1> QED
  BY <1>10, <1>11, <1>12

LEMMA CompleteRegisters ==
  ASSUME BatchInv, ExecutedIsRegistered, NEW r \in requests, Complete(r)
  PROVE  RegisterStep
<1> DEFINE o == Operation(r)
<1>1. requests' = requests \ {r} /\ UNCHANGED <<adrift, registered>> /\ r.result # "none"
  BY DEF Complete, serverVars
<1>2. o \in Operations /\ Pending[o] > 0
  BY RequestedIsPending DEF Pending
<1>3. ExecutedNow' = ExecutedNow \ {o} /\ RefusedNow' = RefusedNow \ {o}
  BY <1>1, WithoutRequest DEF ExecutedNow, RefusedNow
<1>4. CASE r.result = "network"
  <2>1. Pending' = Pending
    BY <1>4 DEF Complete, Pending
  <2> HIDE DEF o
  <2> QED
    BY <1>1, <1>3, <2>1, ForgottenWithoutAdrift DEF RegisterStep
<1>5. CASE r.result # "network"
  <2>1. Pending' = [Pending EXCEPT ![o] = @ - 1]
    BY <1>5, CompletedPending DEF Pending
  <2>2. r.result \in {"success", "refused"}
    BY <1>1, <1>5 DEF BatchInv, TypeOK, Requests
  <2>3. r.result = "success" => r.executed
    BY DEF ExecutedIsRegistered
  <2>4. o \in ExecutedNow \cup RefusedNow
    BY <2>2, <2>3, KnownOfRequest DEF ExecutedNow, RefusedNow
  <2> HIDE DEF o
  <2>5. Concluded(o)
    BY <1>1, <1>2, <1>3, <2>1, <2>4 DEF Concluded
  <2> QED
    BY <1>2, <2>5 DEF RegisterStep
<1> QED
  BY <1>4, <1>5

LEMMA NextRegisters ==
  ASSUME OrderInv, [Next]_vars
  PROVE  RegisterStep
<1>0. BatchInv /\ ExecutedIsRegistered
  BY DEF OrderInv
<1>1. CASE UNCHANGED <<topicBatches, requests, adrift, registered>>
  <2>1. Pending' = Pending /\ ExecutedNow' = ExecutedNow /\ RefusedNow' = RefusedNow
    BY <1>1 DEF Pending, ExecutedNow, RefusedNow
  <2> QED
    BY <1>1, <2>1, ForgottenWithoutAdrift DEF RegisterStep
<1>2. CASE Launch
  <2>1. Prune(topicBatches) = topicBatches
    BY <1>0 DEF BatchInv, Prune, NoEmptyBatch
  <2>2. UNCHANGED <<topicBatches, requests, adrift, registered>>
    BY <1>2, <2>1 DEF Launch, serverVars
  <2> QED
    BY <1>1, <2>2
<1>3. CASE Quit
  <2>1. requests' = {} /\ UNCHANGED <<topicBatches, registered>> /\ GoAdrift(requests)
    BY <1>3 DEF Quit
  <2>2. ExecutedNow' = {} /\ RefusedNow' = {} /\ Pending' = Pending
    BY <2>1 DEF ExecutedNow, RefusedNow, Executed, Refused, Pending
  <2>3. \E some \in SUBSET {o \in Operations : Pending[o] > 0} : adrift' = adrift \cup some
    BY <1>0, <2>1, AdriftWasPending
  <2> QED
    BY <2>1, <2>2, <2>3 DEF RegisterStep, Forgotten
<1>4. CASE Resume \/ TokenRefreshed \/ NetworkChanged
  BY <1>4, ResumeRegisters DEF Resume, TokenRefreshed, NetworkChanged
<1>5. CASE UNCHANGED vars
  BY <1>1, <1>5 DEF vars, clientVars, serverVars
<1>6. ASSUME NEW o \in adrift, ExecuteLate(o)
      PROVE  RegisterStep
  <2>1. o \in Operations
    BY <1>0 DEF BatchInv, TypeOK, Operations
  <2>2. /\ UNCHANGED <<topicBatches, requests>>
        /\ Register(o) /\ adrift' \in {adrift, adrift \ {o}}
    BY <1>6 DEF ExecuteLate, clientVars
  <2>3. Pending' = Pending /\ ExecutedNow' = ExecutedNow /\ RefusedNow' = RefusedNow
    BY <2>2 DEF Pending, ExecutedNow, RefusedNow
  <2>4. CarriedLate(o)
    BY <2>2, <2>3 DEF CarriedLate
  <2> QED
    BY <2>1, <2>4 DEF RegisterStep
<1> QED
  BY <1>0, <1>2, <1>3, <1>4, <1>5, <1>6, AddRegisters, ExecuteRegisters, AnswerRegisters,
     CompleteRegisters DEF Next, Add, ServerAnswers

\* PendingTopics implements TopicRegister: whatever is retried, refused, lost
\* with the process or pruned, no operation leaves the list before the server
\* executed or refused it, and the server executes none that is not pending,
\* but for requests of the past that reach it late.
THEOREM ListImplementsRegister == Spec => ImplementsTopicRegister
<1>1. Init => Promise!Init
  <2> SUFFICES ASSUME Init PROVE Promise!Init
    OBVIOUS
  <2>1. topicBatches = <<>> /\ requests = {} /\ adrift = {} /\ registered = {}
    BY DEF Init
  <2>2. \A o \in [action : Actions, topic : Topics] : PendingCount(o) = 0
    BY <2>1, FS_EmptySet DEF PendingCount
  <2> QED
    BY <2>1, <2>2 DEF Promise!Init, Promise!Operations, Promise!Actions, Actions
<1>2. OrderInv /\ [Next]_vars => [Promise!Next]_(Promise!vars)
  <2> SUFFICES ASSUME OrderInv, [Next]_vars PROVE [Promise!Next]_(Promise!vars)
    OBVIOUS
  <2>1. RegisterStep
    BY NextRegisters
  <2>2. Promise!Operations = Operations
    BY DEF Promise!Operations, Promise!Actions, Operations, Actions
  <2>3. \A o \in Operations : Requested(o) => Promise!Request(o)
    BY DEF Requested, Promise!Request, Pending, PendingOf, PendingIn, PendingCount, Operations,
           ExecutedNow, RefusedNow, Executed, Refused
  <2>4. \A o \in Operations : Carried(o) => Promise!Execute(o)
    BY DEF Carried, Register, Promise!Register, Promise!Execute, Pending, PendingOf, PendingIn, PendingCount, Operations,
           ExecutedNow, RefusedNow, Executed, Refused
  <2>5. \A o \in Operations : Declined(o) => Promise!Refuse(o)
    BY DEF Declined, Promise!Refuse, Pending, PendingOf, PendingIn, PendingCount, Operations,
           ExecutedNow, RefusedNow, Executed, Refused
  <2>6. \A o \in Operations : Concluded(o) => Promise!Conclude(o)
    BY DEF Concluded, Promise!Conclude, Pending, PendingOf, PendingIn, PendingCount, Operations,
           ExecutedNow, RefusedNow, Executed, Refused
  <2>7. Forgotten => Promise!Forget
    BY <2>2 DEF Forgotten, Promise!Forget, Pending, PendingOf, PendingIn, PendingCount, Operations,
           ExecutedNow, RefusedNow, Executed, Refused
  <2>8. \A o \in Operations : CarriedLate(o) => Promise!ExecuteLate(o)
    BY DEF CarriedLate, Register, Promise!Register, Promise!ExecuteLate, Pending, PendingOf,
           PendingIn, PendingCount, Operations, ExecutedNow, RefusedNow, Executed, Refused
  <2>9. Promise!Next
    BY <2>1, <2>2, <2>3, <2>4, <2>5, <2>6, <2>7, <2>8 DEF RegisterStep, Promise!Next
  <2> QED
    BY <2>9
<1> QED
  BY <1>1, <1>2, OrderInit, OrderNext, PTL DEF Spec, ImplementsTopicRegister, Promise!Spec

=============================================================================
