---------------------------- MODULE PendingTopics ----------------------------
(***************************************************************************)
(* FIRMessagingPendingTopicsList: the topic operations the app asked for   *)
(* and FCM's server has not executed yet, in batches of one action each.   *)
(* Every block under @synchronized(self) is one action.  The list is       *)
(* archived under the same lock whenever its batches change, so the        *)
(* batches survive the process; which batch is current, and what is in     *)
(* flight, does not.  Completion handlers are left out: those of the app   *)
(* only print.                                                             *)
(***************************************************************************)
EXTENDS Integers, SequencesExt

CONSTANTS
  Topics,      \* topics the app subscribes to
  MaxBatches,  \* bound: batches waiting
  MaxResumes,  \* bound: blocks dispatched to resume the operations
  MayBeLate    \* bound: operations whose requests may reach the server late

ASSUME PendingTopicsAssumption == MaxBatches \in Nat /\ MaxResumes \in Nat

VARIABLES
  running,         \* the process is alive
  canRequest,      \* FIRMessaging has its defaultFcmToken
  topicBatches,    \* oldest first; archived in UserDefaults
  currentBatch,    \* index in topicBatches, 0 when nil
  topicsInFlight,
  requests,        \* HTTP requests to the topics server, and their results
  adrift,          \* operations of requests the client gave up on, still on the wire
  resumes,         \* blocks with resumeOperationsIfNeeded on a global queue
  registered,      \* topics the server sends to this installation
  wanted,          \* history: the action the app last asked for, per topic
  refused,         \* history: topics whose latest answer was a refusal
  overtaken,       \* history: topics with an operation older than the current batch
  belated          \* history: topics whose latest execution was one of adrift

clientVars == <<topicBatches, currentBatch, topicsInFlight, resumes>>
historyVars == <<wanted, refused, overtaken>>
serverVars == <<adrift, registered, belated>>
vars == <<running, canRequest, clientVars, requests, serverVars, historyVars>>

-----------------------------------------------------------------------------
Actions == {"subscribe", "unsubscribe"}
Batches == [action : Actions, topics : SUBSET Topics]

\* A request is executed by the server or not, whatever its result says:
\* "network" is an error of NSURLErrorDomain, "refused" is any other error.
Requests == [action : Actions, topic : Topics, executed : BOOLEAN,
             result : {"none", "success", "network", "refused"}]

Operation(r) == [action |-> r.action, topic |-> r.topic]

\* The topics of the batches in the sequence bs.
TopicsOf(bs) == UNION {bs[i].topics : i \in DOMAIN bs}

Init ==
  /\ running = FALSE /\ canRequest = FALSE
  /\ topicBatches = <<>> /\ currentBatch = 0
  /\ topicsInFlight = {} /\ requests = {} /\ resumes = 0
  /\ adrift = {} /\ registered = {} /\ belated = {}
  /\ wanted = [t \in Topics |-> "none"] /\ refused = {} /\ overtaken = {}

\* pruneTopicBatches: the batches without the empty ones.
Prune(bs) ==
  IF \A i \in DOMAIN bs : bs[i].topics # {}
  THEN bs
  ELSE SelectSeq(bs, LAMBDA batch : batch.topics # {})

\* restorePendingTopicsList reads the archive and prunes it.
Launch ==
  /\ ~running
  /\ running' = TRUE
  /\ topicBatches' = Prune(topicBatches)
  /\ UNCHANGED <<canRequest, currentBatch, topicsInFlight, requests, resumes,
                 serverVars, historyVars>>

\* Mutant: a new batch becomes current although another one is in flight.
AddOperation_NewestCurrent(topic, action) ==
  /\ running /\ resumes < MaxResumes
  /\ LET newBatch == topicBatches = <<>> \/ Last(topicBatches).action # action
         n == IF newBatch THEN Len(topicBatches) + 1 ELSE Len(topicBatches)
         batches == IF newBatch
                    THEN Append(topicBatches, [action |-> action, topics |-> {}])
                    ELSE topicBatches
     IN  /\ n <= MaxBatches
         /\ topicBatches' = [batches EXCEPT ![n].topics = @ \cup {topic}]
         /\ currentBatch' = n
         /\ resumes' = resumes + 1
         /\ overtaken' = overtaken
  /\ wanted' = [wanted EXCEPT ![topic] = action]
  /\ UNCHANGED <<running, canRequest, topicsInFlight, requests, serverVars, refused>>

\* addOperationForTopic:withAction:completion:.  Without a current batch the
\* last one becomes current, whatever batches are before it.
AddOperation(topic, action) ==
  /\ running /\ resumes < MaxResumes
  /\ LET newBatch == topicBatches = <<>> \/ Last(topicBatches).action # action
         n == IF newBatch THEN Len(topicBatches) + 1 ELSE Len(topicBatches)
         batches == IF newBatch
                    THEN Append(topicBatches, [action |-> action, topics |-> {}])
                    ELSE topicBatches
         topicExistedBefore == topic \in batches[n].topics
     IN  /\ n <= MaxBatches
         /\ topicBatches' = [batches EXCEPT ![n].topics = @ \cup {topic}]
         /\ currentBatch' = IF currentBatch = 0 THEN n ELSE currentBatch
         /\ resumes' = IF currentBatch' = n /\ ~topicExistedBefore
                       THEN resumes + 1 ELSE resumes
         /\ overtaken' = IF currentBatch = 0
                         THEN overtaken \cup TopicsOf(SubSeq(batches, 1, n - 1))
                         ELSE IF topic \in TopicsOf(batches)
                              THEN overtaken ELSE overtaken \ {topic}
  /\ wanted' = [wanted EXCEPT ![topic] = action]
  /\ UNCHANGED <<running, canRequest, topicsInFlight, requests, serverVars, refused>>

\* Mutant: without a current batch nothing is resumed.
ResumeOperationsIfNeeded_NoNext(tokenKnown) ==
  LET idle == IF currentBatch = 0 \/ ~tokenKnown THEN {}
              ELSE topicBatches[currentBatch].topics \ topicsInFlight
  IN  /\ topicsInFlight' = topicsInFlight \cup idle
      /\ requests' = requests \cup
           {[action |-> topicBatches[currentBatch].action, topic |-> t,
             executed |-> FALSE, result |-> "none"] : t \in idle}
      /\ UNCHANGED <<topicBatches, currentBatch, serverVars, running, historyVars>>

\* resumeOperationsIfNeeded: every topic of the current batch that is not in
\* flight is requested.
ResumeOperationsIfNeeded(tokenKnown) ==
  LET current == IF currentBatch = 0 /\ topicBatches # <<>> THEN 1 ELSE currentBatch
      idle == IF current = 0 \/ ~tokenKnown THEN {}
              ELSE topicBatches[current].topics \ topicsInFlight
  IN  /\ currentBatch' = current
      /\ topicsInFlight' = topicsInFlight \cup idle
      /\ requests' = requests \cup
           {[action |-> topicBatches[current].action, topic |-> t,
             executed |-> FALSE, result |-> "none"] : t \in idle}
      /\ UNCHANGED <<topicBatches, serverVars, running, historyVars>>

Resume ==
  /\ running /\ resumes > 0
  /\ resumes' = resumes - 1
  /\ ResumeOperationsIfNeeded(canRequest)
  /\ UNCHANGED canRequest

\* defaultInstanceIDTokenWasRefreshed stores the first token, scheduleSync.
TokenRefreshed ==
  /\ running /\ ~canRequest
  /\ canRequest' = TRUE
  /\ ResumeOperationsIfNeeded(TRUE)
  /\ UNCHANGED resumes

\* onNetworkStatusChanged with the network available, scheduleSync.
NetworkChanged ==
  /\ running /\ canRequest
  /\ ResumeOperationsIfNeeded(TRUE)
  /\ UNCHANGED <<canRequest, resumes>>

\* The topics server executes an operation.
Register(o) ==
  registered' = IF o.action = "subscribe" THEN registered \cup {o.topic}
                                          ELSE registered \ {o.topic}

Execute(r) ==
  /\ r.result = "none" /\ ~r.executed
  /\ requests' = (requests \ {r}) \cup {[r EXCEPT !.executed = TRUE]}
  /\ Register(r)
  /\ belated' = belated \ {r.topic}
  /\ UNCHANGED <<running, canRequest, clientVars, adrift, historyVars>>

\* It executes one that reaches it after the client got an error for it, or
\* after the process ended.
ExecuteLate(o) ==
  /\ Register(o)
  /\ belated' = belated \cup {o.topic}
  /\ adrift' \in {adrift, adrift \ {o}}
  /\ UNCHANGED <<running, canRequest, clientVars, requests, historyVars>>

\* Some of the requests rs stay on the wire although nobody waits for them.
GoAdrift(rs) ==
  \E some \in SUBSET {Operation(r) : r \in {q \in rs : q.result = "none" /\ ~q.executed}} :
    /\ some \subseteq MayBeLate
    /\ adrift' = adrift \cup some

\* The answer of the server or the error of the network, which does not tell
\* whether the server got, or will get, the request.
Answer(r, result) ==
  /\ r.result = "none"
  /\ result = "success" => r.executed
  /\ requests' = (requests \ {r}) \cup {[r EXCEPT !.result = result]}
  /\ IF result = "network" THEN GoAdrift({r}) ELSE UNCHANGED adrift
  /\ UNCHANGED <<running, canRequest, clientVars, registered, belated, historyVars>>

\* Mutant: any error drops the operation.
Complete_DropOnError(r) ==
  /\ r.result # "none" /\ resumes < MaxResumes
  /\ requests' = requests \ {r}
  /\ topicsInFlight' = topicsInFlight \ {r.topic}
  /\ LET batch == topicBatches[currentBatch]
         left == batch.topics \ {r.topic}
     IN  IF left = {}
         THEN /\ topicBatches' = RemoveAt(topicBatches, currentBatch)
              /\ currentBatch' = 0
         ELSE /\ topicBatches' = [topicBatches EXCEPT ![currentBatch].topics = left]
              /\ UNCHANGED currentBatch
  /\ resumes' = resumes + 1
  /\ refused' = IF r.result = "refused" THEN refused \cup {r.topic} ELSE refused \ {r.topic}
  /\ UNCHANGED <<running, canRequest, serverVars, wanted, overtaken>>

\* Mutant: a finished batch leaves the list but stays the current one.
Complete_KeepCurrent(r) ==
  /\ r.result # "none" /\ resumes < MaxResumes
  /\ requests' = requests \ {r}
  /\ topicsInFlight' = topicsInFlight \ {r.topic}
  /\ IF r.result = "network"
     THEN UNCHANGED <<topicBatches, resumes, refused>>
     ELSE /\ LET left == topicBatches[currentBatch].topics \ {r.topic} IN
             topicBatches' = IF left = {}
                             THEN RemoveAt(topicBatches, currentBatch)
                             ELSE [topicBatches EXCEPT ![currentBatch].topics = left]
          /\ resumes' = resumes + 1
          /\ refused' = IF r.result = "refused" THEN refused \cup {r.topic}
                                                ELSE refused \ {r.topic}
  /\ UNCHANGED <<running, canRequest, currentBatch, serverVars, wanted, overtaken>>

\* Mutant: a finished batch stays in the list.
Complete_KeepBatch(r) ==
  /\ r.result # "none" /\ resumes < MaxResumes
  /\ requests' = requests \ {r}
  /\ topicsInFlight' = topicsInFlight \ {r.topic}
  /\ IF r.result = "network"
     THEN UNCHANGED <<topicBatches, currentBatch, resumes, refused>>
     ELSE /\ topicBatches' = [topicBatches EXCEPT ![currentBatch].topics = @ \ {r.topic}]
          /\ resumes' = resumes + 1
          /\ refused' = IF r.result = "refused" THEN refused \cup {r.topic} ELSE refused \ {r.topic}
          /\ UNCHANGED currentBatch
  /\ UNCHANGED <<running, canRequest, serverVars, wanted, overtaken>>

\* The completion block of a request.  It does not know the batch the request
\* was made for: it changes the batch that is current now.
Complete(r) ==
  /\ r.result # "none" /\ resumes < MaxResumes
  /\ requests' = requests \ {r}
  /\ topicsInFlight' = topicsInFlight \ {r.topic}
  /\ IF r.result = "network"
     THEN UNCHANGED <<topicBatches, currentBatch, resumes, refused>>
     ELSE /\ LET left == topicBatches[currentBatch].topics \ {r.topic} IN
             IF left = {}
             THEN /\ topicBatches' = RemoveAt(topicBatches, currentBatch)
                  /\ currentBatch' = 0
             ELSE /\ topicBatches' = [topicBatches EXCEPT ![currentBatch].topics = left]
                  /\ UNCHANGED currentBatch
          /\ resumes' = resumes + 1
          /\ refused' = IF r.result = "refused" THEN refused \cup {r.topic}
                                                ELSE refused \ {r.topic}
  /\ UNCHANGED <<running, canRequest, serverVars, wanted, overtaken>>

\* The process ends: the archive stays, and so may what is on the wire.
Quit ==
  /\ running
  /\ running' = FALSE /\ canRequest' = FALSE
  /\ currentBatch' = 0 /\ topicsInFlight' = {} /\ requests' = {} /\ resumes' = 0
  /\ GoAdrift(requests)
  /\ UNCHANGED <<topicBatches, registered, belated, historyVars>>

Add == \E t \in Topics, a \in Actions : AddOperation(t, a)
ServerAnswers == \E r \in requests, result \in {"success", "network", "refused"} : Answer(r, result)

Next ==
  \/ Launch \/ Quit
  \/ Add \/ Resume \/ TokenRefreshed \/ NetworkChanged
  \/ ServerAnswers
  \/ \E r \in requests : Execute(r) \/ Complete(r)
  \/ \E o \in adrift : ExecuteLate(o)

Spec == Init /\ [][Next]_vars

\* A dispatched block runs, an outstanding request gets an answer, the token
\* of a started app arrives.  A request for a topic that is made again and
\* again reaches the server in the end, and so does its answer the app.
Fairness ==
  /\ WF_vars(Resume)
  /\ WF_vars(TokenRefreshed)
  /\ WF_vars(ServerAnswers)
  /\ WF_vars(\E r \in requests : Complete(r))
  /\ \A t \in Topics :
       /\ SF_vars(\E r \in requests : r.topic = t /\ Execute(r))
       /\ SF_vars(\E r \in requests : r.topic = t /\ Answer(r, "success"))
FairSpec == Spec /\ Fairness

\* The network status changes every now and then: nothing in the app brings
\* that about, and it alone retries what failed.
NetworkFairSpec == FairSpec /\ WF_vars(NetworkChanged)

-----------------------------------------------------------------------------
(* Properties *)

\* Types of the state; the current batch is one of the list.
TypeOK ==
  /\ running \in BOOLEAN /\ canRequest \in BOOLEAN
  /\ topicBatches \in Seq(Batches)
  /\ currentBatch \in 0..Len(topicBatches)
  /\ topicsInFlight \subseteq Topics
  /\ requests \subseteq Requests
  /\ resumes \in Nat
  /\ adrift \subseteq [action : Actions, topic : Topics]
  /\ registered \subseteq Topics /\ belated \subseteq Topics
  /\ wanted \in [Topics -> Actions \cup {"none"}]
  /\ refused \subseteq Topics /\ overtaken \subseteq Topics

\* A completion block finds in currentBatch the batch its request was made
\* for: what is in flight belongs to the current batch, has its action, and
\* is requested once.
InFlightIsCurrent ==
  /\ topicsInFlight = {r.topic : r \in requests}
  /\ \A r \in requests : /\ currentBatch # 0
                         /\ r.topic \in topicBatches[currentBatch].topics
                         /\ r.action = topicBatches[currentBatch].action
  /\ \A r1, r2 \in requests : r1.topic = r2.topic => r1 = r2

\* No batch is empty: resumeOperationsIfNeeded returns at an empty current
\* batch and would never leave it.
NoEmptyBatch == \A i \in DOMAIN topicBatches : topicBatches[i].topics # {}

\* The server has what the app last asked for.
AsWanted(t) == (t \in registered) <=> (wanted[t] = "subscribe")

\* The last operation asked for a topic decides, through retries, lost
\* answers, refusals and restarts, unless its batch overtook an older one, or
\* the server executed last a request that the client had given up on.
LastOperationDecides ==
  \A t \in Topics \ (TopicsOf(topicBatches) \cup refused \cup overtaken \cup belated) :
    wanted[t] # "none" => AsWanted(t)

\* FIRMessagingPendingTopicsList.h: "A will be correctly subscribed in the
\* first batch, then unsubscribed as part of the second batch".
BatchesRunInOrder ==
  \A t \in Topics \ (TopicsOf(topicBatches) \cup refused \cup belated) :
    wanted[t] # "none" => AsWanted(t)

\* What the abstract register sees of the list.
PendingCount(o) ==
  Cardinality({i \in DOMAIN topicBatches :
                 topicBatches[i].action = o.action /\ o.topic \in topicBatches[i].topics})

Promise == INSTANCE TopicRegister WITH
  pending <- [o \in [action : Actions, topic : Topics] |-> PendingCount(o)],
  executed <- {Operation(r) : r \in {q \in requests : q.executed}},
  refused <- {Operation(r) : r \in {q \in requests : q.result = "refused"}}

\* The list keeps the promise of TopicRegister: no operation is dropped
\* before the server executed or refused it, and none is made up.
ImplementsTopicRegister == Promise!Spec

\* Once the app stops asking and the process stays up, everything asked for
\* is concluded, through network errors and batches in the wrong order.
SettlesWhenLeftAlone ==
  (<>[][~Add]_vars /\ <>[]running) => <>[](topicBatches = <<>>)

=============================================================================
