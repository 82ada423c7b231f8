----------------------------- MODULE FollowList -----------------------------
(***************************************************************************)
(* The list of strategies the user follows, as StrategySubscriptionManager *)
(* (Model/StrategySubManager.swift) keeps it in four places at once:       *)
(*                                                                         *)
(*   subscribedStrats  the Strategy tab's copy in memory,                  *)
(*   savedStrats       UserDefaults "SubscribedStrats",                    *)
(*   topics            the FCM topics that bring the notifications,        *)
(*   dbRecord          the user's record in the Firebase database.         *)
(*                                                                         *)
(* Every FCM call of the app first waits for its instance id, in the order *)
(* of the calls, and then for a token.  With a token in the cache it takes *)
(* effect at once; without one it joins the calls that wait for the        *)
(* default token, which take effect together when that token arrives.  So  *)
(* a later call can overtake earlier ones.  A call may also fail, and it   *)
(* is lost when the process ends.  A database write reaches the server     *)
(* later or is lost with the process.  The bound on the number of          *)
(* strategies belongs to the module Entitlement: here every bound of       *)
(* Bounds may be in force.                                                 *)
(***************************************************************************)
EXTENDS Integers, SequencesExt

CONSTANTS
  Strategies,   \* the "Index" of each entry of strategies, also its topic
  TestTopic,    \* the topic "test" every launch subscribes to
  Tokens,       \* registration tokens FCM may give this installation
  Bounds,       \* the values upperBound may have
  NoRecord,     \* the database has no record of the user yet
  NoTopic,      \* the call for the token alone concerns no topic
  Lossy,        \* TRUE: a call can fail, the process can end with work pending
  MaxCalls,     \* bound: FCM calls that have not taken effect
  MaxWrites     \* bound: database writes on their way

Topics == Strategies \cup {TestTopic}

ASSUME FollowListAssumption ==
  /\ TestTopic \notin Strategies
  /\ NoTopic \notin Topics
  /\ Bounds \subseteq Nat \ {0}
  /\ Lossy \in BOOLEAN
  /\ MaxCalls \in Nat
  /\ MaxWrites \in Nat

VARIABLES
  running,           \* the process is alive
  viewLoaded,        \* the Strategy tab was opened in this process
  subscribedStrats,  \* strats.subscribedStrats of the Strategy tab
  savedStrats,       \* UserDefaults "SubscribedStrats"; no entry reads as <<>>
  savedTokens,       \* UserDefaults "FirebaseRegistrationToken"
  fcmCalls,          \* FCM calls that have not taken effect, oldest first
  waiting,           \* how many of them, the oldest, wait for the default token
  topics,            \* topics FCM has registered, or has promised durably
  dbWrites,          \* database writes on their way
  dbRecord,          \* users/<u> on the server
  lost,              \* history: strategies whose latest waiting request was lost
  overtaken,         \* history: strategies whose latest request overtook a contrary one
  trimmed,           \* history: strategies a trim removed since the tab loaded
  writeLost          \* history: the latest database write was lost

listVars == <<subscribedStrats, savedStrats, savedTokens>>
fcmVars == <<fcmCalls, waiting, topics, lost, overtaken>>
dbVars == <<dbWrites, dbRecord, writeLost>>
vars == <<running, viewLoaded, listVars, fcmVars, dbVars, trimmed>>

-----------------------------------------------------------------------------
(* Calls to FCM and writes to the database *)

Call(op, t) == [op |-> op, topic |-> t]
Calls == {Call("token", NoTopic)} \cup [op : {"subscribe", "unsubscribe"}, topic : Topics]
Records == [user : Tokens, tokens : Seq(Tokens), subscription : Seq(Strategies)]

\* Mutant: asks by position in the list instead of by topic.
CallForEach_Position(op, s) == [i \in DOMAIN s |-> Call(op, i)]

\* One call per member of the sequence s, in its order.
CallForEach(op, s) == [i \in DOMAIN s |-> Call(op, s[i])]

\* The app asks FCM for the operations of cs: each waits for the instance id
\* behind those asked for before.
Ask(cs) ==
  /\ Len(fcmCalls) + Len(cs) <= MaxCalls
  /\ fcmCalls' = fcmCalls \o cs
  /\ lost' = lost \ {cs[i].topic : i \in DOMAIN cs}
  /\ overtaken' = overtaken \ {cs[i].topic : i \in DOMAIN cs}
  /\ UNCHANGED <<waiting, topics>>

\* Some call of cs is about the topic t.
About(cs, t) == \E i \in DOMAIN cs : cs[i].topic = t

\* The last call of cs about the topic t asks for the operation op.
AsksLast(cs, op, t) ==
  \E i \in DOMAIN cs :
    /\ cs[i] = Call(op, t)
    /\ \A j \in DOMAIN cs : j > i => cs[j].topic # t

\* Mutant: the handlers run newest first.
TakeEffect_NewestFirst(calls, token) ==
  LET cs == Reverse(calls) IN
  /\ topics' = {t \in Topics : \/ AsksLast(cs, "subscribe", t)
                               \/ t \in topics /\ ~About(cs, t)}
  /\ savedTokens' = IF About(cs, NoTopic) /\ ~Contains(savedTokens, token)
                    THEN Append(savedTokens, token) ELSE savedTokens

\* Mutant: a subscription whose token arrives is not passed on.
TakeEffect_Forgets(cs, token) ==
  /\ topics' = {t \in topics : ~AsksLast(cs, "unsubscribe", t)}
  /\ savedTokens' = IF About(cs, NoTopic) /\ ~Contains(savedTokens, token)
                    THEN Append(savedTokens, token) ELSE savedTokens

\* The handlers of the calls cs run one after the other with the token: FCM
\* takes their operations over, and the app's own handler, if it is among
\* them, stores the token unless it has it.
TakeEffect(cs, token) ==
  /\ topics' = {t \in Topics : \/ AsksLast(cs, "subscribe", t)
                               \/ t \in topics /\ ~About(cs, t)}
  /\ savedTokens' = IF About(cs, NoTopic) /\ ~Contains(savedTokens, token)
                    THEN Append(savedTokens, token) ELSE savedTokens

\* Mutant: the newest token names the record.
SaveToFirebase_NewestToken(ss) ==
  IF savedTokens = <<>>
  THEN UNCHANGED dbVars
  ELSE /\ Len(dbWrites) < MaxWrites
       /\ dbWrites' = Append(dbWrites, [user |-> Last(savedTokens),
                                        tokens |-> savedTokens,
                                        subscription |-> ss])
       /\ writeLost' = FALSE
       /\ UNCHANGED dbRecord

\* saveToFirebase reads both arrays back from UserDefaults, after the caller
\* stored the strategies ss there.  Without a token nothing is written.
\* The record's key is made of the first token.
SaveToFirebase(ss) ==
  IF savedTokens = <<>>
  THEN UNCHANGED dbVars
  ELSE /\ Len(dbWrites) < MaxWrites
       /\ dbWrites' = Append(dbWrites, [user |-> Head(savedTokens),
                                        tokens |-> savedTokens,
                                        subscription |-> ss])
       /\ writeLost' = FALSE
       /\ UNCHANGED dbRecord

-----------------------------------------------------------------------------
Init ==
  /\ running = FALSE
  /\ viewLoaded = FALSE
  /\ subscribedStrats = <<>> /\ savedStrats = <<>> /\ savedTokens = <<>>
  /\ fcmCalls = <<>> /\ waiting = 0
  /\ topics = {} /\ lost = {} /\ overtaken = {}
  /\ dbWrites = <<>> /\ dbRecord = NoRecord /\ writeLost = FALSE
  /\ trimmed = {}

\* didFinishLaunching asks for the token and subscribes to "test".  The
\* Strategy tab, and the array it holds, do not exist before it is opened.
Launch ==
  /\ ~running
  /\ running' = TRUE
  /\ viewLoaded' = FALSE
  /\ subscribedStrats' = <<>>
  /\ trimmed' = {}
  /\ Ask(<<Call("token", NoTopic), Call("subscribe", TestTopic)>>)
  /\ UNCHANGED <<savedStrats, savedTokens, dbVars>>

\* Mutant: the tab loads the list without subscribeAndListen.
OpenStrategyTab_NotListening ==
  /\ running /\ ~viewLoaded
  /\ viewLoaded' = TRUE
  /\ subscribedStrats' = savedStrats
  /\ trimmed' = {}
  /\ UNCHANGED <<running, savedStrats, savedTokens, fcmVars, dbVars>>

\* viewDidLoad of the Strategy tab: loadSubscribedStrats, subscribeAndListen.
OpenStrategyTab ==
  /\ running /\ ~viewLoaded
  /\ viewLoaded' = TRUE
  /\ subscribedStrats' = savedStrats
  /\ trimmed' = {}
  /\ Ask(CallForEach("subscribe", savedStrats))
  /\ UNCHANGED <<running, savedStrats, savedTokens, dbVars>>

\* Mutant: no test whether the strategy is followed already.
Subscribe_Again(s, upperBound) ==
  /\ running /\ viewLoaded
  /\ Len(subscribedStrats) < upperBound
  /\ subscribedStrats' = Append(subscribedStrats, s)
  /\ savedStrats' = subscribedStrats'
  /\ trimmed' = trimmed \ {s}
  /\ Ask(<<Call("subscribe", s)>>)
  /\ SaveToFirebase(savedStrats')
  /\ UNCHANGED <<running, viewLoaded, savedTokens>>

\* toSubscribe when it adds the strategy.  Its other two results, already
\* followed and limit reached, change nothing.
Subscribe(s, upperBound) ==
  /\ running /\ viewLoaded
  /\ ~Contains(subscribedStrats, s)
  /\ Len(subscribedStrats) < upperBound
  /\ subscribedStrats' = Append(subscribedStrats, s)
  /\ savedStrats' = subscribedStrats'
  /\ trimmed' = trimmed \ {s}
  /\ Ask(<<Call("subscribe", s)>>)
  /\ SaveToFirebase(savedStrats')
  /\ UNCHANGED <<running, viewLoaded, savedTokens>>

\* toUnsubscribe: the first occurrence leaves the copy in memory, and that
\* copy replaces what UserDefaults holds.
Unsubscribe(s) ==
  /\ running /\ viewLoaded
  /\ \E firstIndex \in DOMAIN subscribedStrats :
       /\ subscribedStrats[firstIndex] = s
       /\ \A i \in 1..(firstIndex - 1) : subscribedStrats[i] # s
       /\ subscribedStrats' = RemoveAt(subscribedStrats, firstIndex)
  /\ savedStrats' = subscribedStrats'
  /\ Ask(<<Call("unsubscribe", s)>>)
  /\ SaveToFirebase(savedStrats')
  /\ UNCHANGED <<running, viewLoaded, savedTokens, trimmed>>

\* Mutant: the newest strategies leave.
UnsubscribeIfNecessary_Newest(upperBound) ==
  IF Len(savedStrats) <= upperBound
  THEN UNCHANGED vars
  ELSE LET removed == SubSeq(savedStrats, upperBound + 1, Len(savedStrats))
       IN  /\ savedStrats' = SubSeq(savedStrats, 1, upperBound)
           /\ trimmed' = trimmed \cup ToSet(removed)
           /\ Ask(CallForEach("unsubscribe", removed))
           /\ UNCHANGED <<running, viewLoaded, subscribedStrats, savedTokens, dbVars>>

\* unsubscribeIfNeccessary: the oldest strategies beyond the bound leave
\* UserDefaults and FCM.  The Strategy tab's copy and the database keep them.
UnsubscribeIfNecessary(upperBound) ==
  IF Len(savedStrats) <= upperBound
  THEN UNCHANGED vars
  ELSE LET n == Len(savedStrats) - upperBound
           removed == SubSeq(savedStrats, 1, n)
       IN  /\ savedStrats' = SubSeq(savedStrats, n + 1, Len(savedStrats))
           /\ trimmed' = trimmed \cup ToSet(removed)
           /\ Ask(CallForEach("unsubscribe", removed))
           /\ UNCHANGED <<running, viewLoaded, subscribedStrats, savedTokens, dbVars>>

\* The calls that wait for the default token, and the one that has its
\* instance id next.
WaitingCalls == SubSeq(fcmCalls, 1, waiting)
NextCall == fcmCalls[waiting + 1]

\* The next call leaves behind a waiting call about its topic that asks for
\* the opposite, with no later call to set that right.
OvertakesContrary ==
  \E i \in 1..waiting :
    /\ fcmCalls[i].topic = NextCall.topic
    /\ fcmCalls[i].op # NextCall.op
    /\ \A j \in DOMAIN fcmCalls :
         j > i /\ fcmCalls[j].topic = NextCall.topic => j = waiting + 1

\* The next call has its instance id and finds a token in the cache: its
\* handler runs at once, before those of the calls that wait.
ServedFromCache(token) ==
  /\ running /\ waiting < Len(fcmCalls)
  /\ TakeEffect(<<NextCall>>, token)
  /\ fcmCalls' = RemoveAt(fcmCalls, waiting + 1)
  /\ overtaken' = IF OvertakesContrary
                  THEN overtaken \cup ({NextCall.topic} \cap Strategies) ELSE overtaken
  /\ UNCHANGED <<running, viewLoaded, subscribedStrats, savedStrats, dbVars,
                 trimmed, lost, waiting>>

\* It finds none, and joins the calls that wait for the default token.
JoinsWaiting ==
  /\ running /\ waiting < Len(fcmCalls)
  /\ waiting' = waiting + 1
  /\ UNCHANGED <<running, viewLoaded, listVars, fcmCalls, topics, lost, overtaken,
                 dbVars, trimmed>>

\* The default token arrives: the combined handler runs the handlers of all
\* waiting calls, in the order they joined.
DefaultTokenArrives(token) ==
  /\ running /\ waiting > 0
  /\ TakeEffect(WaitingCalls, token)
  /\ fcmCalls' = SubSeq(fcmCalls, waiting + 1, Len(fcmCalls))
  /\ waiting' = 0
  /\ UNCHANGED <<running, viewLoaded, subscribedStrats, savedStrats, dbVars,
                 trimmed, lost, overtaken>>

\* The next call gets an error instead of its instance id: the operation is
\* dropped, and the app's own handler only prints.
IdFails ==
  /\ Lossy
  /\ running /\ waiting < Len(fcmCalls)
  /\ fcmCalls' = RemoveAt(fcmCalls, waiting + 1)
  /\ lost' = IF \E j \in (waiting + 2)..Len(fcmCalls) : fcmCalls[j].topic = NextCall.topic
             THEN lost ELSE lost \cup ({NextCall.topic} \cap Strategies)
  /\ UNCHANGED <<running, viewLoaded, listVars, waiting, topics, overtaken, dbVars, trimmed>>

\* The default token could not be fetched in the allowed number of attempts:
\* all waiting calls get the error.
DefaultTokenFails ==
  /\ Lossy
  /\ running /\ waiting > 0
  /\ fcmCalls' = SubSeq(fcmCalls, waiting + 1, Len(fcmCalls))
  /\ waiting' = 0
  /\ lost' = lost \cup {s \in Strategies : About(WaitingCalls, s) /\ ~About(fcmCalls', s)}
  /\ UNCHANGED <<running, viewLoaded, listVars, topics, overtaken, dbVars, trimmed>>

\* The server stores the oldest write on its way.
WriteLands ==
  /\ running /\ dbWrites # <<>>
  /\ dbRecord' = Head(dbWrites)
  /\ dbWrites' = Tail(dbWrites)
  /\ UNCHANGED <<running, viewLoaded, listVars, fcmVars, trimmed, writeLost>>

\* The process ends.  Waiting calls and unsent writes end with it.
Quit ==
  /\ running
  /\ Lossy \/ (fcmCalls = <<>> /\ dbWrites = <<>>)
  /\ running' = FALSE
  /\ viewLoaded' = FALSE
  /\ subscribedStrats' = <<>>
  /\ fcmCalls' = <<>> /\ waiting' = 0 /\ dbWrites' = <<>>
  /\ lost' = lost \cup {s \in Strategies : About(fcmCalls, s)}
  /\ writeLost' = (writeLost \/ dbWrites # <<>>)
  /\ trimmed' = {}
  /\ UNCHANGED <<savedStrats, savedTokens, topics, overtaken, dbRecord>>

Follow == \E s \in Strategies, b \in Bounds : Subscribe(s, b)
Unfollow == \E s \in Strategies : Unsubscribe(s)
Trim == running /\ \E b \in Bounds : UnsubscribeIfNecessary(b)
Proceed == JoinsWaiting \/ \E token \in Tokens : ServedFromCache(token)
Deliver == \E token \in Tokens : DefaultTokenArrives(token)
CallFails == IdFails \/ DefaultTokenFails

Next ==
  \/ Launch \/ OpenStrategyTab \/ Quit
  \/ Follow \/ Unfollow \/ Trim
  \/ Proceed \/ Deliver \/ CallFails \/ WriteLands

Spec == Init /\ [][Next]_vars

\* While the process runs, the next call gets its instance id, the default
\* token arrives, and the server stores a write.
Fairness == WF_vars(Proceed) /\ WF_vars(Deliver) /\ WF_vars(WriteLands)
FairSpec == Spec /\ Fairness

-----------------------------------------------------------------------------
(* Properties *)

\* Types of the state.
TypeOK ==
  /\ running \in BOOLEAN /\ viewLoaded \in BOOLEAN
  /\ subscribedStrats \in Seq(Strategies) /\ savedStrats \in Seq(Strategies)
  /\ savedTokens \in Seq(Tokens)
  /\ fcmCalls \in Seq(Calls) /\ waiting \in 0..Len(fcmCalls)
  /\ topics \subseteq Topics
  /\ dbWrites \in Seq(Records)
  /\ dbRecord \in Records \cup {NoRecord}
  /\ lost \subseteq Strategies /\ overtaken \subseteq Strategies
  /\ trimmed \subseteq Strategies
  /\ writeLost \in BOOLEAN

\* The last call about the topic t that has not taken effect asks for op.
Asked(op, t) == AsksLast(fcmCalls, op, t)

\* The topic t is registered once FCM has taken over every call, if none
\* overtakes another.
WillBeRegistered(t) ==
  \/ t \in topics /\ ~About(fcmCalls, t)
  \/ Asked("subscribe", t)

\* No notification of a strategy the user does not follow: once the calls are
\* through, a registered topic is in UserDefaults, unless the latest request
\* about it was lost or overtook a contrary one that still waited for the
\* default token (toUnsubscribe, unsubscribeIfNeccessary, instanceIDWithHandler).
OnlyFollowedNotify ==
  \A s \in Strategies :
    WillBeRegistered(s) /\ s \notin lost \cup overtaken => Contains(savedStrats, s)

\* Every strategy the Strategy tab shows as followed will notify, unless a
\* trim removed it behind the tab's back, or the latest request was lost or
\* overtook a contrary one: nothing else separates the checkmark
\* (cellForRowAt) from the topic.
CheckedStrategyNotifies ==
  viewLoaded => \A s \in ToSet(subscribedStrats) \ (trimmed \cup lost \cup overtaken) :
                  WillBeRegistered(s)

\* What the app last asked the database to hold for the user.
RequestedRecord == IF dbWrites = <<>> THEN dbRecord ELSE Last(dbWrites)

\* The copies of the list differ by trims only: UserDefaults is the end of
\* the tab's copy, which is the end of the user's record, unless the last
\* write of the record was lost (toSubscribe, toUnsubscribe, saveToFirebase).
CopiesDifferByTrims ==
  LET newest == IF viewLoaded THEN subscribedStrats ELSE savedStrats IN
  /\ IsSuffix(savedStrats, newest)
  /\ RequestedRecord # NoRecord /\ ~writeLost
       => IsSuffix(newest, RequestedRecord.subscription)

\* No strategy is followed twice, in any copy: a second entry would survive
\* toUnsubscribe, which removes the first occurrence only.
FollowedOnce ==
  /\ IsInjective(savedStrats)
  /\ IsInjective(subscribedStrats)

\* All writes and the record carry one key, although tokens come and go: the
\* key is made of the first token ever stored.
OneUserRecord ==
  \A r \in ToSet(dbWrites) \cup ({dbRecord} \ {NoRecord}) :
    savedTokens # <<>> /\ r.user = Head(savedTokens)

\* What the app last asked FCM about a strategy takes effect, and no call is
\* left to undo that, unless it is lost with the process, the user changes his
\* mind first, or it overtook a contrary call.  Calls that
\* fail for ever may be repeated for ever: the trim of a strategy that a stale
\* copy brought back asks again each time.
RequestsTakeEffect ==
  <>[][~CallFails]_vars =>
    \A s \in Strategies :
      /\ (running /\ Asked("subscribe", s)) ~>
           \/ s \in topics /\ ~Contains(fcmCalls, Call("unsubscribe", s))
           \/ Asked("unsubscribe", s) \/ s \in lost \cup overtaken
      /\ (running /\ Asked("unsubscribe", s)) ~>
           \/ s \notin topics /\ ~Contains(fcmCalls, Call("subscribe", s))
           \/ Asked("subscribe", s) \/ s \in lost \cup overtaken

=============================================================================
