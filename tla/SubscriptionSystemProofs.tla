---------------------- MODULE SubscriptionSystemProofs ----------------------
(***************************************************************************)
(* Proofs about the list and its bound together, for every set of          *)
(* strategies and products.  What FollowListProofs and EntitlementProofs   *)
(* prove of the components is carried over: the system implements both.    *)
(***************************************************************************)
EXTENDS SubscriptionSystem, SequenceTheorems, TLAPS

EP == INSTANCE EntitlementProofs
LP == INSTANCE FollowListProofs WITH Bounds <- E!Limits

USE SubscriptionSystemAssumption

\* An answer is outstanding only while the process that asked runs.
AnswerNeedsProcess == validation.stage # "idle" => running

-----------------------------------------------------------------------------
(* The instances of the proofs speak of the same formulas under other      *)
(* names: expanded, both are one.                                          *)

LEMMA SameEntitlementStep == [E!Next]_(E!vars) => [EP!Next]_(EP!vars)
  BY DEF E!Next, E!Launch, E!Quit, E!Die, E!OpenSubscriptionTab, E!ProductArrives,
         E!ServerAnswers, E!ReceiveFailed, E!ReceiveNoInfo, E!ReceiveReceipts, E!BuyPressed,
         E!BuyPressedTooEarly, E!TransactionUpdated, E!AppStore, E!PaymentDecided, E!Renew,
         E!BoughtElsewhere, E!Expire, E!Limit, E!Live, E!At, E!vars, E!screenVars, E!storeVars,
         EP!Next, EP!Launch, EP!Quit, EP!Die, EP!OpenSubscriptionTab, EP!ProductArrives,
         EP!ServerAnswers, EP!ReceiveFailed, EP!ReceiveNoInfo, EP!ReceiveReceipts, EP!BuyPressed,
         EP!BuyPressedTooEarly, EP!TransactionUpdated, EP!AppStore, EP!PaymentDecided, EP!Renew,
         EP!BoughtElsewhere, EP!Expire, EP!Limit, EP!Live, EP!At, EP!vars, EP!screenVars, EP!storeVars

LEMMA SameEntitlement == E!Spec => EP!Spec
<1>1. E!Init => EP!Init
  BY DEF E!Init, EP!Init, E!At, EP!At
<1> QED
  BY <1>1, SameEntitlementStep, PTL DEF E!Spec, EP!Spec

LEMMA SameFollowList == L!Spec => LP!Spec
<1>1. L!Init => LP!Init
  BY DEF L!Init, LP!Init
<1>2. L!Launch => LP!Launch
  BY DEF L!Launch, L!Ask, L!Call, L!dbVars, LP!Launch, LP!Ask, LP!Call, LP!dbVars
<1>3. L!OpenStrategyTab => LP!OpenStrategyTab
  BY DEF L!OpenStrategyTab, L!Ask, L!Call, L!CallForEach, L!dbVars,
         LP!OpenStrategyTab, LP!Ask, LP!Call, LP!CallForEach, LP!dbVars
<1>4. L!Quit => LP!Quit
  BY DEF L!Quit, L!About, LP!Quit, LP!About
<1>5. L!Follow => LP!Follow
  BY DEF L!Follow, L!Subscribe, L!Contains, L!Ask, L!Call, L!SaveToFirebase, L!dbVars,
         LP!Follow, LP!Subscribe, LP!Contains, LP!Ask, LP!Call, LP!SaveToFirebase, LP!dbVars
<1>6. L!Unfollow => LP!Unfollow
  BY DEF L!Unfollow, L!Unsubscribe, L!RemoveAt, L!Ask, L!Call, L!SaveToFirebase, L!dbVars,
         LP!Unfollow, LP!Unsubscribe, LP!RemoveAt, LP!Ask, LP!Call, LP!SaveToFirebase, LP!dbVars
<1>7. L!vars = LP!vars /\ L!vars' = LP!vars'
  BY DEF L!vars, L!listVars, L!fcmVars, L!dbVars, LP!vars, LP!listVars, LP!fcmVars, LP!dbVars
<1>8. L!Trim => LP!Trim
  BY <1>7 DEF L!Trim, L!UnsubscribeIfNecessary, L!ToSet, L!Ask, L!Call, L!CallForEach, L!dbVars,
              LP!Trim, LP!UnsubscribeIfNecessary, LP!ToSet, LP!Ask, LP!Call, LP!CallForEach, LP!dbVars
<1>9. L!NextCall = LP!NextCall /\ L!WaitingCalls = LP!WaitingCalls
  BY DEF L!NextCall, L!WaitingCalls, LP!NextCall, LP!WaitingCalls
<1>10. \A cs, token : L!TakeEffect(cs, token) <=> LP!TakeEffect(cs, token)
  BY DEF L!TakeEffect, L!AsksLast, L!About, L!Call, L!Topics, L!Contains,
         LP!TakeEffect, LP!AsksLast, LP!About, LP!Call, LP!Topics, LP!Contains
<1>11. L!OvertakesContrary <=> LP!OvertakesContrary
  BY <1>9 DEF L!OvertakesContrary, LP!OvertakesContrary
<1>12. \A token : L!ServedFromCache(token) => LP!ServedFromCache(token)
  BY <1>9, <1>10, <1>11 DEF L!ServedFromCache, L!RemoveAt, L!dbVars,
                            LP!ServedFromCache, LP!RemoveAt, LP!dbVars
<1>13. L!JoinsWaiting => LP!JoinsWaiting
  BY DEF L!JoinsWaiting, L!listVars, L!dbVars, LP!JoinsWaiting, LP!listVars, LP!dbVars
<1>14. L!Proceed => LP!Proceed
  BY <1>12, <1>13 DEF L!Proceed, LP!Proceed
<1>15. L!Deliver => LP!Deliver
  BY <1>9, <1>10 DEF L!Deliver, L!DefaultTokenArrives, L!dbVars,
                     LP!Deliver, LP!DefaultTokenArrives, LP!dbVars
<1>16. L!IdFails => LP!IdFails
  BY <1>9 DEF L!IdFails, L!RemoveAt, L!listVars, L!dbVars,
              LP!IdFails, LP!RemoveAt, LP!listVars, LP!dbVars
<1>17. L!DefaultTokenFails => LP!DefaultTokenFails
  BY <1>9 DEF L!DefaultTokenFails, L!About, L!listVars, L!dbVars,
              LP!DefaultTokenFails, LP!About, LP!listVars, LP!dbVars
<1>18. L!CallFails => LP!CallFails
  BY <1>16, <1>17 DEF L!CallFails, LP!CallFails
<1>19. L!WriteLands => LP!WriteLands
  BY DEF L!WriteLands, L!listVars, L!fcmVars, LP!WriteLands, LP!listVars, LP!fcmVars
<1>20. [L!Next]_(L!vars) => [LP!Next]_(LP!vars)
  BY <1>2, <1>3, <1>4, <1>5, <1>6, <1>7, <1>8, <1>14, <1>15, <1>18, <1>19 DEF L!Next, LP!Next
<1> QED
  BY <1>1, <1>20, PTL DEF L!Spec, LP!Spec

-----------------------------------------------------------------------------
(* The system implements its components *)

\* Every step of the system is one of Entitlement, or leaves it alone.
LEMMA EntitlementStep ==
  ASSUME [Next]_vars
  PROVE  [E!Next]_(E!vars)
<1>1. CASE Launch \/ Quit \/ BuyPressedTooEarly \/ ReceiveReceipts
  BY <1>1 DEF Launch, Quit, BuyPressedTooEarly, ReceiveReceipts, E!Next
<1>2. ASSUME NEW s \in Strategies, Subscribe(s) \/ Unsubscribe(s)
      PROVE  UNCHANGED E!vars
  BY <1>2 DEF Subscribe, Unsubscribe, boundState, L!Subscribe, L!Unsubscribe, E!vars,
              E!screenVars, E!storeVars
<1>3. CASE ListStep
  BY <1>3 DEF ListStep, boundState, L!OpenStrategyTab, L!Proceed, L!ServedFromCache, L!JoinsWaiting,
              L!Deliver, L!DefaultTokenArrives, L!CallFails, L!IdFails, L!DefaultTokenFails,
              L!WriteLands, E!vars, E!screenVars, E!storeVars
<1>4. CASE BoundStep
  BY <1>4 DEF BoundStep, E!Next
<1>5. CASE UNCHANGED vars
  BY <1>5 DEF vars, boundState, E!vars, E!screenVars, E!storeVars
<1> QED
  BY <1>1, <1>2, <1>3, <1>4, <1>5 DEF Next

\* For all behaviours: the system does to the bound only what Entitlement
\* allows.
THEOREM SystemImplementsEntitlement == Spec => ImplementsEntitlement
<1>1. Init => E!Init
  BY DEF Init
<1> QED
  BY <1>1, EntitlementStep, PTL DEF Spec, ImplementsEntitlement, E!Spec

\* What is proved of Entitlement holds of the system.
LEMMA BoundFacts == Spec => [](EP!TypeOK /\ EP!PremiumIsBacked)
<1>1. EP!Spec => []EP!TypeOK
  BY EP!TypeCorrect
<1>2. EP!Spec => []EP!PremiumIsBacked
  BY EP!PremiumAlwaysBacked
<1> QED
  BY <1>1, <1>2, SystemImplementsEntitlement, SameEntitlement, PTL DEF ImplementsEntitlement

LEMMA AnswerAlwaysNeedsProcess == Spec => []AnswerNeedsProcess
<1>1. Init => AnswerNeedsProcess
  BY DEF Init, E!Init, E!At, AnswerNeedsProcess
<1>2. AnswerNeedsProcess /\ [E!Next]_(E!vars) => AnswerNeedsProcess'
  <2> SUFFICES ASSUME AnswerNeedsProcess, [E!Next]_(E!vars) PROVE AnswerNeedsProcess'
    OBVIOUS
  <2>1. CASE E!Launch
    BY <2>1 DEF E!Launch, AnswerNeedsProcess
  <2>2. CASE E!Quit \/ E!BuyPressedTooEarly
    BY <2>2 DEF E!Quit, E!BuyPressedTooEarly, E!Die, E!At, AnswerNeedsProcess
  <2>3. CASE E!ServerAnswers
    BY <2>3 DEF E!ServerAnswers, AnswerNeedsProcess
  <2>4. CASE E!ReceiveFailed \/ E!ReceiveNoInfo \/ E!ReceiveReceipts
    BY <2>4 DEF E!ReceiveFailed, E!ReceiveNoInfo, E!ReceiveReceipts, E!At, AnswerNeedsProcess
  <2>5. CASE E!OpenSubscriptionTab \/ E!ProductArrives \/ E!BuyPressed \/ E!TransactionUpdated
    BY <2>5 DEF E!OpenSubscriptionTab, E!ProductArrives, E!BuyPressed, E!TransactionUpdated,
                AnswerNeedsProcess
  <2>6. CASE E!AppStore
    BY <2>6 DEF E!AppStore, E!PaymentDecided, E!Renew, E!BoughtElsewhere, E!Expire, AnswerNeedsProcess
  <2>7. CASE UNCHANGED E!vars
    BY <2>7 DEF E!vars, AnswerNeedsProcess
  <2> QED
    BY <2>1, <2>2, <2>3, <2>4, <2>5, <2>6, <2>7 DEF E!Next
<1> QED
  BY <1>1, <1>2, EntitlementStep, PTL DEF Spec

\* Every step of the system is one FollowList allows under some bound the
\* account may give, or leaves the list alone.  The handler of an answer
\* needs the process for its trim.
LEMMA FollowListStep ==
  ASSUME EP!TypeOK, EP!TypeOK', AnswerNeedsProcess, [Next]_vars
  PROVE  [L!Next]_(L!vars)
<1>1. upperBound \in E!Limits /\ upperBound' \in E!Limits
  BY DEF EP!TypeOK, EP!Limits, E!Limits
<1>2. CASE Launch \/ Quit \/ BuyPressedTooEarly
  BY <1>2 DEF Launch, Quit, BuyPressedTooEarly, L!Next
<1>3. ASSUME NEW s \in Strategies, Subscribe(s) \/ Unsubscribe(s)
      PROVE  L!Next
  BY <1>1, <1>3 DEF Subscribe, Unsubscribe, L!Next, L!Follow, L!Unfollow
<1>4. CASE ReceiveReceipts
  <2>1. running /\ running' = running
    BY <1>4 DEF ReceiveReceipts, E!ReceiveReceipts, AnswerNeedsProcess
  <2>2. L!UnsubscribeIfNecessary(upperBound')
    BY <1>4 DEF ReceiveReceipts
  <2>3. L!Trim
    BY <1>1, <2>1, <2>2 DEF L!Trim
  <2> QED
    BY <2>3 DEF L!Next
<1>5. CASE ListStep
  BY <1>5 DEF ListStep, L!Next
<1>6. CASE BoundStep
  <2>1. UNCHANGED running
    BY <1>6 DEF BoundStep, E!OpenSubscriptionTab, E!ProductArrives, E!BuyPressed, E!ServerAnswers,
                E!ReceiveFailed, E!ReceiveNoInfo, E!TransactionUpdated, E!AppStore,
                E!PaymentDecided, E!Renew, E!BoughtElsewhere, E!Expire
  <2>2. UNCHANGED listState
    BY <1>6 DEF BoundStep
  <2> QED
    BY <2>1, <2>2 DEF listState, L!vars, L!listVars, L!fcmVars, L!dbVars
<1>7. CASE UNCHANGED vars
  BY <1>7 DEF vars, listState, L!vars, L!listVars, L!fcmVars, L!dbVars
<1> QED
  BY <1>2, <1>3, <1>4, <1>5, <1>6, <1>7 DEF Next

\* For all behaviours: the system does to the list only what FollowList
\* allows.
THEOREM SystemImplementsFollowList == Spec => ImplementsFollowList
<1>1. Init => L!Init
  BY DEF Init
<1> QED
  BY <1>1, FollowListStep, BoundFacts, AnswerAlwaysNeedsProcess, PTL
     DEF Spec, ImplementsFollowList, L!Spec

-----------------------------------------------------------------------------
(* The list and its bound *)

\* The types of the list hold in the system.
LEMMA ListFacts == Spec => []LP!TypeOK
<1>1. LP!Spec => []LP!TypeOK
  BY LP!TypeCorrect DEF L!Topics, LP!Topics
<1> QED
  BY <1>1, SystemImplementsFollowList, SameFollowList, PTL DEF ImplementsFollowList

\* unsubscribeIfNeccessary leaves at most as many strategies as the bound.
LEMMA TrimLength ==
  ASSUME LP!TypeOK, NEW b \in Nat, L!UnsubscribeIfNecessary(b)
  PROVE  /\ Len(savedStrats') <= b
         /\ Len(savedStrats') <= Len(savedStrats)
         /\ UNCHANGED subscribedStrats
<1>1. savedStrats \in Seq(Strategies) /\ Len(savedStrats) \in Nat
  BY LenProperties DEF LP!TypeOK
<1>2. CASE Len(savedStrats) <= b
  BY <1>1, <1>2 DEF L!UnsubscribeIfNecessary, L!vars, L!listVars
<1>3. CASE ~(Len(savedStrats) <= b)
  <2>1. /\ savedStrats' = SubSeq(savedStrats, (Len(savedStrats) - b) + 1, Len(savedStrats))
        /\ UNCHANGED subscribedStrats
    BY <1>3 DEF L!UnsubscribeIfNecessary
  <2>2. (Len(savedStrats) - b) + 1 \in 1..(Len(savedStrats) + 1)
    BY <1>1, <1>3
  <2>3. Len(savedStrats') = (Len(savedStrats) - ((Len(savedStrats) - b) + 1)) + 1
    BY <1>1, <1>3, <2>1, <2>2, SubSeqProperties
  <2> QED
    BY <1>1, <1>3, <2>1, <2>3
<1> QED
  BY <1>2, <1>3

\* How long each copy of the list can get in a step: no longer than one of
\* them was, or than a bound that is in force.
LEMMA LengthStep ==
  ASSUME EP!TypeOK, EP!TypeOK', LP!TypeOK, LP!TypeOK', [Next]_vars,
         NEW n \in {Len(savedStrats'), Len(subscribedStrats')}
  PROVE  \/ n <= Len(savedStrats) \/ n <= Len(subscribedStrats)
         \/ n <= upperBound \/ n <= upperBound'
<1>1. /\ savedStrats \in Seq(Strategies) /\ subscribedStrats \in Seq(Strategies)
      /\ Len(savedStrats) \in Nat /\ Len(subscribedStrats) \in Nat
  BY LenProperties DEF LP!TypeOK
<1>2. upperBound \in Nat /\ upperBound' \in Nat
  BY DEF EP!TypeOK, EP!Limits
<1>3. CASE UNCHANGED <<savedStrats, subscribedStrats>>
  BY <1>1, <1>3
<1>4. CASE Launch \/ Quit \/ BuyPressedTooEarly
  <2>1. savedStrats' = savedStrats /\ subscribedStrats' = <<>>
    BY <1>4 DEF Launch, Quit, BuyPressedTooEarly, L!Launch, L!Quit
  <2>2. Len(subscribedStrats') = 0
    BY <2>1, EmptySeq
  <2> QED
    BY <1>1, <2>1, <2>2
<1>5. ASSUME NEW s \in Strategies, Subscribe(s)
      PROVE  Len(savedStrats') <= upperBound /\ Len(subscribedStrats') <= upperBound
  <2>1. /\ Len(subscribedStrats) < upperBound
        /\ subscribedStrats' = Append(subscribedStrats, s)
        /\ savedStrats' = subscribedStrats'
    BY <1>5 DEF Subscribe, L!Subscribe
  <2>2. Len(subscribedStrats') = Len(subscribedStrats) + 1
    BY <1>1, <2>1, AppendProperties
  <2> QED
    BY <1>1, <1>2, <2>1, <2>2
<1>6. ASSUME NEW s \in Strategies, Unsubscribe(s)
      PROVE  /\ Len(savedStrats') <= Len(subscribedStrats)
             /\ Len(subscribedStrats') <= Len(subscribedStrats)
  <2>1. PICK i \in DOMAIN subscribedStrats :
          subscribedStrats' = L!RemoveAt(subscribedStrats, i) /\ savedStrats' = subscribedStrats'
    BY <1>6 DEF Unsubscribe, L!Unsubscribe
  <2> DEFINE a == SubSeq(subscribedStrats, 1, i - 1)
             c == SubSeq(subscribedStrats, i + 1, Len(subscribedStrats))
  <2>2. i \in 1..Len(subscribedStrats)
    BY <1>1, LenProperties
  <2>3. a \in Seq(Strategies) /\ Len(a) = i - 1
    BY <1>1, <2>2, SubSeqProperties
  <2>4. c \in Seq(Strategies) /\ Len(c) = Len(subscribedStrats) - i
    BY <1>1, <2>2, SubSeqProperties
  <2>5. subscribedStrats' = a \o c
    BY <2>1 DEF L!RemoveAt
  <2> HIDE DEF a, c
  <2>6. Len(subscribedStrats') = Len(a) + Len(c)
    BY <2>3, <2>4, <2>5, ConcatProperties
  <2> QED
    BY <1>1, <2>1, <2>2, <2>3, <2>4, <2>6
<1>7. CASE ReceiveReceipts
  BY <1>1, <1>2, <1>7, TrimLength DEF ReceiveReceipts
<1>8. CASE ListStep
  <2>1. savedStrats' = savedStrats /\ subscribedStrats' \in {savedStrats, subscribedStrats}
    BY <1>8 DEF ListStep, L!OpenStrategyTab, L!Proceed, L!ServedFromCache, L!JoinsWaiting,
                L!Deliver, L!DefaultTokenArrives, L!CallFails, L!IdFails, L!DefaultTokenFails,
                L!WriteLands, L!listVars
  <2> QED
    BY <1>1, <2>1
<1>9. BoundStep \/ UNCHANGED vars => UNCHANGED <<savedStrats, subscribedStrats>>
  BY DEF BoundStep, listState, vars
<1> QED
  BY <1>3, <1>4, <1>5, <1>6, <1>7, <1>8, <1>9 DEF Next

\* No step of the system takes a product from the account.
LEMMA AccountKeepsProducts ==
  ASSUME EP!TypeOK, EP!AccountStep
  PROVE  \A j \in DOMAIN account : j \in DOMAIN account' /\ account'[j].product = account[j].product
  BY EP!AccountGrows DEF EP!TypeOK

LEMMA ListsBackedStep ==
  ASSUME EP!TypeOK, EP!TypeOK', EP!PremiumIsBacked', EP!AccountStep,
         LP!TypeOK, LP!TypeOK', ListsAreBacked, [Next]_vars
  PROVE  ListsAreBacked'
<1> DEFINE now(n) == n <= 1 \/ \E i \in DOMAIN account' : n <= E!Limit(account'[i].product)
<1>1. \A p : E!Limit(p) \in {1, 3, 6, 999} /\ EP!Limit(p) = E!Limit(p)
  BY DEF E!Limit, EP!Limit
<1>2. \A n : Backed(n) => now(n)
  BY AccountKeepsProducts DEF Backed
<1>3. upperBound' \in {1, 3, 6, 999} /\ now(upperBound')
  BY <1>1 DEF EP!PremiumIsBacked, EP!TypeOK, EP!Limits
<1>4. \A m, n \in Nat : m <= n /\ now(n) => now(m)
  BY <1>1
<1>5. /\ Len(savedStrats) \in Nat /\ Len(subscribedStrats) \in Nat /\ upperBound \in Nat
      /\ Len(savedStrats') \in Nat /\ Len(subscribedStrats') \in Nat /\ upperBound' \in Nat
  BY LenProperties DEF LP!TypeOK, EP!TypeOK, EP!Limits
<1>6. now(Len(savedStrats)) /\ now(Len(subscribedStrats)) /\ now(upperBound)
  BY <1>2 DEF ListsAreBacked
<1> HIDE DEF now
<1>7. \A n \in {Len(savedStrats'), Len(subscribedStrats')} : now(n)
  BY <1>3, <1>4, <1>5, <1>6, LengthStep
<1> QED
  BY <1>3, <1>7 DEF now, ListsAreBacked, Backed

\* For every set of strategies and products: neither copy of the list is ever
\* longer than a product of the account allows.
THEOREM ListsAlwaysBacked == Spec => []ListsAreBacked
<1>1. Init => ListsAreBacked
  BY EmptySeq DEF Init, E!Init, L!Init, ListsAreBacked, Backed
<1>2. [E!Next]_(E!vars) => EP!AccountStep
  <2>1. EP!Next => EP!AccountStep
    BY EP!NextAccountStep
  <2>2. UNCHANGED EP!vars => EP!AccountStep
    BY DEF EP!vars, EP!storeVars, EP!AccountStep
  <2> QED
    BY <2>1, <2>2, SameEntitlementStep
<1> QED
  BY <1>1, <1>2, EntitlementStep, ListsBackedStep, BoundFacts, ListFacts, PTL DEF Spec

\* For all behaviours: the handler of an answer with receipts leaves no more
\* strategies in UserDefaults than the bound it sets.
THEOREM AnswerAlwaysTrims == Spec => AnswerTrims
<1> DEFINE trims == validation.stage = "receipts" /\ running' /\ validation'.stage = "idle"
                     => Len(savedStrats') <= upperBound'
<1>1. EP!TypeOK /\ EP!TypeOK' /\ LP!TypeOK /\ AnswerNeedsProcess /\ [Next]_vars => [trims]_vars
  <2> SUFFICES ASSUME EP!TypeOK', LP!TypeOK, AnswerNeedsProcess, [Next]_vars,
                      validation.stage = "receipts", running', validation'.stage = "idle"
               PROVE  Len(savedStrats') <= upperBound'
    OBVIOUS
  <2>1. running /\ validation' # validation
    BY DEF AnswerNeedsProcess
  <2>2. ReceiveReceipts
    <3>1. ~Launch /\ ~Quit /\ ~BuyPressedTooEarly
      BY <2>1 DEF Launch, Quit, BuyPressedTooEarly, L!Launch, L!Quit
    <3>2. UNCHANGED boundState => UNCHANGED validation
      BY DEF boundState
    <3>3. ~ListStep /\ (\A s \in Strategies : ~Subscribe(s) /\ ~Unsubscribe(s)) /\ ~ UNCHANGED vars
      BY <2>1, <3>2 DEF ListStep, Subscribe, Unsubscribe, vars
    <3>4. ~BoundStep
      BY <2>1 DEF BoundStep, E!OpenSubscriptionTab, E!ProductArrives, E!BuyPressed, E!ServerAnswers,
                  E!ReceiveFailed, E!ReceiveNoInfo, E!TransactionUpdated, E!AppStore,
                  E!PaymentDecided, E!Renew, E!BoughtElsewhere, E!Expire
    <3> QED
      BY <3>1, <3>3, <3>4 DEF Next
  <2>3. upperBound' \in Nat
    BY DEF EP!TypeOK, EP!Limits
  <2> QED
    BY <2>2, <2>3, TrimLength DEF ReceiveReceipts
<1> QED
  BY <1>1, BoundFacts, ListFacts, AnswerAlwaysNeedsProcess, PTL DEF Spec, AnswerTrims

\* What FollowListProofs proves under every bound holds of the app with its
\* own: no notification of a strategy that is not followed, no strategy
\* followed twice, and every checkmark notifies, up to what was lost or overtaken.
THEOREM SystemKeepsList ==
  Spec => [](L!OnlyFollowedNotify /\ L!FollowedOnce /\ L!CheckedStrategyNotifies)
<1>1. LP!Spec => []LP!OnlyFollowedNotify
  BY LP!NotifiesOnlyFollowed DEF L!Topics, LP!Topics
<1>2. LP!Spec => []LP!FollowedOnce
  BY LP!AlwaysFollowedOnce DEF L!Topics, LP!Topics
<1>3. LP!Spec => []LP!CheckedStrategyNotifies
  BY LP!CheckedAlwaysNotifies DEF L!Topics, LP!Topics
<1>4. \A t : LP!WillBeRegistered(t) <=> L!WillBeRegistered(t)
  BY DEF L!WillBeRegistered, L!Asked, L!AsksLast, L!About, L!Call,
         LP!WillBeRegistered, LP!Asked, LP!AsksLast, LP!About, LP!Call
<1>5. LP!OnlyFollowedNotify => L!OnlyFollowedNotify
  BY <1>4 DEF L!OnlyFollowedNotify, L!Contains, LP!OnlyFollowedNotify, LP!Contains
<1>6. LP!FollowedOnce => L!FollowedOnce
  BY DEF L!FollowedOnce, L!IsInjective, LP!FollowedOnce, LP!IsInjective
<1>7. LP!CheckedStrategyNotifies => L!CheckedStrategyNotifies
  BY <1>4 DEF L!CheckedStrategyNotifies, L!ToSet, LP!CheckedStrategyNotifies, LP!ToSet
<1> QED
  BY <1>1, <1>2, <1>3, <1>5, <1>6, <1>7, SystemImplementsFollowList, SameFollowList, PTL
     DEF ImplementsFollowList

\* What EntitlementProofs proves of the bound alone holds of the app: the bound
\* is that of a product the account got, an expired receipt raises nothing, and
\* the Subscription tab agrees with the bound until the answer.
THEOREM SystemKeepsBound ==
  Spec => [](E!PremiumIsBacked /\ E!ScreenRightUntilAnswer) /\ E!ExpiredUnlocksNothing
<1>1. EP!Spec => []EP!PremiumIsBacked
  BY EP!PremiumAlwaysBacked
<1>2. EP!Spec => []EP!ScreenRightUntilAnswer
  BY EP!ScreenRight
<1>3. EP!Spec => EP!ExpiredUnlocksNothing
  BY EP!ExpiredNeverUnlocks
<1>4. \A p : EP!Limit(p) = E!Limit(p)
  BY DEF E!Limit, EP!Limit
<1>5. EP!PremiumIsBacked => E!PremiumIsBacked
  BY <1>4 DEF E!PremiumIsBacked, EP!PremiumIsBacked
<1>6. EP!ScreenRightUntilAnswer => E!ScreenRightUntilAnswer
  BY <1>4 DEF E!ScreenRightUntilAnswer, EP!ScreenRightUntilAnswer
<1>7. [(validation.stage = "receipts" /\ validation'.stage = "idle" /\ upperBound' > upperBound)
         => \E i \in DOMAIN account :
              ~account[i].expired /\ EP!Limit(account[i].product) = upperBound']_(EP!vars)
      => [(validation.stage = "receipts" /\ validation'.stage = "idle" /\ upperBound' > upperBound)
            => \E i \in DOMAIN account :
                 ~account[i].expired /\ E!Limit(account[i].product) = upperBound']_(E!vars)
  BY <1>4 DEF E!vars, E!screenVars, E!storeVars, EP!vars, EP!screenVars, EP!storeVars
<1> QED
  BY <1>1, <1>2, <1>3, <1>5, <1>6, <1>7, SystemImplementsEntitlement, SameEntitlement, PTL
     DEF ImplementsEntitlement, E!ExpiredUnlocksNothing, EP!ExpiredUnlocksNothing

=============================================================================
