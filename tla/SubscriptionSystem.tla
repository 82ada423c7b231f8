------------------------- MODULE SubscriptionSystem -------------------------
(***************************************************************************)
(* FollowList and Entitlement together, as the app runs them: one process, *)
(* one main queue.  The limit toSubscribe tests is the bound of this       *)
(* moment, and the handler of a verifyReceipt answer sets the bound and    *)
(* trims the list in one step.                                             *)
(***************************************************************************)
EXTENDS Integers, SequencesExt

CONSTANTS
  Strategies, TestTopic, Tokens, NoRecord, NoTopic, Lossy, MaxCalls, MaxWrites,
  Products, follow3, follow6, followAll, NoProduct, MaxReceipts, MaxTransactions

VARIABLES
  running,
  viewLoaded, subscribedStrats, savedStrats, savedTokens, fcmCalls, waiting,
  topics, dbWrites, dbRecord, lost, overtaken, trimmed, writeLost,
  upperBound, validation, account, observing, productLoaded, premiumShown,
  paying, transactions

E == INSTANCE Entitlement
L == INSTANCE FollowList WITH Bounds <- E!Limits

ASSUME SubscriptionSystemAssumption ==
  E!EntitlementAssumption /\ L!FollowListAssumption

listState == <<viewLoaded, subscribedStrats, savedStrats, savedTokens, fcmCalls,
               waiting, topics, dbWrites, dbRecord, lost, overtaken, trimmed, writeLost>>
boundState == <<upperBound, validation, account, observing, productLoaded,
                premiumShown, paying, transactions>>
vars == <<running, listState, boundState>>

Init == L!Init /\ E!Init

\* Mutants: the bound of the last process is kept; its FCM calls and database
\* writes outlive it.
Launch_KeepBound == L!Launch /\ running' /\ UNCHANGED boundState
Quit_KeepCalls == E!Quit /\ UNCHANGED listState

\* The process starts and ends for both.
Launch == L!Launch /\ E!Launch
Quit == L!Quit /\ E!Quit
BuyPressedTooEarly == L!Quit /\ E!BuyPressedTooEarly

\* Mutant: one strategy more than the bound.
Subscribe_OneMore(s) == L!Subscribe(s, upperBound + 1) /\ UNCHANGED boundState

\* subscribePressed and unsubscribePressed of StrategySubController.
Subscribe(s) == L!Subscribe(s, upperBound) /\ UNCHANGED boundState
Unsubscribe(s) == L!Unsubscribe(s) /\ UNCHANGED boundState

\* Mutant: the trim is inside the loop, where only live receipts get.
ReceiveReceipts_TrimInLoop ==
  /\ E!ReceiveReceipts
  /\ IF E!Live(validation.count) = {}
     THEN UNCHANGED listState
     ELSE L!UnsubscribeIfNecessary(upperBound')

\* The loop over the receipts, then unsubscribeIfNeccessary.
ReceiveReceipts == E!ReceiveReceipts /\ L!UnsubscribeIfNecessary(upperBound')

\* What concerns the list alone, and the bound alone.
ListStep ==
  /\ \/ L!OpenStrategyTab \/ L!Proceed \/ L!Deliver \/ L!CallFails
     \/ L!WriteLands
  /\ UNCHANGED boundState

BoundStep ==
  /\ \/ E!OpenSubscriptionTab \/ E!ProductArrives \/ E!BuyPressed
     \/ E!ServerAnswers \/ E!ReceiveFailed \/ E!ReceiveNoInfo
     \/ E!TransactionUpdated \/ E!AppStore
  /\ UNCHANGED listState

Next ==
  \/ Launch \/ Quit \/ BuyPressedTooEarly
  \/ \E s \in Strategies : Subscribe(s) \/ Unsubscribe(s)
  \/ ReceiveReceipts
  \/ ListStep
  \/ BoundStep

Spec == Init /\ [][Next]_vars

-----------------------------------------------------------------------------
(* Properties *)

\* The composition does to each component only what that component allows:
\* what is checked and proved of FollowList under every bound, and of
\* Entitlement, holds of the app.
ImplementsFollowList == L!Spec
ImplementsEntitlement == E!Spec

\* Neither copy of the list is ever longer than a product of the account
\* allows, over any sequence of launches, answers, payments and stale copies.
Backed(n) == n <= 1 \/ \E i \in DOMAIN account : n <= E!Limit(account[i].product)
ListsAreBacked ==
  /\ Backed(upperBound)
  /\ Backed(Len(savedStrats))
  /\ Backed(Len(subscribedStrats))

\* Handling an answer with receipts leaves no more strategies in UserDefaults
\* than the bound it sets.
AnswerTrims ==
  [][validation.stage = "receipts" /\ running' /\ validation'.stage = "idle"
       => Len(savedStrats') <= upperBound']_vars

\* strategySelectMessage: "BUY/SELL signal will be sent through Notification
\* for every subscribed strategy".  When nothing is under way and no call was
\* overtaken, each strategy the Strategy tab marks as followed has its topic.
EveryFollowedStrategyIsNotified ==
  viewLoaded /\ fcmCalls = <<>> => ToSet(subscribedStrats) \ overtaken \subseteq topics

=============================================================================
