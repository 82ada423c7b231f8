---------------------------- MODULE Entitlement -----------------------------
(***************************************************************************)
(* How many strategies the user may follow: the static upperBound of       *)
(* StrategySubscriptionManager.  Two parties assign it, without knowing of *)
(* each other: subscriptionValidation, once per launch, from the answer of *)
(* Apple's verifyReceipt server, and the payment observer of               *)
(* SubscriptionViewController.  Nothing of it is stored: a launch starts   *)
(* at 1.  The App Store and StoreKit's queue are external; they survive    *)
(* the process.                                                            *)
(***************************************************************************)
EXTENDS Integers, SequencesExt

CONSTANTS
  Products,                   \* product identifiers the account may hold
  follow3, follow6, followAll,  \* the three the code knows (Constants.swift)
  NoProduct,                  \* a nil transaction.original
  MaxReceipts,                \* bound: receipts the account ever gets
  MaxTransactions             \* bound: transactions in StoreKit's queue

ASSUME EntitlementAssumption ==
  /\ followAll \in Products
  /\ NoProduct \notin Products
  /\ follow3 # follow6 /\ follow3 # followAll /\ follow6 # followAll
  /\ MaxReceipts \in Nat /\ MaxTransactions \in Nat

VARIABLES
  running,        \* the process is alive
  upperBound,     \* StrategySubscriptionManager.upperBound
  validation,     \* the verifyReceipt request of this launch and its answer
  account,        \* the App Store's receipts of the account, oldest first
  observing,      \* the Subscription tab was opened and observes payments
  productLoaded,  \* products[K.followAll] is set
  premiumShown,   \* hideView last showed the "You've subscribed!" view
  paying,         \* a payment StoreKit has not decided
  transactions    \* StoreKit's transactions not finished, oldest first

screenVars == <<observing, productLoaded, premiumShown>>
storeVars == <<account, paying, transactions>>
vars == <<running, upperBound, validation, screenVars, storeVars>>

-----------------------------------------------------------------------------
\* The switch over a product identifier, the same at both assignments.
Limit(p) ==
  CASE p = follow3 -> 3
    [] p = follow6 -> 6
    [] p = followAll -> 999
    [] OTHER -> 1

Limits == {1, 3, 6, 999}

\* An entry of latest_receipt_info.  expires_date is compared with the
\* device's clock when the answer is handled, so the model keeps whether it
\* has passed in the account, and an answer only says how many entries it has.
Receipts == [product : Products, expired : BOOLEAN]
Validations == [stage : {"idle", "sent", "failed", "noInfo", "receipts"}, count : Nat]
Transactions == [state : {"purchased", "failed"}, product : Products,
                 original : Products \cup {NoProduct}]

\* A validation at a stage whose answer carries no receipts.
At(stage) == [stage |-> stage, count |-> 0]

\* Mutant: expiry dates are not looked at.
Live_AnyDate(count) == 1..count

\* Entries of an answer that have not expired.
Live(count) == {i \in 1..count : ~account[i].expired}

Init ==
  /\ running = FALSE
  /\ upperBound = 1
  /\ validation = At("idle")
  /\ account = <<>> /\ paying = FALSE /\ transactions = <<>>
  /\ observing = FALSE /\ productLoaded = FALSE /\ premiumShown = FALSE

\* didFinishLaunching.  Without a receipt on the device there is no request.
Launch ==
  /\ ~running
  /\ running' = TRUE
  /\ upperBound' = 1
  /\ validation' \in {At("idle"), At("sent")}
  /\ UNCHANGED <<screenVars, storeVars>>

\* The server, or the network, decides the answer.  It has the receipts of
\* this moment; without any there is no latest_receipt_info.
ServerAnswers ==
  /\ validation.stage = "sent"
  /\ \/ validation' \in {At("failed"), At("noInfo")}
     \/ account # <<>> /\ validation' = [stage |-> "receipts", count |-> Len(account)]
  /\ UNCHANGED <<running, upperBound, screenVars, storeVars>>

\* Mutants: an answer that cannot be read unlocks everything; the bound
\* without receipts is none.
ReceiveFailed_Open ==
  /\ validation.stage = "failed"
  /\ validation' = At("idle")
  /\ upperBound' = 999
  /\ UNCHANGED <<running, screenVars, storeVars>>

ReceiveNoInfo_Zero ==
  /\ validation.stage = "noInfo"
  /\ validation' = At("idle")
  /\ upperBound' = 0
  /\ UNCHANGED <<running, screenVars, storeVars>>

\* The response handler, on the main queue.  An answer that is no dictionary
\* changes nothing; one without receipts ends at the guard.
ReceiveFailed ==
  /\ validation.stage = "failed"
  /\ validation' = At("idle")
  /\ UNCHANGED <<running, upperBound, screenVars, storeVars>>

ReceiveNoInfo ==
  /\ validation.stage = "noInfo"
  /\ validation' = At("idle")
  /\ upperBound' = 1
  /\ UNCHANGED <<running, screenVars, storeVars>>

\* The loop over the receipts assigns upperBound at every live one, so the
\* last live one decides; without any, upperBound stays what it was.  The
\* handler then calls unsubscribeIfNeccessary (see SubscriptionSystem).
ReceiveReceipts ==
  /\ validation.stage = "receipts"
  /\ validation' = At("idle")
  /\ \/ Live(validation.count) = {} /\ UNCHANGED upperBound
     \/ \E i \in Live(validation.count) :
          /\ \A j \in Live(validation.count) : j <= i
          /\ upperBound' = Limit(account[i].product)
  /\ UNCHANGED <<running, screenVars, storeVars>>

\* viewDidLoad of the Subscription tab adds the observer, asks for the
\* product and shows one of the two views.
OpenSubscriptionTab ==
  /\ running /\ ~observing
  /\ observing' = TRUE
  /\ premiumShown' = (upperBound > 1)
  /\ UNCHANGED <<running, upperBound, validation, productLoaded, storeVars>>

ProductArrives ==
  /\ observing /\ ~productLoaded
  /\ productLoaded' = TRUE
  /\ UNCHANGED <<running, upperBound, validation, observing, premiumShown, storeVars>>

\* What the end of the process leaves of this component.
Die ==
  /\ running' = FALSE
  /\ validation' = At("idle")
  /\ observing' = FALSE /\ productLoaded' = FALSE /\ premiumShown' = FALSE
  /\ UNCHANGED <<upperBound, storeVars>>

Quit == running /\ Die

\* makeSubFor3Pressed, on the view hideView shows without a subscription.
BuyPressed ==
  /\ observing /\ ~premiumShown /\ productLoaded
  /\ ~paying /\ Len(account) < MaxReceipts
  /\ paying' = TRUE
  /\ UNCHANGED <<running, upperBound, validation, screenVars, account, transactions>>

\* The same before the product arrived: products[K.followAll]! ends the process.
BuyPressedTooEarly ==
  /\ observing /\ ~premiumShown /\ ~productLoaded
  /\ Die

\* StoreKit decides a payment.  Only a product the account had before has an
\* original transaction.
PaymentDecided ==
  /\ paying /\ Len(transactions) < MaxTransactions
  /\ paying' = FALSE
  /\ \/ /\ Len(account) < MaxReceipts
        /\ account' = Append(account, [product |-> followAll, expired |-> FALSE])
        /\ transactions' = Append(transactions,
             [state |-> "purchased", product |-> followAll,
              original |-> IF \E i \in DOMAIN account : account[i].product = followAll
                           THEN followAll ELSE NoProduct])
     \/ /\ account' = account
        /\ transactions' = Append(transactions, [state |-> "failed", product |-> followAll, original |-> NoProduct])
  /\ UNCHANGED <<running, upperBound, validation, screenVars>>

\* The App Store renews a product the account has.
Renew(p) ==
  /\ Len(account) < MaxReceipts /\ Len(transactions) < MaxTransactions
  /\ \E i \in DOMAIN account : account[i].product = p
  /\ account' = Append(account, [product |-> p, expired |-> FALSE])
  /\ transactions' = Append(transactions, [state |-> "purchased", product |-> p, original |-> p])
  /\ UNCHANGED <<running, upperBound, validation, screenVars, paying>>

\* The account buys a product on another device, or in an earlier version.
BoughtElsewhere(p) ==
  /\ Len(account) < MaxReceipts
  /\ account' = Append(account, [product |-> p, expired |-> FALSE])
  /\ UNCHANGED <<running, upperBound, validation, screenVars, paying, transactions>>

Expire(i) ==
  /\ ~account[i].expired
  /\ account' = [account EXCEPT ![i].expired = TRUE]
  /\ UNCHANGED <<running, upperBound, validation, screenVars, paying, transactions>>

\* Mutant: the view is not refreshed.
TransactionUpdated_SameView ==
  /\ observing /\ transactions # <<>>
  /\ transactions' = Tail(transactions)
  /\ LET t == Head(transactions) IN
       IF t.state = "purchased" /\ t.original # NoProduct
       THEN upperBound' = Limit(t.original)
       ELSE UNCHANGED upperBound
  /\ UNCHANGED <<running, validation, observing, productLoaded, premiumShown, account, paying>>

\* paymentQueue(_:updatedTransactions:), one transaction of its loop.  A
\* purchase without an original unlocks nothing, and is finished all the same.
TransactionUpdated ==
  /\ observing /\ transactions # <<>>
  /\ transactions' = Tail(transactions)
  /\ LET t == Head(transactions) IN
       IF t.state = "purchased" /\ t.original # NoProduct
       THEN /\ upperBound' = Limit(t.original)
            /\ premiumShown' = (upperBound' > 1)
       ELSE UNCHANGED <<upperBound, premiumShown>>
  /\ UNCHANGED <<running, validation, observing, productLoaded, account, paying>>

AppStore == \/ PaymentDecided
            \/ \E p \in Products : Renew(p) \/ BoughtElsewhere(p)
            \/ \E i \in DOMAIN account : Expire(i)

Next ==
  \/ Launch \/ Quit \/ OpenSubscriptionTab \/ ProductArrives
  \/ ServerAnswers \/ ReceiveFailed \/ ReceiveNoInfo \/ ReceiveReceipts
  \/ BuyPressed \/ BuyPressedTooEarly \/ TransactionUpdated
  \/ AppStore

Spec == Init /\ [][Next]_vars

-----------------------------------------------------------------------------
(* Properties *)

\* Types of the state.
TypeOK ==
  /\ running \in BOOLEAN
  /\ upperBound \in Limits
  /\ validation \in Validations
  /\ account \in Seq(Receipts)
  /\ observing \in BOOLEAN /\ productLoaded \in BOOLEAN /\ premiumShown \in BOOLEAN
  /\ paying \in BOOLEAN
  /\ transactions \in Seq(Transactions)

\* Whatever the order of launches, answers and transactions, a bound above 1
\* is that of a product the account really got (both assignments).
PremiumIsBacked ==
  upperBound > 1 => \E i \in DOMAIN account : Limit(account[i].product) = upperBound

\* An expired receipt never raises the bound when the answer is handled,
\* although it may have expired after the server sent it.
ExpiredUnlocksNothing ==
  [][(validation.stage = "receipts" /\ validation'.stage = "idle" /\ upperBound' > upperBound)
       => \E i \in DOMAIN account : ~account[i].expired /\ Limit(account[i].product) = upperBound']_vars

\* The Subscription tab shows the right view as long as the answer of this
\* launch is outstanding: a payment refreshes the view it came with (hideView).
ScreenRightUntilAnswer ==
  observing /\ validation.stage # "idle" => (premiumShown <=> upperBound > 1)

\* strategySelectMessage: "Subscribe to follow more strategies!".  A purchase
\* the payment observer takes off the queue gives the bound of its product.
PurchaseUnlocks ==
  [][(transactions # <<>> /\ transactions' = Tail(transactions)
        /\ Head(transactions).state = "purchased")
       => upperBound' >= Limit(Head(transactions).product)]_vars

=============================================================================
