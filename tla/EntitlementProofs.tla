------------------------- MODULE EntitlementProofs --------------------------
(***************************************************************************)
(* Proofs about Entitlement, for every set of products and every number of *)
(* receipts and transactions.                                              *)
(***************************************************************************)
EXTENDS Entitlement, SequenceTheorems, TLAPS

\* The product of every transaction that can unlock something is one the
\* account already had.
TransactionsBacked ==
  \A i \in DOMAIN transactions :
    transactions[i].original # NoProduct =>
      \E j \in DOMAIN account : account[j].product = transactions[i].original

\* An answer only speaks of receipts the account has.
AnswerIsPast == validation.stage = "receipts" => validation.count <= Len(account)

\* No screen outlives its process.
ScreenNeedsProcess == observing => running

BackedInv ==
  TypeOK /\ PremiumIsBacked /\ TransactionsBacked /\ AnswerIsPast
    /\ ScreenNeedsProcess /\ ScreenRightUntilAnswer

-----------------------------------------------------------------------------
LEMMA LimitType == \A p : Limit(p) \in Limits
  BY DEF Limit, Limits

LEMMA AtType ==
  \A stage \in {"idle", "sent", "failed", "noInfo", "receipts"} :
    /\ At(stage) \in Validations
    /\ At(stage).stage = stage
  BY DEF At, Validations

\* What the account has, it keeps: appending a receipt, or letting one expire,
\* leaves every product in its place.
AccountStep ==
  \/ account' = account
  \/ \E p \in Products : account' = Append(account, [product |-> p, expired |-> FALSE])
  \/ \E i \in DOMAIN account : account' = [account EXCEPT ![i].expired = TRUE]

LEMMA AccountGrows ==
  ASSUME account \in Seq(Receipts), AccountStep
  PROVE  /\ account' \in Seq(Receipts)
         /\ Len(account') >= Len(account)
         /\ \A j \in DOMAIN account : j \in DOMAIN account' /\ account'[j].product = account[j].product
<1>1. DOMAIN account = 1..Len(account) /\ Len(account) \in Nat
  BY LenProperties
<1>2. CASE account' = account
  BY <1>1, <1>2
<1>3. ASSUME NEW p \in Products, account' = Append(account, [product |-> p, expired |-> FALSE])
      PROVE  /\ account' \in Seq(Receipts)
             /\ Len(account') >= Len(account)
             /\ \A j \in DOMAIN account : j \in DOMAIN account' /\ account'[j].product = account[j].product
  <2> DEFINE r == [product |-> p, expired |-> FALSE]
  <2>1. r \in Receipts
    BY <1>3 DEF Receipts
  <2> HIDE DEF r
  <2>2. /\ account' \in Seq(Receipts) /\ Len(account') = Len(account) + 1
        /\ \A j \in 1..Len(account) : account'[j] = account[j]
    BY <1>3, <2>1, AppendProperties DEF r
  <2>3. DOMAIN account' = 1..Len(account')
    BY <2>2, LenProperties
  <2> QED
    BY <1>1, <2>2, <2>3
<1>4. ASSUME NEW i \in DOMAIN account, account' = [account EXCEPT ![i].expired = TRUE]
      PROVE  /\ account' \in Seq(Receipts)
             /\ Len(account') >= Len(account)
             /\ \A j \in DOMAIN account : j \in DOMAIN account' /\ account'[j].product = account[j].product
  <2> DEFINE r == [account[i] EXCEPT !.expired = TRUE]
  <2>1. account[i] \in Receipts
    BY <1>1, <1>4, ElementOfSeq
  <2>2. r \in Receipts /\ r.product = account[i].product
    BY <2>1 DEF Receipts
  <2>3. account' = [account EXCEPT ![i] = r]
    BY <1>4
  <2> HIDE DEF r
  <2>4. /\ account' \in Seq(Receipts) /\ Len(account') = Len(account)
        /\ \A j \in 1..Len(account) : account'[j] = IF j = i THEN r ELSE account[j]
    BY <1>1, <2>2, <2>3, ExceptSeq
  <2> QED
    BY <1>1, <2>2, <2>4, LenProperties
<1> QED
  BY <1>2, <1>3, <1>4 DEF AccountStep

LEMMA BackedInit == Init => BackedInv
<1> SUFFICES ASSUME Init PROVE BackedInv
  OBVIOUS
<1>1. validation \in Validations /\ validation.stage = "idle"
  BY AtType DEF Init
<1>2. TypeOK
  BY <1>1, EmptySeq DEF Init, TypeOK, Limits
<1>3. PremiumIsBacked /\ TransactionsBacked
  BY EmptySeq DEF Init, PremiumIsBacked, TransactionsBacked
<1> QED
  BY <1>1, <1>2, <1>3 DEF Init, BackedInv, AnswerIsPast, ScreenNeedsProcess, ScreenRightUntilAnswer

\* A step of the account never takes away what backs a bound, a transaction
\* or an answer.
LEMMA AccountKeeps ==
  ASSUME TypeOK, AccountStep
  PROVE  /\ account' \in Seq(Receipts)
         /\ AnswerIsPast /\ validation' = validation => AnswerIsPast'
         /\ PremiumIsBacked /\ upperBound' = upperBound => PremiumIsBacked'
         /\ TransactionsBacked /\ transactions' = transactions => TransactionsBacked'
<1>1. account \in Seq(Receipts)
  BY DEF TypeOK
<1>2. /\ account' \in Seq(Receipts)
      /\ Len(account') >= Len(account)
      /\ \A j \in DOMAIN account : j \in DOMAIN account' /\ account'[j].product = account[j].product
  BY <1>1, AccountGrows
<1>3. Len(account) \in Nat /\ Len(account') \in Nat
  BY <1>1, <1>2, LenProperties
<1>4. AnswerIsPast /\ validation' = validation => AnswerIsPast'
  BY <1>2, <1>3 DEF AnswerIsPast, TypeOK, Validations
<1>5. PremiumIsBacked /\ upperBound' = upperBound => PremiumIsBacked'
  BY <1>2 DEF PremiumIsBacked
<1>6. TransactionsBacked /\ transactions' = transactions => TransactionsBacked'
  BY <1>2 DEF TransactionsBacked
<1> QED
  BY <1>2, <1>4, <1>5, <1>6

\* A new transaction whose original, if any, the account has.
LEMMA TransactionAdded ==
  ASSUME TypeOK, TransactionsBacked, AccountStep, NEW t \in Transactions,
         t.original # NoProduct => \E j \in DOMAIN account : account[j].product = t.original,
         transactions' = Append(transactions, t)
  PROVE  transactions' \in Seq(Transactions) /\ TransactionsBacked'
<1>1. account \in Seq(Receipts) /\ transactions \in Seq(Transactions)
  BY DEF TypeOK
<1>2. \A j \in DOMAIN account : j \in DOMAIN account' /\ account'[j].product = account[j].product
  BY <1>1, AccountGrows
<1>3. /\ transactions' \in Seq(Transactions)
      /\ Len(transactions') = Len(transactions) + 1
      /\ \A i \in 1..Len(transactions) : transactions'[i] = transactions[i]
      /\ transactions'[Len(transactions) + 1] = t
  BY <1>1, AppendProperties
<1>4. /\ DOMAIN transactions = 1..Len(transactions) /\ Len(transactions) \in Nat
      /\ DOMAIN transactions' = 1..Len(transactions')
  BY <1>1, <1>3, LenProperties
<1>5. TransactionsBacked'
  <2> SUFFICES ASSUME NEW i \in 1..(Len(transactions) + 1), transactions'[i].original # NoProduct
               PROVE  \E j \in DOMAIN account' : account'[j].product = transactions'[i].original
    BY <1>3, <1>4 DEF TransactionsBacked
  <2>1. \E j \in DOMAIN account : account[j].product = transactions'[i].original
    <3>1. CASE i \in 1..Len(transactions)
      BY <1>3, <1>4, <3>1 DEF TransactionsBacked
    <3>2. CASE i = Len(transactions) + 1
      BY <1>3, <3>2
    <3> QED
      BY <1>4, <3>1, <3>2
  <2> QED
    BY <1>2, <2>1
<1> QED
  BY <1>3, <1>5

\* The first transaction leaves the queue.
LEMMA TransactionTaken ==
  ASSUME TypeOK, TransactionsBacked, transactions # <<>>,
         transactions' = Tail(transactions), account' = account
  PROVE  /\ transactions' \in Seq(Transactions) /\ TransactionsBacked'
         /\ Head(transactions) \in Transactions
         /\ Head(transactions).original # NoProduct =>
              \E j \in DOMAIN account : account[j].product = Head(transactions).original
<1>1. transactions \in Seq(Transactions)
  BY DEF TypeOK
<1>2. /\ transactions' \in Seq(Transactions)
      /\ Len(transactions') = Len(transactions) - 1
      /\ \A i \in 1..Len(transactions') : transactions'[i] = transactions[i + 1]
      /\ Head(transactions) \in Transactions /\ Head(transactions) = transactions[1]
  BY <1>1, HeadTailProperties
<1>3. /\ DOMAIN transactions = 1..Len(transactions) /\ Len(transactions) \in Nat \ {0}
      /\ DOMAIN transactions' = 1..Len(transactions')
  BY <1>1, <1>2, LenProperties, EmptySeq
<1>4. TransactionsBacked'
  <2> SUFFICES ASSUME NEW i \in 1..(Len(transactions) - 1), transactions'[i].original # NoProduct
               PROVE  \E j \in DOMAIN account : account[j].product = transactions'[i].original
    BY <1>2, <1>3 DEF TransactionsBacked
  <2>1. i + 1 \in DOMAIN transactions /\ transactions'[i] = transactions[i + 1]
    BY <1>2, <1>3
  <2> QED
    BY <2>1 DEF TransactionsBacked
<1>5. 1 \in DOMAIN transactions
  BY <1>3
<1> QED
  BY <1>2, <1>4, <1>5 DEF TransactionsBacked

-----------------------------------------------------------------------------
LEMMA BackedNext ==
  ASSUME BackedInv, [Next]_vars
  PROVE  BackedInv'
<1> USE DEF BackedInv
<1>1. CASE Launch
  <2>1. /\ validation' \in Validations /\ validation'.stage # "receipts"
        /\ upperBound' = 1 /\ running' = TRUE /\ UNCHANGED <<screenVars, storeVars>> /\ ~running
    BY <1>1, AtType DEF Launch
  <2>2. TypeOK'
    BY <2>1 DEF TypeOK, Limits, screenVars, storeVars
  <2> QED
    BY <2>1, <2>2 DEF PremiumIsBacked, TransactionsBacked, AnswerIsPast,
       ScreenNeedsProcess, ScreenRightUntilAnswer, screenVars, storeVars
<1>2. ASSUME Die
      PROVE  BackedInv'
  <2>1. /\ validation' \in Validations /\ validation'.stage = "idle"
        /\ running' = FALSE /\ observing' = FALSE
    BY <1>2, AtType DEF Die
  <2>2. TypeOK'
    BY <1>2, <2>1 DEF Die, TypeOK, storeVars
  <2> QED
    BY <1>2, <2>1, <2>2 DEF Die, PremiumIsBacked, TransactionsBacked, AnswerIsPast,
       ScreenNeedsProcess, ScreenRightUntilAnswer, storeVars
<1>3. CASE OpenSubscriptionTab
  <2>1. /\ running /\ observing' = TRUE /\ premiumShown' = (upperBound > 1)
        /\ UNCHANGED <<running, upperBound, validation, productLoaded, storeVars>>
    BY <1>3 DEF OpenSubscriptionTab
  <2>2. TypeOK'
    BY <2>1 DEF TypeOK, storeVars
  <2>3. ScreenRightUntilAnswer'
    BY <2>1 DEF ScreenRightUntilAnswer
  <2> QED
    BY <2>1, <2>2, <2>3 DEF PremiumIsBacked, TransactionsBacked, AnswerIsPast,
       ScreenNeedsProcess, storeVars
<1>3a. CASE ProductArrives \/ BuyPressed
  <2>1. /\ productLoaded' \in BOOLEAN /\ paying' \in BOOLEAN
        /\ UNCHANGED <<running, upperBound, validation, observing, premiumShown,
                        account, transactions>>
    BY <1>3a DEF ProductArrives, BuyPressed, TypeOK, screenVars, storeVars
  <2>2. TypeOK'
    BY <2>1 DEF TypeOK
  <2> QED
    BY <2>1, <2>2 DEF PremiumIsBacked, TransactionsBacked, AnswerIsPast,
       ScreenNeedsProcess, ScreenRightUntilAnswer
<1>4. CASE ServerAnswers
  <2>1. /\ validation.stage = "sent"
        /\ UNCHANGED <<running, upperBound, screenVars, storeVars>>
    BY <1>4 DEF ServerAnswers
  <2>2. account \in Seq(Receipts) /\ Len(account) \in Nat
    BY LenProperties DEF TypeOK
  <2>3. validation' \in Validations /\ AnswerIsPast'
    BY <1>4, <2>1, <2>2, AtType DEF ServerAnswers, AnswerIsPast, Validations, storeVars
  <2>4. TypeOK'
    BY <2>1, <2>3 DEF TypeOK, screenVars, storeVars
  <2> QED
    BY <2>1, <2>3, <2>4 DEF PremiumIsBacked, TransactionsBacked, ScreenNeedsProcess,
       ScreenRightUntilAnswer, screenVars, storeVars
<1>5. CASE ReceiveFailed \/ ReceiveNoInfo
  <2>1. /\ validation' \in Validations /\ validation'.stage = "idle"
        /\ upperBound' = upperBound \/ upperBound' = 1
        /\ UNCHANGED <<running, screenVars, storeVars>>
    BY <1>5, AtType DEF ReceiveFailed, ReceiveNoInfo
  <2>2. TypeOK'
    BY <2>1 DEF TypeOK, Limits, screenVars, storeVars
  <2> QED
    BY <2>1, <2>2 DEF PremiumIsBacked, TransactionsBacked, AnswerIsPast,
       ScreenNeedsProcess, ScreenRightUntilAnswer, screenVars, storeVars
<1>6. CASE ReceiveReceipts
  <2>1. /\ validation.stage = "receipts" /\ validation' \in Validations
        /\ validation'.stage = "idle" /\ UNCHANGED <<running, screenVars, storeVars>>
    BY <1>6, AtType DEF ReceiveReceipts
  <2>2. upperBound' = upperBound
          \/ \E i \in DOMAIN account : upperBound' = Limit(account[i].product)
    <3>1. \A i \in Live(validation.count) : i \in DOMAIN account
      BY <2>1, LenProperties DEF Live, AnswerIsPast, TypeOK, Validations
    <3> QED
      BY <1>6, <3>1 DEF ReceiveReceipts
  <2>3. upperBound' \in Limits
    BY <2>2, LimitType DEF TypeOK
  <2>4. TypeOK'
    BY <2>1, <2>3 DEF TypeOK, screenVars, storeVars
  <2>5. PremiumIsBacked'
    BY <2>1, <2>2 DEF PremiumIsBacked, storeVars
  <2> QED
    BY <2>1, <2>4, <2>5 DEF TransactionsBacked, AnswerIsPast, ScreenNeedsProcess,
       ScreenRightUntilAnswer, screenVars, storeVars
<1>7. CASE TransactionUpdated
  <2> DEFINE t == Head(transactions)
  <2>1. /\ observing /\ transactions # <<>> /\ transactions' = Tail(transactions)
        /\ UNCHANGED <<running, validation, observing, productLoaded, account, paying>>
    BY <1>7 DEF TransactionUpdated
  <2>2. /\ transactions' \in Seq(Transactions) /\ TransactionsBacked'
        /\ t.original # NoProduct => \E j \in DOMAIN account : account[j].product = t.original
    BY <2>1, TransactionTaken
  <2>3. \/ UNCHANGED <<upperBound, premiumShown>>
        \/ /\ t.original # NoProduct /\ upperBound' = Limit(t.original)
           /\ premiumShown' = (upperBound' > 1)
    BY <1>7 DEF TransactionUpdated
  <2> HIDE DEF t
  <2>4. TypeOK'
    <3>1. upperBound' \in Limits
      BY <2>3, LimitType DEF TypeOK
    <3>2. premiumShown' \in BOOLEAN
      <4>1. CASE premiumShown' = premiumShown
        BY <4>1 DEF TypeOK
      <4>2. CASE premiumShown' = (upperBound' > 1)
        BY <4>2
      <4> QED
        BY <2>3, <4>1, <4>2
    <3> QED
      BY <2>1, <2>2, <3>1, <3>2 DEF TypeOK
  <2>5. PremiumIsBacked'
    BY <2>1, <2>2, <2>3 DEF PremiumIsBacked
  <2>6. AnswerIsPast' /\ ScreenNeedsProcess'
    BY <2>1 DEF AnswerIsPast, ScreenNeedsProcess
  <2>7. ScreenRightUntilAnswer'
    BY <2>1, <2>3 DEF ScreenRightUntilAnswer
  <2> QED
    BY <2>2, <2>4, <2>5, <2>6, <2>7
<1>8. CASE PaymentDecided
  <2>1. /\ UNCHANGED <<running, upperBound, validation, screenVars>> /\ paying' \in BOOLEAN
        /\ AccountStep
    BY <1>8, EntitlementAssumption DEF PaymentDecided, AccountStep
  <2>2. \E t \in Transactions :
          /\ transactions' = Append(transactions, t)
          /\ t.original # NoProduct => \E j \in DOMAIN account : account[j].product = t.original
    <3>1. CASE transactions' = Append(transactions,
                 [state |-> "failed", product |-> followAll, original |-> NoProduct])
      BY <3>1, EntitlementAssumption DEF Transactions
    <3>2. CASE transactions' = Append(transactions,
                 [state |-> "purchased", product |-> followAll,
                  original |-> IF \E i \in DOMAIN account : account[i].product = followAll
                               THEN followAll ELSE NoProduct])
      BY <3>2, EntitlementAssumption DEF Transactions
    <3> QED
      BY <1>8, <3>1, <3>2 DEF PaymentDecided
  <2>3. transactions' \in Seq(Transactions) /\ TransactionsBacked'
    BY <2>1, <2>2, TransactionAdded
  <2> QED
    BY <2>1, <2>3, AccountKeeps
       DEF TypeOK, ScreenNeedsProcess, ScreenRightUntilAnswer, screenVars
<1>9. ASSUME NEW p \in Products, Renew(p)
      PROVE  BackedInv'
  <2> DEFINE t == [state |-> "purchased", product |-> p, original |-> p]
  <2>1. /\ UNCHANGED <<running, upperBound, validation, screenVars, paying>>
        /\ AccountStep
        /\ transactions' = Append(transactions, t)
        /\ \E j \in DOMAIN account : account[j].product = p
    BY <1>9 DEF Renew, AccountStep
  <2>2. t \in Transactions /\ t.original = p
    BY <1>9 DEF Transactions
  <2> HIDE DEF t
  <2>3. transactions' \in Seq(Transactions) /\ TransactionsBacked'
    BY <2>1, <2>2, TransactionAdded
  <2> QED
    BY <2>1, <2>3, AccountKeeps
       DEF TypeOK, ScreenNeedsProcess, ScreenRightUntilAnswer, screenVars
<1>10. CASE (\E p \in Products : BoughtElsewhere(p)) \/ (\E i \in DOMAIN account : Expire(i))
  <2>1. /\ UNCHANGED <<running, upperBound, validation, screenVars, paying, transactions>>
        /\ AccountStep
    BY <1>10 DEF BoughtElsewhere, Expire, AccountStep
  <2> QED
    BY <2>1, AccountKeeps
       DEF TypeOK, ScreenNeedsProcess, ScreenRightUntilAnswer, screenVars
<1>11. CASE UNCHANGED vars
  BY <1>11 DEF vars, TypeOK, PremiumIsBacked, TransactionsBacked, AnswerIsPast,
     ScreenNeedsProcess, ScreenRightUntilAnswer, screenVars, storeVars
<1>12. Quit \/ BuyPressedTooEarly => Die
  BY DEF Quit, BuyPressedTooEarly
<1> QED
  BY <1>1, <1>2, <1>3, <1>3a, <1>4, <1>5, <1>6, <1>7, <1>8, <1>9, <1>10, <1>11, <1>12
     DEF Next, AppStore

\* The types of Entitlement hold in every behaviour.
THEOREM TypeCorrect == Spec => []TypeOK
<1>1. BackedInv => TypeOK
  BY DEF BackedInv
<1> QED
  BY <1>1, BackedInit, BackedNext, PTL DEF Spec

\* A bound above 1 is always that of a product the account really got.
THEOREM PremiumAlwaysBacked == Spec => []PremiumIsBacked
<1>1. BackedInv => PremiumIsBacked
  BY DEF BackedInv
<1> QED
  BY <1>1, BackedInit, BackedNext, PTL DEF Spec

\* The Subscription tab is right until the answer of its launch is handled.
THEOREM ScreenRight == Spec => []ScreenRightUntilAnswer
<1>1. BackedInv => ScreenRightUntilAnswer
  BY DEF BackedInv
<1> QED
  BY <1>1, BackedInit, BackedNext, PTL DEF Spec

\* The App Store's steps are the only ones that touch the account.
LEMMA NextAccountStep ==
  ASSUME Next
  PROVE  AccountStep
<1>1. CASE Launch \/ Quit \/ OpenSubscriptionTab \/ ProductArrives
  BY <1>1 DEF AccountStep, Launch, Quit, Die, OpenSubscriptionTab, ProductArrives, storeVars
<1>2. CASE ServerAnswers \/ ReceiveFailed \/ ReceiveNoInfo \/ ReceiveReceipts
  BY <1>2 DEF AccountStep, ServerAnswers, ReceiveFailed, ReceiveNoInfo, ReceiveReceipts, storeVars
<1>3. CASE BuyPressed \/ BuyPressedTooEarly \/ TransactionUpdated
  BY <1>3 DEF AccountStep, BuyPressed, BuyPressedTooEarly, Die, TransactionUpdated, storeVars
<1>4. CASE PaymentDecided
  BY <1>4, EntitlementAssumption DEF AccountStep, PaymentDecided
<1>5. ASSUME NEW p \in Products, Renew(p) \/ BoughtElsewhere(p)
      PROVE  AccountStep
  BY <1>5 DEF AccountStep, Renew, BoughtElsewhere
<1>6. ASSUME NEW i \in DOMAIN account, Expire(i)
      PROVE  AccountStep
  BY <1>6 DEF AccountStep, Expire
<1> QED
  BY <1>1, <1>2, <1>3, <1>4, <1>5, <1>6 DEF Next, AppStore

\* Only a receipt that is live when the answer is handled raises the bound.
LEMMA LiveReceiptRaises ==
  ASSUME BackedInv, [Next]_vars,
         validation.stage = "receipts", validation'.stage = "idle", upperBound' > upperBound
  PROVE  \E i \in DOMAIN account : ~account[i].expired /\ Limit(account[i].product) = upperBound'
<1>1. upperBound \in {1, 3, 6, 999} /\ account \in Seq(Receipts)
  BY DEF BackedInv, TypeOK, Limits
<1>2. ~ UNCHANGED validation /\ ~ UNCHANGED upperBound
  BY <1>1
<1>3. ReceiveReceipts
  <2>1. ~Launch
    BY <1>1 DEF Launch
  <2>2. ~Quit /\ ~BuyPressedTooEarly
    BY <1>2 DEF Quit, BuyPressedTooEarly, Die
  <2>3. ~OpenSubscriptionTab /\ ~ProductArrives /\ ~BuyPressed /\ ~TransactionUpdated
    BY <1>2 DEF OpenSubscriptionTab, ProductArrives, BuyPressed, TransactionUpdated
  <2>4. ~ServerAnswers /\ ~ReceiveFailed /\ ~ReceiveNoInfo
    BY DEF ServerAnswers, ReceiveFailed, ReceiveNoInfo
  <2>5. ~AppStore
    BY <1>2 DEF AppStore, PaymentDecided, Renew, BoughtElsewhere, Expire
  <2>6. ~ UNCHANGED vars
    BY <1>2 DEF vars
  <2> QED
    BY <2>1, <2>2, <2>3, <2>4, <2>5, <2>6 DEF Next
<1>4. PICK i \in Live(validation.count) : upperBound' = Limit(account[i].product)
  BY <1>2, <1>3 DEF ReceiveReceipts
<1>5. validation.count <= Len(account) /\ validation.count \in Nat
  BY DEF BackedInv, AnswerIsPast, TypeOK, Validations
<1>6. i \in DOMAIN account /\ ~account[i].expired
  BY <1>1, <1>4, <1>5, LenProperties DEF Live
<1> QED
  BY <1>4, <1>6

\* In every behaviour, an expired receipt unlocks nothing.
THEOREM ExpiredNeverUnlocks == Spec => ExpiredUnlocksNothing
<1>1. BackedInv /\ [Next]_vars =>
        [(validation.stage = "receipts" /\ validation'.stage = "idle" /\ upperBound' > upperBound)
           => \E i \in DOMAIN account :
                ~account[i].expired /\ Limit(account[i].product) = upperBound']_vars
  BY LiveReceiptRaises
<1> QED
  BY <1>1, BackedInit, BackedNext, PTL DEF Spec, ExpiredUnlocksNothing

=============================================================================
