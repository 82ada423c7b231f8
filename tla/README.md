# FX Signal: a TLA+ verification of the iOS app

FX Signal (`src/FXSignal/FXSignal`, Swift) shows technical indicators of
currency pairs, lets the user define entry conditions ("strategies") of his
own, and lets him follow the strategies of the service: a followed strategy
sends its signals as push notifications through Firebase Cloud Messaging (FCM).
One strategy is free; StoreKit subscriptions allow more. `Pods/` holds the
vendored libraries; one of them, the topic list of FirebaseMessaging, carries
logic the app depends on directly and is modelled too. gRPC, BoringSSL,
Firestore and the other libraries make up nearly all of the repository's 4559
files, and all of its C and C++; they are left aside (see *Not modelled*).

Paths below are relative to `src/FXSignal/FXSignal` unless they start with
`Pods`.

## 1. Inventory

### Followed strategies — modelled: `FollowList`
`Model/StrategySubManager.swift`, `View/StrategyViewController.swift`,
`View/StrategySubController.swift`, `AppDelegate.swift`

* **State.** The list of followed strategies exists four times: in the Strategy
  tab (`subscribedStrats`), in UserDefaults (`SubscribedStrats`), as FCM topics,
  and in the Firebase database, in a record whose key is made of the first
  registration token. Every object `StrategySubscriptionManager` has its own
  copy; only the Strategy tab's lives long.
* **Operations.** Launch (ask for a token, subscribe to `test`), open the
  Strategy tab (load the list, subscribe to every strategy of it), follow
  (`toSubscribe`, refused at the bound), unfollow (`toUnsubscribe`), trim to a
  bound (`unsubscribeIfNeccessary`), save the record (`saveToFirebase`).
* **Interaction.** FCM calls are callbacks: each waits for the instance id and
  then for a token before it takes effect. The trim is called from the handler
  of the verifyReceipt answer.
* **Hard.** Four copies changed at different moments; calls that fail, die with
  the process, or, with a token in the cache, overtake others that still wait for
  theirs; a trim behind the back of an open tab.
* **Correct when** no unfollowed strategy notifies, each followed one does, the
  copies differ by trims only, nothing is followed twice, there is one record.

### Entitlement — modelled: `Entitlement`
`Model/StrategySubManager.swift` (`subscriptionValidation`),
`View/SubscriptionViewController.swift`

* **State.** The static `upperBound`, the outstanding verifyReceipt request, the
  view the Subscription tab shows; outside: the account's receipts and the
  payment queue.
* **Operations.** Launch (ask the server about the receipt), handle the answer
  (three forms), open the tab, buy, take a transaction off the queue.
* **Hard.** Two writers of the bound in any order, receipts that expire between
  answer and handling, payments delivered in a later process, a screen drawn
  from a bound that changes afterwards.
* **Correct when** the bound is always that of a product the account got, an
  expired receipt raises nothing, and the tab agrees with the bound.

### The two together — modelled: `SubscriptionSystem`
One process and one main queue run both. The limit `toSubscribe` tests is the
bound of that moment; the answer's handler sets the bound and trims.

### Pending topic operations — modelled: `PendingTopics`, `TopicRegister`
`Pods/FirebaseMessaging/FirebaseMessaging/Sources/`: `FIRMessagingPendingTopicsList`,
`FIRMessagingPubSub`, `FIRMessagingTopicOperation`, and from `FIRMessaging.m`
`defaultInstanceIDTokenWasRefreshed:` and `onNetworkStatusChanged`

* **State.** Batches of topics with one action each (archived in UserDefaults),
  the current batch and the topics in flight (not archived), HTTP requests,
  dispatched blocks.
* **Operations.** Add, resume, begin a request, complete it; token and network
  events; archive and restore.
* **Hard.** Blocks on global queues that meet under one lock, an answer that is
  lost after the server acted, a request that the server executes after the
  client gave it up, the end of the process, retry.
* **Correct when** no operation is dropped before the server executed or refused
  it, the last operation asked for a topic decides, and the list gets empty.

### Monitor — modelled: `IndicatorMonitor`, `Indicators`
`Model/IndicatorManager.swift`, `View/MonitorViewController.swift`,
`View/MonitorSetupController.swift`

* **State.** One shared `IndicatorModel` (pair, four series, 25 indicators, two
  labels), the strategies loaded from the file, requests, main-queue updates.
* **Operations.** Select a pair, refresh, save strategies, handle a response;
  resample a series to a time frame, and five formulas that read a colour off it.
* **Hard.** Each request has a session and handler thread of its own; all change
  the same model without a lock, and the main thread changes its pair. A handler
  reads the strategies, sets a label and passes on a copy in separate steps. An
  answer can lack a field or have too few rates. Windows
  that must fit each other and the series, divisions by zero in a flat market,
  rules written out twice, for BUY and for SELL.
* **Correct when** rate, indicators and labels on the screen belong to the
  selected pair and the saved strategies, no array is read out of range, and the
  formulas treat BUY and SELL alike and say nothing of a market that stands still.

### Signals feed — modelled: `SignalsFeed`
`Model/SignalManager.swift`, `View/SignalsViewController.swift`

* **State.** The signals of the last snapshot of the database, newest first, cut
  to `numberOfSignals`; the rows of the table as they were last drawn.
* **Operations.** Open the tab, receive a snapshot, draw a row.
* **Interaction.** A row's lock reads `upperBound`, which Entitlement's handlers
  change without telling the table.
* **Hard.** Rows drawn later than the list or the bound they belong to; whether a
  signal is live is computed from a list that was cut.
* **Correct when** a row says LIVE exactly if nothing newer closed or replaced
  its position, and nobody who never bought reads a live signal.

### Strategy configuration — modelled: `StrategyConfig`, `StrategyStore`
`Model/StrategyConfigManager.swift`, `View/MonitorSetupController.swift`, and
from `Model/IndicatorManager.swift` `loadDefault` and the signal labels

* **State.** `Strategies.plist`, a list of strategies; the copy of it in the
  setup screen, read when the screen opens; the copy in the Monitor, read at the
  launch and after a save; the widgets of the screen.
* **Operations.** Open the screen, edit, save, go back; the rule that turns the
  Monitor's copy and the indicators' colours into a label.
* **Hard.** A whole list is written back from a copy; screen and labels look an
  entry up in different ways in different copies; the write is not atomic.
* **Correct when** list and copies amount to one strategy per pair and
  direction, what the screen showed when it was saved last, and labels fire by the
  rule the user is told.

### Not modelled
* **Statistics of a strategy** (`StrategySubController.setStatsValue`): one read
  of the database formatted into labels; nothing else reads them.
* **Accounts** (login, registration, logout in `SubscriptionViewController`):
  their controls are hidden in `viewDidLoad`, so no behaviour reaches them.
* **Presentation** (colours, cells, rounding) and **constants**: nothing of their
  own to state.
* **The other vendored libraries** under `Pods/`. The C and C++ of the
  repository is Firestore, gRPC, Abseil, BoringSSL, LevelDB, nanopb and Protobuf:
  third-party releases that CocoaPods copied in. The app never calls Firestore,
  the only one of them with a public interface, and the rest is below it. A model
  of some of that code would say nothing about this program. What the app relies
  on of other services (FCM's server, the Realtime Database, StoreKit) is
  modelled from how it is used and marked external.

## 2. Modules

| Module | What it is |
|---|---|
| `FollowList` | the followed strategies and their four copies |
| `FollowListProofs` | its theorems |
| `Entitlement` | the bound, receipts, payments, the Subscription tab |
| `EntitlementProofs` | its theorems |
| `SubscriptionSystem` | both in one process; refines each |
| `SubscriptionSystemProofs` | its theorems, those of the two components carried over |
| `TopicRegister` | abstract: an at-least-once register of topic operations |
| `PendingTopics` | FIRMessagingPendingTopicsList; refines `TopicRegister` |
| `PendingTopicsProofs` | its theorems |
| `SignalsFeed` | the Signals tab; extends `Entitlement` by the table |
| `SignalsFeedProofs` | its theorems |
| `IndicatorMonitor` | the Monitor tab, its requests and handler threads |
| `IndicatorMonitorProofs` | its theorems |
| `Indicators` | resampling and the formulas of the indicators |
| `IndicatorsProofs` | its theorems |
| `StrategyStore` | abstract: one strategy per pair and direction |
| `StrategyConfig` | the user's own strategies and the rule of the labels; refines `StrategyStore` |
| `StrategyConfigProofs` | its theorems |
| `MC*` | symmetry sets and drafts for TLC |

### How state and actions correspond to the code

**FollowList.** A strategy is a model value that stands for its `Index` and its
topic. `fcmCalls` are the calls of the app that have not taken effect, in the
order they were made, which is also the order in which they get their instance id
(`getIDWithHandler`). What follows is not a queue: a call that then finds a token
in the cache runs its handler at once (`ServedFromCache`,
`FIRInstanceID.m:214-222`); one that finds none joins those that wait for the
default token (`JoinsWaiting`, `:223`), and the handlers of these run together when
the token arrives, in the order they joined (`DefaultTokenArrives`,
`combinedHandler`). The first `waiting` calls of `fcmCalls` are the ones that wait.
Whether a token is in the cache is open at every call, as other parts of the
library fetch, refresh and delete tokens. A handler that has its token hands the
operation to FCM's durable list: the model changes `topics` then.
What FCM makes of that promise afterwards is the subject of `PendingTopics`.
Until then the call is lost with the process. `CallForEach` is the loop of
`subscribeAndListen`. Keys of the database record are the first token
(its first ten characters in the code: distinct tokens are taken to differ
there). One user action is one main-thread event handler and hence one step;
the end of the process between the UserDefaults write and the calls to FCM
inside a handler is the same as the end right after it, as those calls only
take effect in later callbacks. The history variables `lost`, `overtaken`,
`trimmed` and `writeLost` are read by properties only; `overtaken` has the
strategies whose latest request took effect while a contrary one was still waiting.

**Entitlement.** `validation` walks from *sent* over the three kinds of answer
back to *idle*; an answer with receipts speaks of the first `count` receipts of
the account, the expiry dates are looked at on handling. Receipts, renewals,
purchases on another device, expiry and payments are external actions
(`AppStore`). `TransactionUpdated` is one round of the loop in
`paymentQueue(_:updatedTransactions:)`. Buying before the product list arrived
unwraps nil: `BuyPressedTooEarly` ends the process.

**SubscriptionSystem.** Takes both modules with INSTANCE. Launch and Quit are
joint; `Subscribe` gets `upperBound`; `ReceiveReceipts` is E's action and L's
trim to the *new* bound in one step; every other step is one component's.

**PendingTopics.** Each block under `@synchronized(self)` is one action.
`currentBatch` is an index, 0 for nil. `resumes` counts dispatched
`resumeOperationsIfNeeded` blocks. A request carries whether the server
executed it and the answer; the two are independent except that success implies
execution, so a lost answer is an executed request with result "network". A
request that gets an error of the network, or outlives its process, may stay on the
wire: `adrift` has what the server may still execute, at any time and more than
once (`ExecuteLate`). `belated` is the history of the topics where that happened
last.
`Quit` keeps `topicBatches` because the list is archived under the lock at each
change; everything else is gone. Completion handlers are left out: those of the
app only print. `wanted`, `refused` and `overtaken` are histories.

**IndicatorMonitor.** Data is modelled by its origin: a rate is the pair it is of,
the indicators are the set of pairs of the series they were computed from, a label
is the pairs it is about and the strategies it followed. A handler takes one step
for each access to what it shares: clear, parse, calculate, read the strategies for
the buy label, set it, the same for the sell label, copy the model, dispatch the
copy (`requests[r].stage`). What it holds between two steps is `requests[r].local`.
Handlers and the main thread interleave at all of these points, so a handler can set
a label, or pass on a copy, that others have made old. Swift gives unsynchronized
access to an array no meaning; `HandlersRace` and `MainRaces` add the end of the
process as an outcome whenever two threads are at it, next to every interleaving.

An answer appends none, one or, standing for all longer ones, two rates. It ends the
app in `generateData` (`0...-1`) if there is none and in `updateRateLine`
(`closeTs[count-2]`) if there is one (`OutOfRange`), and at a forced unwrap if a
field is missing (`UnwrapsNil`). One that is no FXData is the API's "Note" that it
was called too often (`ParseFails`). Histories: `overlap` (a request was made while
something was under way), `short` (an answer had fewer than two rates), `stale` (a
handler had read the strategies that the last save replaced), `answered` (a request
made since the save, and not while `stale`, was delivered), `crashed`.

The formulas are not expanded there: `CalculateAll` says which pairs the
indicators were computed from, `Indicators` what is computed.

**Indicators.** One operator per formula. Series have their newest rate first,
as `generateData` returns them; the code's index `i` is position `i + 1`. `Float`
and `Double` are replaced by exact whole numbers: each comparison is multiplied
out by its denominators, which are positive, and by the square where the code
takes a root. Where the code divides zero by zero it gets a NaN, with which every
comparison is false; the multiplied-out comparison `0 < 0` is false too. Rounding
is thereby left out. `FlatIsGray` does not depend on it: in a flat market the
windows that are compared hold equal numbers and are summed in the same order, so
they are equal after rounding, and no deviation exceeds twice the standard
deviation computed from it. The windows are constants with an ASSUME (the code's
are 26, 12, 9; 14; 20; 20; 9); the length guards 35, 15, 21, 20 and 12 are
sums of them in the model, as they have to be to keep every read in range, and
TLC evaluates the formulas on every shorter series. `HandleResponse` is the
undisturbed handler of one response after another; each response is the last one
with a newer rate at its end, and without its oldest rate once it is full.

**SignalsFeed.** Extends `Entitlement`, so `running` and `upperBound` are that
module's variables and each of its steps is a step here (`EntitlementStep`). The
database is external: signals are added, never changed, under keys that sort in
the order they were added, and a snapshot is some later state of it than the one
before (`seen`). `cells[row]` is what a row last showed; `DrawRow` may happen at
any time and any number of times, as the table view lays out rows on reload and
on scrolling. A body that contains "Open" opens a position, any other one closes
it; whether a result is a profit or a loss is wording and left out.

**StrategyConfig and StrategyStore.** A key is a pair with a direction; a form is
what the widgets hold. `StrategyStore` is what the user expects: a strategy for each
key, a screen that opens with it, and a press of SAVE that stores the form shown by
the screen under the key of the screen and leaves the others. The refinement maps
the file to the store, the open screen to its key and widgets, and the history
`lastSave` to the fate of the last press, so a save that kept the old strategy,
stored another form or used another key would be no step of it, and neither would
one that failed be taken for one that was written. `EditDraft` is any number of edits at once: they change nothing
but the screen. The setup screen is modal, so there is one at a time, and its
key is that of the pair the Monitor showed. `saveToDefault` writes in place and
only prints an error: the file then holds the new list, the old one, or a part
(`Damaged`), and so it does if the process ends within the write. `loadDefault`
keeps what it has when the file cannot be decoded. A refresh of the Monitor
loads the same file once more, which changes nothing and is left to
`IndicatorMonitor`, where a whole file is one of a few versions.
`UnreadableNeverFires` quantifies over all colours of the indicators. `Filter` is
the filter of `saveToDefault` as a recursive function over the list, a form the
provers can reason about.

## 3. Runs

All states are explored in each run (no state constraint); bounds sit in guards
and are CONSTANTS named Max*.

| Run | Question | Bounds, and why they are enough |
|---|---|---|
| `FollowList` | Do the copies stay consistent when calls fail, overtake each other or wait, the process ends and any bound applies; does a request take effect? | 2 strategies and the bounds 1 and 3: a trim keeps one and removes one; 2 calls: one overtakes the other or waits with it (longer queues are covered by the proofs of the safety properties); 2 tokens: a second one can arrive |
| `Signals_feed` | Is the bound always backed, is the tab right until the answer; are statuses and locks of the signals right? | 2 receipts of a better, a worse and an unknown product in either order, 2 waiting transactions; 3 signals of 2 strategies against 2 rows: a position is opened, closed or replaced, and cut off the list, while the bound changes between two drawings |
| `System_safety` | Do the lists outgrow what the account had; does every answer trim; is each step of the app one that its components allow? | 2 strategies against the bounds 1 and 999 and an unknown product; 2 receipts: a better and an unknown one in either order; 2 calls |
| `PendingTopics` | Current batch, empty batches, at-least-once promise, does the last operation decide, does the list get empty? | 2 topics and 2 batches: one that waits and one that overtook it; the requests of one operation may be executed late; 1 dispatched block at a time, so a second completion waits for the block of the first (the safety theorems hold for any number) |
| `Monitor_safety` | Is a user who waits always right; what can end the app; do the strategies saved last win? | 2 pairs, 3 requests of a process: one before a save, one made by it and one more, at every step of each other's handlers; 2 copies waiting for the main queue; the file without and with strategies |
| `Indicators` | Are BUY and SELL alike, is a flat market silent, is K a percentage, do frames count from the newest rate? | every response of up to 6 rates of six kinds (still at three prices, swinging to either side, ending where it began), windows of 2 and 3: one rate more than the longest series a formula asks for; frames also of responses with 16 or 48 older rates before these |
| `Config_safety` | Is the list a map; do screen and labels agree; is 999 out of reach? | 2 pairs and 2 directions: a save can touch the wrong pair, the wrong direction or both; 4 forms: untouched, all weights at their limit on one indicator, a threshold some colours reach, weights and threshold 0 |

What they show: under all interleavings of these instances, the properties hold.
Every property is paired in `PROJECT.json` with a mutant of the code that breaks
it (a missing reset, a swapped order, a dropped guard), so none holds for want
of a case.

### Disagreements between the code and what it says

Each is one property that quotes the text, and a run in which TLC finds the
counterexample.

| Run | Property | What the code does |
|---|---|---|
| `System_notified` | `EveryFollowedStrategyIsNotified` | a trim after the Strategy tab was opened leaves strategies marked as followed whose topics are gone |
| `Entitlement_purchase` | `PurchaseUnlocks` | a first purchase has no `original` transaction; nothing is unlocked and the transaction is finished |
| `PendingTopics_order` | `BatchesRunInOrder` | an operation added while no batch is current makes the last batch current, before older ones |
| `Config_rule` | `ActiveMeansGreater` | a label fires when the sum equals the threshold; the instruction says greater |
| `Monitor_rate` | `RateIsOfItsPair` | a late response of the old pair stays on screen under the new one |

`LastOperationDecides`, `CheckedStrategyNotifies` and
`UndisturbedUpdateIsRight` are the counterparts that do hold: they say exactly
which case (`overtaken` or `belated`; `trimmed`, `lost` or `overtaken`; `overlap`)
is excepted. What else
the exceptions stand for, with no run of its own:

* Unfollowing writes the Strategy tab's copy over a list that a trim has
  shortened since: `CopiesDifferByTrims` relates the copies by suffix, not
  equality, and `ListsAreBacked` bounds them by what the account *ever* had.
* An answer without receipts resets the bound under a Subscription tab that goes
  on saying "You've subscribed!": `ScreenRightUntilAnswer` ends at the answer.
* A network error dispatches no resume (`FIRMessagingPendingTopicsList.m:238`):
  `SettlesWhenLeftAlone` needs `NetworkFairSpec`.
* A row of the Signals tab is not drawn again when the bound changes: a user who
  has just bought reads "SIGNAL LOCKED" until he scrolls, and one whose
  subscription ended goes on reading an open row. `OpenSignalsAreBacked` says
  what remains true: no row is open for an account that *never* had a product.
* A market that breaks both bands at once is Red for `calculateBB` although its
  mirror image is Red too: the exception in `MirrorImage`.
* Overlapping handlers can leave one pair's label under another's indicators, or
  clear the series before the other one reads it, which ends the app at an
  index: `CrashHasCause`. An answer of fewer than two rates, or without a field,
  ends it without any overlap; the property names these two and excludes the rest.
* A handler that had read the strategies before a save sets its label, and passes on
  its copy, after a newer request was delivered: the old label stays on the screen
  until the next request. `SavedStrategyReachesScreen` excepts this case (`stale`)
  and says that nothing else brings an old label back.
* An unfollow that finds a token in the cache overtakes the follow that still waits
  for one, and the topic stays registered (or the other way round): `overtaken` in
  `OnlyFollowedNotify`, `CheckedStrategyNotifies` and `RequestsTakeEffect`.
* A request that the server executes after the client gave it up undoes a later one:
  `belated` in `LastOperationDecides`.

### Fairness

* `FollowList!FairSpec`: the next call gets its instance id in the end (`Proceed`),
  the calls that wait for the default token get it (`Deliver`), and the server
  stores a write (`WriteLands`). The library calls each handler once, on a token or
  an error, and repeats the request for the default token a number of times. No
  fairness on user actions, on Quit or on failures.
  `RequestsTakeEffect` assumes besides that calls do not fail for ever: a trim
  of a strategy that the stale copy brought back asks again each time, and each
  of its calls may fail.
* `PendingTopics!FairSpec`: dispatched blocks run (weak fairness of `Resume` and
  of completions, guaranteed by GCD), the token of a started app arrives, each
  request is answered (its session has a timeout of one minute), and a request
  repeated for ever reaches the server and is answered in the end (strong
  fairness: an assumption about the network, not the code).
* `NetworkFairSpec` adds that the network status changes again and again.
  Nothing in the code brings that about; without a new operation it is the only
  retry there is, which is why `SettlesWhenLeftAlone` is stated under
  `NetworkFairSpec`.
* `IndicatorMonitor`, `Entitlement` and `SignalsFeed` claim no liveness: a request without an
  answer just leaves the old screen.

## 4. Theorems

Proved by TLAPS for every value of the constants that satisfies the named
ASSUME of the module; TLC evaluates the ASSUMEs in the runs. Each invariant below
was checked by TLC before it was proved; where the property is not inductive, the
strengthening and the reason for it are given.

**FollowListProofs.**
* `TypeCorrect`; `AlwaysFollowedOnce`: the button of a followed strategy is not
  offered, and removing and trimming keep a list without repetition so
  (`InjectiveAppend`, `InjectiveRemoveAt`).
* `NotifiesOnlyFollowed` (`OnlyFollowedNotify`). Not inductive: an unfollow
  stores the tab's copy, so that copy must hold whatever UserDefaults holds
  (`SavedIsShown`). Invariant `NotifyInv`. The core is what appending calls does to
  `WillBeRegistered` (`AskQueue` and the lemmas after it), and what taking one out of
  the middle, or a whole beginning off, does to it.
* `CheckedAlwaysNotifies` (`CheckedStrategyNotifies`), the other direction.
  Invariant `CheckInv`: without `FollowedOnce` the unfollow of a strategy would
  leave a second copy of it marked as followed.
* `AlwaysOneUserRecord` (`OneUserRecord`): tokens are only appended, so the first
  one never changes once there is one.
* `CopiesAlwaysDifferByTrims` (`CopiesDifferByTrims`). Invariant `CopiesInv`: a
  tab that outlived its process could write an old list. A trim takes a suffix
  of a suffix (`SuffixTransitive`, `SuffixSubSeq`).

**EntitlementProofs.** `TypeCorrect`, `PremiumAlwaysBacked`, `ScreenRight`, and
the action property `ExpiredNeverUnlocks`. The invariant `BackedInv` adds that a
transaction's original is a product of the account, that an answer speaks only of
receipts the account has, and that no screen outlives its process; without them a
transaction or an answer could raise the bound to a product nobody bought.
`AccountGrows` is the fact that the account only grows or expires.

**SubscriptionSystemProofs.** `SystemImplementsEntitlement` and
`SystemImplementsFollowList`: each step of the app is one of the component or
leaves its variables alone (the properties `ImplementsEntitlement` and
`ImplementsFollowList`). The assumption is the two components' own
(`SubscriptionSystemAssumption`). The proofs about the components are instances
here, so their invariants hold of the app: `SystemKeepsList` and
`SystemKeepsBound` say which. On top of them:
* `ListsAlwaysBacked` (`ListsAreBacked`). The invariant needs `PremiumIsBacked` in
  the *next* state: a follow is checked against the present bound, a trim shortens
  to the new one. A list grows by one, below the bound, or becomes another copy,
  or shrinks (`LengthStep`), and no step takes a product from the account
  (`AccountKeepsProducts`).
* `AnswerAlwaysTrims` (`AnswerTrims`). It needs that an answer is outstanding only
  in the process that asked (`AnswerNeedsProcess`); otherwise the end of the
  process would look like the handling of an answer. `TrimLength` is what the loop
  leaves.

**SignalsFeedProofs.** `FeedImplementsEntitlement` (`FeedSpec => Spec`): every
step is one of Entitlement or leaves its variables alone, so its theorems hold of
the feed. `FeedTypeCorrect`; `LiveAlwaysLatest`: row i of the table is entry
`seen + 1 - i` of the database, so the newer entries are exactly the rows above,
whatever was cut; `OpenSignalsAlwaysBacked`: an open row was drawn under a bound
above 1, that bound was backed (`PremiumIsBacked`), and backing is never lost.

**PendingTopicsProofs.** `TypeCorrect`, `CompletionFindsItsBatch`
(`InFlightIsCurrent`), `BatchesNeverEmpty`. The invariant `BatchInv` joins the
three and says that nothing runs in a dead process. They depend on each other:
that the completion block may use `currentBatch` rests on the current batch
never changing while it has topics in flight; that it has topics rests on the
completion removing the batch with its last topic; and `Prune` changes nothing
at a launch because no batch is empty.
`LastAlwaysDecides` (`LastOperationDecides`) speaks of the topics that left the
list, so its invariant `OrderInv` says what the list owes the others: the last
batch that has a topic asks for what was wanted last (`LastBatchIsWanted`), no
batch before the current one has a topic that is not `overtaken`
(`NothingOlder`), and an executed request is what the server's register shows
(`ExecutedIsRegistered`). A completion is described by where each remaining batch
was before it (`Keeps`).
`ListImplementsRegister` (`ImplementsTopicRegister`): the refinement maps the list
to how many of its batches have an operation (`PendingOf`). An operation added
makes one count larger by one or is merged where it is pending already
(`AddedPending`); an answer that is not a network error takes one away
(`CompletedPending`), and the register allows that because the request it belongs
to was executed or refused (`KnownOfRequest`); the end of the process forgets what
was learnt. One operation has at most one request, as only the current batch has
any (`RequestDecides`).

**IndicatorMonitorProofs.** `MonitorTypeCorrect`, `CrashAlwaysHasCause` and
the action property `UndisturbedAlwaysRight` rest on `SoloInv`: as long as no
requests overlapped, at most one is under way, and what the model and the waiting
updates hold is a function of the stage it has reached (`OwnModel`); a rate is
missing only after a `short` answer.
`SavedStrategyAlwaysReaches` holds under overlap as well. Its invariant `ReachInv`
says that a request counts as made since the save only while no handler has old
strategies (`FreshSinceSave`); then every label a handler has read, set or copied
follows the file (`HandlersFollow`), whoever else writes in between, as the others
write labels that follow it too; and copies come to the screen in the order they were
queued (`LabelsReach`).

**IndicatorsProofs.** For responses of every length and all prices and windows,
from the invariant `Computed`: the indicators are those of the last response.
* `TypeCorrect`; `PercentAlwaysInRange` (`PercentInRange`); and
  `FramesAlwaysCountFromNewest`, which rests on `FramesOfAnyResponse`. That the
  frames of highs, lows and closes, which the code samples one by one, are those of
  one frame of bars of the response is `FrameOfBars`.
* `AlwaysMirrors` (`MirrorImage`). In the mirrored market a window's total is what
  is missing from the full one (`WindowTotalReflected`), so every difference of
  moving averages changes its sign (`DifferenceReflected`, `ExcessReflected`), gain
  and loss change places (`RSIReflected`), distances from the mean turn around while
  their squares stay (`OutsideReflected`), and highs and lows change places
  (`MirroredWindow`).
* `AlwaysFlatIsGray` (`FlatIsGray`). A frame of a market with one price is constant,
  so each formula compares zero with zero. It needs that nothing is shown before the
  first response (`NothingShown`).

The windows are added up by `SumFunctionOnSet` of the community modules, a recursion
over the subsets of the window. That it has values at all is shown by its size
(`AddsUpToExists`); what it computes (`SumType`, `SumMirrors`, `SumSame`,
`SumConstant`) by the smallest subset for which it would not (`SmallestSet`). This
takes the place of the induction theorems, which have an operator as a parameter.

**StrategyConfigProofs.** Two facts about the rule, for all forms: `TotalBound`, a
strategy counts at most 500 for every choice of indicators, weights the sliders
allow, and colours; and `UnreadableThresholdNeverFires`, hence what `getThreshold`
stores for an unreadable threshold is never reached. The others hold of every
state, from the invariant `ConfigInv`: each list is `Sound` (one strategy per key,
every threshold entered by the user or 999), and while the file can be read, the
Monitor's copy and the open screen's are what is in it. Without the last part a save
could write back an old list.
* `TypeCorrect`: a list is no longer than there are keys (`ListLength`, by the
  injection from positions to keys; the set of pairs is assumed finite).
* `ScreenAlwaysAgrees` (`ScreenAgreesWithLabels`): the labels take the first
  strategy of a key and the screen the last one, which is the same in a sound list
  (`OnlyOfKey`).
* `UnreadableStrategiesNeverFire` (`UnreadableNeverFires`).
* `ConfigImplementsStore` (`ImplementsStore`): each press of SAVE stores what its
  screen shows under the key of its screen and nothing else, changes nothing, or loses
  all, as `lastSave` says; and the screen opens with what the store has.

What the filter of `saveToDefault` returns for a list of any length is
`FilterSelects`, by the shortest beginning of the list for which it would return
something else (`LoopExists`, `LoopSelects`).

Every safety invariant, action property and refinement that a passing run checks
has its theorem. Only model-checked:
* liveness (`RequestsTakeEffect`, `SettlesWhenLeftAlone`): fairness and ENABLED are
  beyond the prover;
* the five counterexamples of *Disagreements*, which are behaviours TLC finds.

## 5. Limits of the models

* In `FollowList` an operation is in force as soon as FCM has taken it over; what the
  list of batches does to the order of operations is in `PendingTopics`. The two are
  not composed.
* `PendingTopics` runs with two batches: an operation pending twice needs three and is
  left to the proof (`ListImplementsRegister`, for any number).
* Devices: one installation. Purchases on another device are external.
* Times are not numbers: a receipt is expired or not, a timeout is an answer.
* Rounding of `Float` is left out of `Indicators`; a comparison that is decided
  by the last bit may come out otherwise in the app.
* Undefined behaviour is limited to what it usually comes to: the steps of the
  threads in some order, or the end of the process. That a copy of `im` is torn, or
  that `calculateAll` reads its four series and sets its 25 indicators while they
  change, is not taken apart further: each is one step.
* `CrashHasCause` leaves open the end at a missing field and at a forced cast of a
  malformed entry: these end the app whatever else happens. A malformed entry of the
  database is not modelled.

## 6. What is left

1. `FollowList` over `PendingTopics`: the app's promise with the real order of
   operations. The state space of the two together is beyond the bounds above;
   it needs an abstraction of the batches that keeps `overtaken`.
2. Proofs: what remains of the properties is liveness. The safety part of
   `SettlesWhenLeftAlone` could be proved as a measure: without new operations the
   number of pending ones never grows.
