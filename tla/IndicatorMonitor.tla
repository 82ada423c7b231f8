--------------------------- MODULE IndicatorMonitor ---------------------------
(***************************************************************************)
(* The Monitor tab: MonitorViewController on the main thread, and one      *)
(* IndicatorManager whose model "im" every response handler works on.      *)
(* performRequest makes a URLSession of its own, so the handlers of two    *)
(* requests run on two background threads; nothing synchronizes them with  *)
(* each other or with the main thread.                                     *)
(*                                                                         *)
(* Data is modelled by where it comes from: a rate by its currency pair,   *)
(* the indicators by the pairs of the series they were calculated from, a  *)
(* signal label by the pairs it is about and the strategies it followed.   *)
(***************************************************************************)
EXTENDS Integers, SequencesExt

CONSTANTS
  Pairs,         \* K.CurrencyPairs
  FirstPair,     \* "EURUSD", the pair of a new IndicatorManager
  Versions,      \* contents Strategies.plist may have
  NoStrategies,  \* no file: an empty list
  Requests,      \* bound: requests a process makes
  MaxUpdates,    \* bound: screen updates waiting for the main queue
  Nothing        \* no rate; nothing on the screen yet

ASSUME IndicatorMonitorAssumption ==
  /\ FirstPair \in Pairs /\ Nothing \notin Pairs
  /\ NoStrategies \in Versions
  /\ MaxUpdates \in Nat

VARIABLES
  running,          \* the process is alive
  savedStrategies,  \* Strategies.plist
  strategies,       \* indicatorM.strategies
  currency,         \* im.currency, also the title of the selector button
  closeTs,          \* im.closeTs, and the three series filled with it
  indicators,       \* the 25 indicators of im
  buySignal,        \* im.buySignal
  sellSignal,       \* im.sellSignal
  requests,         \* what each request and its handler have come to
  updates,          \* copies of im waiting for DispatchQueue.main
  shown,            \* the copy the screen shows
  crashed,          \* history: how the process ended, if not by the user
  overlap,          \* history: a request was made with another one under way
  short,            \* history: an answer had too few rates since nothing was under way
  stale,            \* history: a handler had read the strategies the last save replaced
  answered          \* history: a request made since the last save was delivered

imVars == <<currency, closeTs, indicators, buySignal, sellSignal>>
historyVars == <<crashed, overlap, short, stale, answered>>
vars == <<running, savedStrategies, strategies, imVars, requests, updates, shown, historyVars>>

-----------------------------------------------------------------------------
Series == Seq(Pairs)
Signals == [about : SUBSET Pairs, strategies : Versions]

\* Of a copy of im: its newest rate, unless it has fewer than two, and what
\* its indicators and labels are about.
Models == [pair : Pairs, rate : Pairs \cup {Nothing}, about : SUBSET Pairs,
           buy : Versions, sell : Versions]

\* A request with what is local to its handler: the answer, known by the pair
\* asked for; a label not yet set; a copy of im not yet dispatched.
Requested ==
  [stage : {"sent", "cleared"}, fresh : BOOLEAN, local : Pairs]
    \cup [stage : {"unmade", "parsed", "calculated", "bought", "labelled", "done"},
          fresh : BOOLEAN, local : {Nothing}]
    \cup [stage : {"buyRead", "sellRead"}, fresh : BOOLEAN, local : Signals]
    \cup [stage : {"copied"}, fresh : BOOLEAN, local : Models]

\* A request not made yet, one made for p, and one whose handler returned.
Unmade == [stage |-> "unmade", fresh |-> FALSE, local |-> Nothing]
Sent(p, fresh) == [stage |-> "sent", fresh |-> fresh, local |-> p]
Done == [stage |-> "done", fresh |-> FALSE, local |-> Nothing]

UnderWay(r) == requests[r].stage \notin {"unmade", "done"}

\* The answer may be there: the handler works on im until it has its copy.
Working(r) == UnderWay(r) /\ requests[r].stage # "copied"

\* A new IndicatorModel: gray indicators, labels "N/A".
NoSignal == [about |-> {}, strategies |-> NoStrategies]

Busy == updates # <<>> \/ \E r \in Requests : UnderWay(r)

\* The requests once a save made every one under way an old one.
Older == [r \in Requests |-> [requests[r] EXCEPT !.fresh = FALSE]]

\* A handler has read strategies and not yet delivered what it made of them.
StrategiesRead ==
  \E r \in Requests : requests[r].stage \in {"buyRead", "bought", "sellRead", "labelled", "copied"}

Init ==
  /\ running = FALSE
  /\ savedStrategies = NoStrategies /\ strategies = NoStrategies
  /\ currency = FirstPair /\ closeTs = <<>> /\ indicators = {}
  /\ buySignal = NoSignal /\ sellSignal = NoSignal
  /\ requests = [r \in Requests |-> Unmade]
  /\ updates = <<>> /\ shown = Nothing
  /\ crashed = "no" /\ overlap = FALSE /\ short = FALSE /\ stale = FALSE /\ answered = FALSE

\* performRequest for the pair p, the others being as in others.
PerformRequest(p, others) ==
  /\ \E r \in Requests : /\ requests[r].stage = "unmade"
                         /\ requests' = [others EXCEPT ![r] = Sent(p, ~stale')]
  /\ overlap' = Busy
  /\ short' = (short /\ Busy)

\* The Monitor tab of a new process: viewDidLoad loads the strategies and
\* requests the first pair.
Launch ==
  /\ ~running
  /\ running' = TRUE
  /\ strategies' = savedStrategies
  /\ stale' = FALSE
  /\ PerformRequest(FirstPair, requests)
  /\ crashed' = "no"
  /\ UNCHANGED <<savedStrategies, imVars, updates, shown, answered>>

\* Mutant: the request is made before the pair is set.
CurrencySelected_RequestFirst(p) ==
  /\ running
  /\ currency' = p
  /\ stale' = (stale /\ Busy)
  /\ PerformRequest(currency, requests)
  /\ UNCHANGED <<running, savedStrategies, strategies, closeTs, indicators, buySignal, sellSignal,
                 updates, shown, crashed, answered>>

\* The selection action of the drop-down: setCurrency, performRequest.
CurrencySelected(p) ==
  /\ running
  /\ currency' = p
  /\ stale' = (stale /\ Busy)
  /\ PerformRequest(p, requests)
  /\ UNCHANGED <<running, savedStrategies, strategies, closeTs, indicators, buySignal, sellSignal,
                 updates, shown, crashed, answered>>

RefreshButtonPressed ==
  /\ running
  /\ strategies' = savedStrategies
  /\ stale' = (stale /\ Busy)
  /\ PerformRequest(currency, requests)
  /\ UNCHANGED <<running, savedStrategies, imVars, updates, shown, crashed, answered>>

\* Mutant: the new strategies are not loaded.
SaveButtonPressed_NoLoad(v) ==
  /\ running
  /\ savedStrategies' = v
  /\ stale' = StrategiesRead /\ answered' = FALSE
  /\ PerformRequest(currency, Older)
  /\ UNCHANGED <<running, strategies, imVars, updates, shown, crashed>>

\* saveButtonPressed of the setup screen: saveToDefault, then reloadData of
\* the Monitor, which loads the file and requests again.
SaveButtonPressed(v) ==
  /\ running
  /\ savedStrategies' = v
  /\ strategies' = v
  /\ stale' = StrategiesRead /\ answered' = FALSE
  /\ PerformRequest(currency, Older)
  /\ UNCHANGED <<running, imVars, updates, shown, crashed>>

-----------------------------------------------------------------------------
(* handle(data:response:error:), one step per access to what it shares *)

\* The handler of r goes from one stage to the next with a local value.
Moves(r, from, to, local) ==
  /\ running /\ requests[r].stage = from
  /\ requests' = [requests EXCEPT ![r] =
                    IF to = "done" THEN Done
                    ELSE [stage |-> to, fresh |-> @.fresh, local |-> local]]

mainVars == <<running, savedStrategies, strategies, currency, shown, crashed, overlap, stale>>

\* An error: the handler returns.
RespondError(r) ==
  /\ Moves(r, "sent", "done", Nothing)
  /\ UNCHANGED <<mainVars, closeTs, indicators, buySignal, sellSignal, updates, short, answered>>

\* Mutant: the series are not cleared.
Clear_Keep(r) ==
  /\ Moves(r, "sent", "cleared", requests[r].local)
  /\ UNCHANGED <<mainVars, closeTs, indicators, buySignal, sellSignal, updates, short, answered>>

Clear(r) ==
  /\ Moves(r, "sent", "cleared", requests[r].local)
  /\ closeTs' = <<>>
  /\ UNCHANGED <<mainVars, indicators, buySignal, sellSignal, updates, short, answered>>

\* parseJson appends every date of the answer to the series: none, one or,
\* standing for all the others, two.
ParseJson(r) ==
  /\ Moves(r, "cleared", "parsed", Nothing)
  /\ LET p == requests[r].local IN
     \E rates \in {<<>>, <<p>>, <<p, p>>} :
       /\ closeTs' = closeTs \o rates
       /\ short' = (short \/ Len(rates) < 2)
  /\ UNCHANGED <<mainVars, indicators, buySignal, sellSignal, updates, answered>>

\* Mutant: the handler goes on after parseJson failed.
ParseFails_GoOn(r) ==
  /\ Moves(r, "cleared", "parsed", Nothing)
  /\ UNCHANGED <<mainVars, closeTs, indicators, buySignal, sellSignal, updates, short, answered>>

\* The answer is no FXData, a "Note" that the API was called too often: the
\* handler returns and leaves the series empty.
ParseFails(r) ==
  /\ Moves(r, "cleared", "done", Nothing)
  /\ UNCHANGED <<mainVars, closeTs, indicators, buySignal, sellSignal, updates, short, answered>>

CalculateAll(r) ==
  /\ Moves(r, "parsed", "calculated", Nothing)
  /\ closeTs # <<>>
  /\ indicators' = ToSet(closeTs)
  /\ UNCHANGED <<mainVars, closeTs, buySignal, sellSignal, updates, short, answered>>

\* What getBuySignalLabel and getSellSignalLabel return now.
SignalLabel == [about |-> {currency} \cup indicators, strategies |-> strategies]

GetBuySignalLabel(r) ==
  /\ Moves(r, "calculated", "buyRead", SignalLabel)
  /\ UNCHANGED <<mainVars, closeTs, indicators, buySignal, sellSignal, updates, short, answered>>

SetBuySignal(r) ==
  /\ Moves(r, "buyRead", "bought", Nothing)
  /\ buySignal' = requests[r].local
  /\ UNCHANGED <<mainVars, closeTs, indicators, sellSignal, updates, short, answered>>

GetSellSignalLabel(r) ==
  /\ Moves(r, "bought", "sellRead", SignalLabel)
  /\ UNCHANGED <<mainVars, closeTs, indicators, buySignal, sellSignal, updates, short, answered>>

SetSellSignal(r) ==
  /\ Moves(r, "sellRead", "labelled", Nothing)
  /\ sellSignal' = requests[r].local
  /\ UNCHANGED <<mainVars, closeTs, indicators, buySignal, updates, short, answered>>

\* The delegate is called with a copy of im ...
Model == [pair |-> currency,
          rate |-> IF Len(closeTs) < 2 THEN Nothing ELSE Last(closeTs),
          about |-> indicators \cup buySignal.about \cup sellSignal.about,
          buy |-> buySignal.strategies, sell |-> sellSignal.strategies]

CopyModel(r) ==
  /\ Moves(r, "labelled", "copied", Model)
  /\ UNCHANGED <<mainVars, closeTs, indicators, buySignal, sellSignal, updates, short, answered>>

\* ... and dispatches it to the main queue.
DidUpdateIndicators(r) ==
  /\ Len(updates) < MaxUpdates
  /\ Moves(r, "copied", "done", Nothing)
  /\ updates' = Append(updates, requests[r].local)
  /\ answered' = (answered \/ requests[r].fresh)
  /\ UNCHANGED <<mainVars, closeTs, indicators, buySignal, sellSignal, short>>

-----------------------------------------------------------------------------
\* The main queue shows the next copy, which must have the last two rates.
ShowUpdate ==
  /\ running /\ updates # <<>> /\ Head(updates).rate # Nothing
  /\ shown' = Head(updates)
  /\ updates' = Tail(updates)
  /\ UNCHANGED <<running, savedStrategies, strategies, imVars, requests, historyVars>>

\* The file is all that the end of the process leaves.
Die(how) ==
  /\ running' = FALSE /\ crashed' = how
  /\ strategies' = NoStrategies
  /\ currency' = FirstPair /\ closeTs' = <<>> /\ indicators' = {}
  /\ buySignal' = NoSignal /\ sellSignal' = NoSignal
  /\ requests' = [r \in Requests |-> Unmade] /\ updates' = <<>> /\ shown' = Nothing
  /\ stale' = FALSE /\ answered' = FALSE
  /\ UNCHANGED short

Quit ==
  /\ running
  /\ Die("no")
  /\ UNCHANGED <<savedStrategies, overlap>>

\* generateData counts from 0 to -1, or updateRateLine reads at index -1.
OutOfRange ==
  /\ running
  /\ \/ closeTs = <<>> /\ \E r \in Requests : requests[r].stage = "parsed"
     \/ updates # <<>> /\ Head(updates).rate = Nothing
  /\ Die("range")
  /\ UNCHANGED <<savedStrategies, overlap>>

\* parseJson unwraps a field that the answer, an FXData, does not have.
UnwrapsNil ==
  /\ running
  /\ \E r \in Requests : requests[r].stage = "cleared"
  /\ Die("unwrap")
  /\ UNCHANGED <<savedStrategies, overlap>>

\* Two handlers access im at a time: the order of the steps above is one
\* outcome, the end of the process is another.
HandlersRace ==
  /\ running
  /\ \E r1, r2 \in Requests :
       r1 # r2 /\ Working(r1) /\ Working(r2)
  /\ Die("race")
  /\ UNCHANGED <<savedStrategies, overlap>>

\* The main thread sets the pair or the strategies while a handler reads them.
MainRaces ==
  /\ running
  /\ \E r \in Requests : Working(r)
  /\ Die("race")
  /\ overlap' = TRUE
  /\ savedStrategies' \in {savedStrategies} \cup (Versions \ {NoStrategies})

Handle(r) ==
  \/ RespondError(r) \/ Clear(r) \/ ParseJson(r) \/ ParseFails(r)
  \/ CalculateAll(r) \/ GetBuySignalLabel(r) \/ SetBuySignal(r)
  \/ GetSellSignalLabel(r) \/ SetSellSignal(r) \/ CopyModel(r) \/ DidUpdateIndicators(r)

Next ==
  \/ Launch \/ Quit \/ RefreshButtonPressed
  \/ \E p \in Pairs : CurrencySelected(p)
  \/ \E v \in Versions \ {NoStrategies} : SaveButtonPressed(v)
  \/ \E r \in Requests : Handle(r)
  \/ ShowUpdate \/ OutOfRange \/ UnwrapsNil \/ HandlersRace \/ MainRaces

Spec == Init /\ [][Next]_vars

-----------------------------------------------------------------------------
(* Properties *)

\* A handler clears the series before it appends to them: alone, it calculates
\* from its own answer, of two rates.
TypeOK ==
  /\ running \in BOOLEAN
  /\ savedStrategies \in Versions /\ strategies \in Versions
  /\ currency \in Pairs
  /\ closeTs \in Series
  /\ ~overlap /\ (\E r \in Requests : requests[r].stage = "parsed") => Len(closeTs) <= 2
  /\ indicators \subseteq Pairs /\ buySignal \in Signals /\ sellSignal \in Signals
  /\ requests \in [Requests -> Requested]
  /\ updates \in Seq(Models)
  /\ shown \in Models \cup {Nothing}
  /\ crashed \in {"no", "race", "range", "unwrap"}
  /\ overlap \in BOOLEAN /\ short \in BOOLEAN /\ stale \in BOOLEAN /\ answered \in BOOLEAN

\* What a model shows belongs together: rate, indicators and labels are of the
\* pair p, the labels under the strategies v.
Coherent(m, p, v) ==
  /\ m.pair = p /\ m.rate = p /\ m.about = {p}
  /\ m.buy = v /\ m.sell = v

\* A user who waits for each answer always sees the selected pair under the
\* strategies of the file: the shared model goes wrong by overlap only.
UndisturbedUpdateIsRight ==
  [][updates # <<>> /\ shown' # shown /\ running' /\ ~overlap
       => Coherent(shown', currency, savedStrategies)]_vars

\* For a user who waits for each answer the app ends by itself over two kinds
\* of answer only: an FXData without a field that is unwrapped, and one with
\* fewer than two rates.  It never ends over an answer that is no FXData.
CrashHasCause ==
  /\ crashed = "race" => overlap
  /\ crashed = "range" => overlap \/ short

\* The strategies saved last decide both labels once a request made since has
\* been delivered, whatever older requests still bring, unless one of these
\* had read its strategies when Save was pressed: then the request must be
\* made after nothing is under way any more.
SavedStrategyReachesScreen ==
  running /\ answered /\ updates = <<>> =>
    shown.buy = savedStrategies /\ shown.sell = savedStrategies

\* monitorViewMessage: "Click refresh button or switch currency pair to get
\* up-to-date exchange rate".  With nothing under way any more, the rate on
\* the screen is one of the pair it names.
RateIsOfItsPair ==
  running /\ ~Busy /\ shown # Nothing => shown.rate = shown.pair

=============================================================================
