------------------------ MODULE IndicatorMonitorProofs ------------------------
(***************************************************************************)
(* Proofs about the Monitor tab, for any currency pairs, strategies and    *)
(* number of requests.                                                     *)
(***************************************************************************)
EXTENDS IndicatorMonitor, SequenceTheorems, TLAPS

USE IndicatorMonitorAssumption

\* TypeOK without what it says of the length of the series.
Types ==
  /\ running \in BOOLEAN
  /\ savedStrategies \in Versions /\ strategies \in Versions
  /\ currency \in Pairs
  /\ closeTs \in Series
  /\ indicators \subseteq Pairs /\ buySignal \in Signals /\ sellSignal \in Signals
  /\ requests \in [Requests -> Requested]
  /\ updates \in Seq(Models)
  /\ shown \in Models \cup {Nothing}
  /\ crashed \in {"no", "race", "range", "unwrap"}
  /\ overlap \in BOOLEAN /\ short \in BOOLEAN /\ stale \in BOOLEAN /\ answered \in BOOLEAN

-----------------------------------------------------------------------------
(* Types *)

LEMMA RequestTypes ==
  /\ Unmade \in Requested /\ Unmade.stage = "unmade"
  /\ Done \in Requested /\ Done.stage = "done"
  /\ \A p \in Pairs, fresh \in BOOLEAN :
       /\ Sent(p, fresh) \in Requested /\ Sent(p, fresh).stage = "sent"
       /\ Sent(p, fresh).local = p /\ Sent(p, fresh).fresh = fresh
  /\ NoSignal \in Signals
  BY DEF Unmade, Done, Sent, Requested, NoSignal, Signals

\* What is local to a handler, by its stage.
LEMMA LocalTypes ==
  ASSUME Types, NEW r \in Requests
  PROVE  /\ requests[r] \in Requested /\ requests[r].fresh \in BOOLEAN
         /\ requests[r].stage \in {"sent", "cleared"} => requests[r].local \in Pairs
         /\ requests[r].stage \in {"buyRead", "sellRead"} => requests[r].local \in Signals
         /\ requests[r].stage = "copied" => requests[r].local \in Models
<1>1. requests[r] \in Requested
  BY DEF Types
<1> QED
  BY <1>1 DEF Requested

LEMMA OlderType ==
  ASSUME Types
  PROVE  /\ Older \in [Requests -> Requested]
         /\ \A r \in Requests : /\ Older[r].stage = requests[r].stage
                                /\ Older[r].local = requests[r].local
                                /\ Older[r].fresh = FALSE
<1>1. \A q \in Requested : LET o == [q EXCEPT !.fresh = FALSE] IN
        o \in Requested /\ o.stage = q.stage /\ o.local = q.local /\ o.fresh = FALSE
  BY DEF Requested
<1> QED
  BY <1>1 DEF Types, Older

\* What a step of a handler does to the requests.
LEMMA MovesLemma ==
  ASSUME Types, NEW r \in Requests, NEW from, NEW to, NEW local, Moves(r, from, to, local)
  PROVE  /\ running /\ requests[r].stage = from
         /\ requests'[r].stage = to
         /\ to # "done" => /\ requests'[r].fresh = requests[r].fresh
                           /\ requests'[r].local = local
         /\ to = "done" => requests'[r] = Done
         /\ \A q \in Requests : q # r => requests'[q] = requests[q]
         /\ to = "done" \/ [stage |-> to, fresh |-> requests[r].fresh, local |-> local] \in Requested
              => requests' \in [Requests -> Requested]
<1> DEFINE moved == [stage |-> to, fresh |-> requests[r].fresh, local |-> local]
<1>1. requests \in [Requests -> Requested] /\ requests[r] \in Requested
  BY DEF Types
<1>3. requests' = [requests EXCEPT ![r] = IF to = "done" THEN Done ELSE moved]
  BY DEF Moves
<1>4. moved.stage = to /\ moved.fresh = requests[r].fresh /\ moved.local = local
  OBVIOUS
<1>5. moved \in Requested <=>
        [stage |-> to, fresh |-> requests[r].fresh, local |-> local] \in Requested
  OBVIOUS
<1> HIDE DEF moved
<1> QED
  BY <1>1, <1>3, <1>4, <1>5, RequestTypes DEF Moves

\* The same, for a step that leaves the handler at work.
LEMMA MovesOnLemma ==
  ASSUME Types, NEW r \in Requests, NEW from, NEW to, NEW local, Moves(r, from, to, local),
         to # "done"
  PROVE  requests[r].stage = from /\ requests'[r].stage = to /\ requests'[r].local = local
<1> DEFINE moved == [stage |-> to, fresh |-> requests[r].fresh, local |-> local]
<1>1. requests \in [Requests -> Requested]
  BY DEF Types
<1>2. requests' = [requests EXCEPT ![r] = moved] /\ requests[r].stage = from
  BY DEF Moves
<1>3. moved.stage = to /\ moved.local = local
  OBVIOUS
<1> HIDE DEF moved
<1> QED
  BY <1>1, <1>2, <1>3

\* What a new request does to the others.
LEMMA PerformRequestLemma ==
  ASSUME NEW p \in Pairs, NEW others \in [Requests -> Requested], PerformRequest(p, others),
         stale' \in BOOLEAN, short \in BOOLEAN
  PROVE  /\ requests' \in [Requests -> Requested]
         /\ overlap' = Busy /\ overlap' \in BOOLEAN
         /\ short' = (short /\ Busy) /\ short' \in BOOLEAN
         /\ \E r \in Requests : /\ requests[r].stage = "unmade"
                                /\ requests'[r] = Sent(p, ~stale')
                                /\ \A q \in Requests : q # r => requests'[q] = others[q]
<1>1. (~stale') \in BOOLEAN
  OBVIOUS
<1>2. Sent(p, ~stale') \in Requested
  BY <1>1, RequestTypes
<1>3. PICK r \in Requests : /\ requests[r].stage = "unmade"
                            /\ requests' = [others EXCEPT ![r] = Sent(p, ~stale')]
  BY DEF PerformRequest
<1>4. Busy \in BOOLEAN
  BY DEF Busy
<1>5. overlap' = Busy /\ short' = (short /\ Busy)
  BY DEF PerformRequest
<1> QED
  BY <1>2, <1>3, <1>4, <1>5

LEMMA TypesInit == Init => Types
<1> SUFFICES ASSUME Init PROVE Types
  OBVIOUS
<1>1. requests \in [Requests -> Requested]
  BY RequestTypes DEF Init
<1>2. closeTs \in Series /\ updates \in Seq(Models)
  BY EmptySeq DEF Init, Series
<1>3. buySignal \in Signals /\ sellSignal \in Signals
  BY RequestTypes DEF Init
<1> QED
  BY <1>1, <1>2, <1>3 DEF Init, Types

LEMMA DieTypes ==
  ASSUME Types, NEW how \in {"no", "race", "range", "unwrap"}, Die(how),
         savedStrategies' \in Versions, overlap' \in BOOLEAN
  PROVE  Types'
  BY RequestTypes, EmptySeq DEF Die, Types, Series

\* The steps of a handler before it calculates.
LEMMA AnswerTypes ==
  ASSUME Types, NEW r \in Requests,
         RespondError(r) \/ Clear(r) \/ ParseJson(r) \/ ParseFails(r)
  PROVE  Types'
<1>0. [stage |-> "parsed", fresh |-> requests[r].fresh, local |-> Nothing] \in Requested
  BY LocalTypes DEF Requested
<1>1. CASE RespondError(r) \/ ParseFails(r)
  <2>1. requests' \in [Requests -> Requested]
    BY <1>1, MovesLemma DEF RespondError, ParseFails
  <2> QED
    BY <1>1, <2>1 DEF RespondError, ParseFails, mainVars, Types
<1>2. CASE Clear(r)
  <2>1. Moves(r, "sent", "cleared", requests[r].local) /\ requests[r].stage = "sent"
    BY <1>2 DEF Clear, Moves
  <2>2. [stage |-> "cleared", fresh |-> requests[r].fresh, local |-> requests[r].local] \in Requested
    BY <2>1, LocalTypes DEF Requested
  <2>3. requests' \in [Requests -> Requested]
    BY <2>1, <2>2, MovesLemma
  <2> QED
    BY <1>2, <2>3, EmptySeq DEF Clear, mainVars, Types, Series
<1>3. CASE ParseJson(r)
  <2>1. Moves(r, "cleared", "parsed", Nothing) /\ requests[r].stage = "cleared"
    BY <1>3 DEF ParseJson, Moves
  <2>2. requests' \in [Requests -> Requested] /\ requests[r].local \in Pairs
    BY <1>0, <2>1, MovesLemma, LocalTypes
  <2>3. PICK rates \in {<<>>, <<requests[r].local>>, <<requests[r].local, requests[r].local>>} :
          closeTs' = closeTs \o rates /\ short' = (short \/ Len(rates) < 2)
    BY <1>3 DEF ParseJson
  <2>4. rates \in Seq(Pairs)
    <3>1. PICK p \in Pairs : p = requests[r].local
      BY <2>2
    <3>2. <<>> \in Seq(Pairs) /\ <<p>> \in Seq(Pairs) /\ <<p, p>> \in Seq(Pairs)
      OBVIOUS
    <3> QED
      BY <3>1, <3>2
  <2>5. closeTs' \in Series
    BY <2>3, <2>4, ConcatProperties DEF Types, Series
  <2> QED
    BY <1>3, <2>2, <2>3, <2>5 DEF ParseJson, mainVars, Types
<1> QED
  BY <1>1, <1>2, <1>3

\* Its other steps.
LEMMA LabelTypes ==
  ASSUME Types, NEW r \in Requests,
         \/ CalculateAll(r) \/ GetBuySignalLabel(r) \/ SetBuySignal(r)
         \/ GetSellSignalLabel(r) \/ SetSellSignal(r) \/ CopyModel(r) \/ DidUpdateIndicators(r)
  PROVE  Types'
<1>0. \A to \in {"calculated", "bought", "labelled"} :
        [stage |-> to, fresh |-> requests[r].fresh, local |-> Nothing] \in Requested
  BY LocalTypes DEF Requested
<1>1. CASE CalculateAll(r)
  <2>1. requests' \in [Requests -> Requested]
    BY <1>0, <1>1, MovesLemma DEF CalculateAll
  <2>2. ToSet(closeTs) \subseteq Pairs
    BY ElementOfSeq, LenProperties DEF Types, Series, ToSet
  <2> QED
    BY <1>1, <2>1, <2>2 DEF CalculateAll, mainVars, Types
<1>2. CASE GetBuySignalLabel(r) \/ GetSellSignalLabel(r)
  <2>1. SignalLabel \in Signals
    BY DEF SignalLabel, Signals, Types
  <2> HIDE DEF SignalLabel
  <2>2. \A to \in {"buyRead", "sellRead"} :
          [stage |-> to, fresh |-> requests[r].fresh, local |-> SignalLabel] \in Requested
    BY <2>1, LocalTypes DEF Requested
  <2>3. requests' \in [Requests -> Requested]
    BY <1>2, <2>2, MovesLemma DEF GetBuySignalLabel, GetSellSignalLabel
  <2> QED
    BY <1>2, <2>3 DEF GetBuySignalLabel, GetSellSignalLabel, mainVars, Types
<1>3. CASE SetBuySignal(r) \/ SetSellSignal(r)
  <2>1. requests' \in [Requests -> Requested]
    BY <1>0, <1>3, MovesLemma DEF SetBuySignal, SetSellSignal
  <2>2. requests[r].local \in Signals
    BY <1>3, LocalTypes DEF SetBuySignal, SetSellSignal, Moves
  <2> QED
    BY <1>3, <2>1, <2>2 DEF SetBuySignal, SetSellSignal, mainVars, Types
<1>4. CASE CopyModel(r)
  <2>1. Model \in Models
    <3>1. Len(closeTs) \in Nat /\ (Len(closeTs) >= 2 => Last(closeTs) \in Pairs)
      BY ElementOfSeq, LenProperties DEF Types, Series, Last
    <3> QED
      BY <3>1 DEF Model, Models, Types, Signals
  <2> HIDE DEF Model
  <2>2. [stage |-> "copied", fresh |-> requests[r].fresh, local |-> Model] \in Requested
    BY <2>1, LocalTypes DEF Requested
  <2>3. requests' \in [Requests -> Requested]
    BY <1>4, <2>2, MovesLemma DEF CopyModel
  <2> QED
    BY <1>4, <2>3 DEF CopyModel, mainVars, Types
<1>5. CASE DidUpdateIndicators(r)
  <2>1. requests' \in [Requests -> Requested]
    BY <1>5, MovesLemma DEF DidUpdateIndicators
  <2>2. requests[r].local \in Models /\ requests[r].fresh \in BOOLEAN
    BY <1>5, LocalTypes DEF DidUpdateIndicators, Moves
  <2>3. updates' \in Seq(Models)
    BY <1>5, <2>2, AppendProperties DEF DidUpdateIndicators, Types
  <2> QED
    BY <1>5, <2>1, <2>2, <2>3 DEF DidUpdateIndicators, mainVars, Types
<1> QED
  BY <1>1, <1>2, <1>3, <1>4, <1>5

LEMMA HandleTypes ==
  ASSUME Types, NEW r \in Requests, Handle(r)
  PROVE  Types'
  BY AnswerTypes, LabelTypes DEF Handle

LEMMA TypesNext ==
  ASSUME Types, [Next]_vars
  PROVE  Types'
<1>0. Busy \in BOOLEAN /\ StrategiesRead \in BOOLEAN /\ stale \in BOOLEAN /\ short \in BOOLEAN
  BY DEF Busy, StrategiesRead, Types
<1>1. CASE Launch
  <2>1. stale' = FALSE
    BY <1>1 DEF Launch
  <2>2. requests' \in [Requests -> Requested] /\ overlap' \in BOOLEAN /\ short' \in BOOLEAN
    BY <1>0, <1>1, <2>1, PerformRequestLemma DEF Launch, Types
  <2> QED
    BY <1>1, <2>1, <2>2 DEF Launch, imVars, Types
<1>2. CASE RefreshButtonPressed
  <2>1. stale' \in BOOLEAN
    BY <1>0, <1>2 DEF RefreshButtonPressed
  <2>2. requests' \in [Requests -> Requested] /\ overlap' \in BOOLEAN /\ short' \in BOOLEAN
    BY <1>0, <1>2, <2>1, PerformRequestLemma DEF RefreshButtonPressed, Types
  <2> QED
    BY <1>2, <2>1, <2>2 DEF RefreshButtonPressed, imVars, Types
<1>3. ASSUME NEW p \in Pairs, CurrencySelected(p)
      PROVE  Types'
  <2>1. stale' \in BOOLEAN
    BY <1>0, <1>3 DEF CurrencySelected
  <2>2. requests' \in [Requests -> Requested] /\ overlap' \in BOOLEAN /\ short' \in BOOLEAN
    BY <1>0, <1>3, <2>1, PerformRequestLemma DEF CurrencySelected, Types
  <2> QED
    BY <1>3, <2>1, <2>2 DEF CurrencySelected, Types
<1>4. ASSUME NEW v \in Versions, SaveButtonPressed(v)
      PROVE  Types'
  <2>1. stale' \in BOOLEAN
    BY <1>0, <1>4 DEF SaveButtonPressed
  <2>2. requests' \in [Requests -> Requested] /\ overlap' \in BOOLEAN /\ short' \in BOOLEAN
    BY <1>0, <1>4, <2>1, PerformRequestLemma, OlderType DEF SaveButtonPressed, Types
  <2> QED
    BY <1>4, <2>1, <2>2 DEF SaveButtonPressed, imVars, Types
<1>5. CASE ShowUpdate
  <2>1. Head(updates) \in Models /\ Tail(updates) \in Seq(Models)
    BY <1>5, HeadTailProperties DEF ShowUpdate, Types
  <2> QED
    BY <1>5, <2>1 DEF ShowUpdate, imVars, historyVars, Types
<1>6. CASE Quit \/ OutOfRange \/ UnwrapsNil \/ HandlersRace \/ MainRaces
  <2>1. savedStrategies' \in Versions /\ overlap' \in BOOLEAN
    BY <1>6 DEF Quit, OutOfRange, UnwrapsNil, HandlersRace, MainRaces, Types
  <2> QED
    BY <1>6, <2>1, DieTypes DEF Quit, OutOfRange, UnwrapsNil, HandlersRace, MainRaces
<1>7. CASE UNCHANGED vars
  BY <1>7 DEF vars, imVars, historyVars, Types
<1> QED
  BY <1>1, <1>2, <1>3, <1>4, <1>5, <1>6, <1>7, HandleTypes DEF Next

-----------------------------------------------------------------------------
(* What the steps of one undisturbed request do to the shared model *)

\* The end of the process leaves nothing under way.
Ended ==
  ~running => /\ ~answered /\ ~stale /\ updates = <<>> /\ currency = FirstPair
              /\ \A r \in Requests : ~UnderWay(r)

\* Every way of changing the file also loads it; a new process forgets how
\* the one before it ended.
Loaded == running => strategies = savedStrategies /\ crashed = "no"

\* The label of an undisturbed request, and a copy of the model it made.
Right == [about |-> {currency}, strategies |-> savedStrategies]
RightModel(m) ==
  /\ m.pair = currency /\ m.about = {currency}
  /\ m.buy = savedStrategies /\ m.sell = savedStrategies
  /\ m.rate = currency \/ (m.rate = Nothing /\ short)

\* The series of an undisturbed request.
OwnSeries ==
  /\ closeTs \in {<<>>, <<currency>>, <<currency, currency>>}
  /\ Len(closeTs) < 2 => short

\* The model holds what the stages of the handler of r put there.
OwnModel(r) ==
  /\ requests[r].stage \in {"sent", "cleared"} => requests[r].local = currency
  /\ requests[r].stage = "cleared" => closeTs = <<>>
  /\ requests[r].stage \in {"parsed", "calculated", "buyRead", "bought", "sellRead", "labelled"}
       => OwnSeries
  /\ requests[r].stage \in {"calculated", "buyRead", "bought", "sellRead", "labelled"}
       => indicators = {currency}
  /\ requests[r].stage \in {"buyRead", "sellRead"} => requests[r].local = Right
  /\ requests[r].stage \in {"bought", "sellRead", "labelled"} => buySignal = Right
  /\ requests[r].stage = "labelled" => sellSignal = Right
  /\ requests[r].stage = "copied" => RightModel(requests[r].local)

\* The request r is the only thing under way.
Alone(r) ==
  /\ UnderWay(r) /\ updates = <<>>
  /\ \A q \in Requests : q # r => ~UnderWay(q)
  /\ OwnModel(r)

\* Every handler has ended, and at most one copy waits for the main queue.
Delivered ==
  /\ \A r \in Requests : ~UnderWay(r)
  /\ updates = <<>> \/ \E m \in Models : updates = <<m>> /\ RightModel(m)

Solo == running /\ ~overlap => Delivered \/ \E r \in Requests : Alone(r)

SoloInv == Types /\ Ended /\ Loaded /\ Solo /\ CrashHasCause

\* A request made with nothing under way is alone.
LEMMA PerformRequestAlone ==
  ASSUME Types, NEW p \in Pairs, NEW others \in [Requests -> Requested],
         \A q \in Requests : others[q].stage = requests[q].stage,
         PerformRequest(p, others), stale' \in BOOLEAN, currency' = p, updates' = updates
  PROVE  ~overlap' => \E r \in Requests : Alone(r)'
<1> SUFFICES ASSUME ~overlap' PROVE \E r \in Requests : Alone(r)'
  OBVIOUS
<1>0. short \in BOOLEAN
  BY DEF Types
<1>1. updates = <<>> /\ \A q \in Requests : ~UnderWay(q)
  BY <1>0, PerformRequestLemma DEF Busy
<1>2. PICK r \in Requests : /\ requests'[r] = Sent(p, ~stale')
                            /\ \A q \in Requests : q # r => requests'[q] = others[q]
  BY <1>0, PerformRequestLemma
<1>3. (~stale') \in BOOLEAN
  OBVIOUS
<1>4. requests'[r].stage = "sent" /\ requests'[r].local = p
  BY <1>2 DEF Sent
<1>5. UnderWay(r)' /\ \A q \in Requests : q # r => ~UnderWay(q)'
  BY <1>1, <1>2, <1>4 DEF UnderWay
<1>6. OwnModel(r)'
  BY <1>4 DEF OwnModel
<1> QED
  BY <1>1, <1>5, <1>6 DEF Alone

\* A handler that is alone stays so until it delivers or returns.
LEMMA StaysAlone ==
  ASSUME Types, NEW r \in Requests, Alone(r), UNCHANGED updates,
         NEW from, NEW to, NEW local, Moves(r, from, to, local),
         to \notin {"unmade", "done"}, OwnModel(r)'
  PROVE  Alone(r)'
<1>1. requests'[r].stage = to /\ \A q \in Requests : q # r => requests'[q] = requests[q]
  BY MovesLemma
<1> QED
  BY <1>1 DEF Alone, UnderWay

\* What a step of a handler that is alone finds and leaves.
LEMMA HandleAlone ==
  ASSUME Types, NEW r \in Requests, Alone(r), Handle(r), running', strategies = savedStrategies
  PROVE  Delivered' \/ Alone(r)'
<1>0. /\ currency \in Pairs /\ closeTs \in Series
      /\ short \in BOOLEAN /\ OwnModel(r) /\ updates = <<>>
      /\ \A q \in Requests : q # r => ~UnderWay(q)
  BY DEF Types, Alone
<1>1. CASE RespondError(r) \/ ParseFails(r)
  <2>1. requests'[r] = Done /\ \A q \in Requests : q # r => requests'[q] = requests[q]
    BY <1>1, MovesLemma DEF RespondError, ParseFails
  <2>2. \A q \in Requests : ~UnderWay(q)'
    BY <1>0, <2>1, RequestTypes DEF UnderWay
  <2> QED
    BY <1>0, <1>1, <2>2 DEF Delivered, RespondError, ParseFails
<1>2. CASE Clear(r)
  <2>0. Moves(r, "sent", "cleared", requests[r].local)
    BY <1>2 DEF Clear
  <2>1. /\ requests[r].stage = "sent" /\ requests'[r].stage = "cleared"
        /\ requests'[r].local = requests[r].local
        /\ closeTs' = <<>> /\ UNCHANGED <<currency, updates>>
    BY <1>2, <2>0, MovesOnLemma DEF Clear, mainVars
  <2>2. OwnModel(r)'
    BY <1>0, <2>1 DEF OwnModel
  <2> QED
    BY <2>0, <2>1, <2>2, StaysAlone
<1>3. CASE ParseJson(r)
  <2>1. /\ requests[r].stage = "cleared" /\ requests'[r].stage = "parsed"
        /\ UNCHANGED <<currency, updates>>
    BY <1>3, MovesLemma DEF ParseJson, mainVars
  <2>2. requests[r].local = currency /\ closeTs = <<>>
    BY <1>0, <2>1 DEF OwnModel
  <2>3. PICK rates \in {<<>>, <<currency>>, <<currency, currency>>} :
          closeTs' = <<>> \o rates /\ short' = (short \/ Len(rates) < 2)
    BY <1>3, <2>2 DEF ParseJson
  <2>4. closeTs' = rates
    BY <1>0, <2>3
  <2>5. OwnSeries'
    BY <1>0, <2>1, <2>3, <2>4 DEF OwnSeries
  <2>6. OwnModel(r)'
    BY <2>1, <2>5 DEF OwnModel
  <2> QED
    BY <1>3, <2>1, <2>6, StaysAlone DEF ParseJson
<1>4. CASE CalculateAll(r)
  <2>1. /\ requests[r].stage = "parsed" /\ requests'[r].stage = "calculated"
        /\ closeTs # <<>> /\ indicators' = ToSet(closeTs)
        /\ UNCHANGED <<currency, closeTs, short, updates>>
    BY <1>4, MovesLemma DEF CalculateAll, mainVars
  <2>2. OwnSeries
    BY <1>0, <2>1 DEF OwnModel
  <2>3. ToSet(closeTs) = {currency}
    BY <2>1, <2>2 DEF OwnSeries, ToSet
  <2>4. OwnSeries'
    BY <2>1, <2>2 DEF OwnSeries
  <2>5. OwnModel(r)'
    BY <2>1, <2>3, <2>4 DEF OwnModel
  <2> QED
    BY <1>4, <2>1, <2>5, StaysAlone DEF CalculateAll
<1>5. CASE GetBuySignalLabel(r) \/ GetSellSignalLabel(r)
  <2>1. PICK from, to :
          /\ Moves(r, from, to, SignalLabel)
          /\ (from = "calculated" /\ to = "buyRead") \/ (from = "bought" /\ to = "sellRead")
    BY <1>5 DEF GetBuySignalLabel, GetSellSignalLabel
  <2>2. UNCHANGED <<currency, savedStrategies, closeTs, indicators, buySignal, short, updates>>
    BY <1>5 DEF GetBuySignalLabel, GetSellSignalLabel, mainVars
  <2> HIDE DEF SignalLabel
  <2>3. /\ requests[r].stage = from /\ requests'[r].stage = to
        /\ requests'[r].local = SignalLabel
    BY <2>1, MovesOnLemma
  <2>4. OwnSeries /\ indicators = {currency}
        /\ (requests[r].stage = "bought" => buySignal = Right)
    BY <1>0, <2>1, <2>3 DEF OwnModel
  <2>5. SignalLabel = Right /\ Right' = Right
    BY <2>2, <2>4 DEF SignalLabel, Right
  <2>6. OwnSeries'
    BY <2>2, <2>4 DEF OwnSeries
  <2>7. OwnModel(r)'
    BY <2>1, <2>2, <2>3, <2>4, <2>5, <2>6 DEF OwnModel
  <2> QED
    BY <2>1, <2>2, <2>7, StaysAlone
<1>6. CASE SetBuySignal(r) \/ SetSellSignal(r)
  <2>1. PICK from, to :
          /\ Moves(r, from, to, Nothing)
          /\ \/ from = "buyRead" /\ to = "bought" /\ buySignal' = requests[r].local
             \/ /\ from = "sellRead" /\ to = "labelled"
                /\ sellSignal' = requests[r].local /\ UNCHANGED buySignal
    BY <1>6 DEF SetBuySignal, SetSellSignal
  <2>2. UNCHANGED <<currency, savedStrategies, closeTs, indicators, short, updates>>
    BY <1>6 DEF SetBuySignal, SetSellSignal, mainVars
  <2>3. requests[r].stage = from /\ requests'[r].stage = to
    BY <2>1, MovesLemma
  <2>4. OwnSeries /\ indicators = {currency} /\ requests[r].local = Right
        /\ (requests[r].stage = "sellRead" => buySignal = Right)
    BY <1>0, <2>1, <2>3 DEF OwnModel
  <2>5. Right' = Right
    BY <2>2 DEF Right
  <2>6. OwnSeries'
    BY <2>2, <2>4 DEF OwnSeries
  <2>7. OwnModel(r)'
    BY <2>1, <2>2, <2>3, <2>4, <2>5, <2>6 DEF OwnModel
  <2> QED
    BY <2>1, <2>2, <2>7, StaysAlone
<1>7. CASE CopyModel(r)
  <2> HIDE DEF Model
  <2>1. /\ Moves(r, "labelled", "copied", Model)
        /\ UNCHANGED <<currency, savedStrategies, short, updates>>
    BY <1>7 DEF CopyModel, mainVars
  <2>2. /\ requests[r].stage = "labelled" /\ requests'[r].stage = "copied"
        /\ requests'[r].local = Model
    BY <2>1, MovesOnLemma
  <2>3. OwnSeries /\ indicators = {currency} /\ buySignal = Right /\ sellSignal = Right
    BY <1>0, <2>2 DEF OwnModel
  <2>4. Model.rate = currency \/ (Model.rate = Nothing /\ short)
    BY <1>0, <2>3 DEF OwnSeries, Model, Last
  <2>5. RightModel(Model)
    BY <2>3, <2>4 DEF RightModel, Model, Right
  <2>6. RightModel(requests[r].local)'
    BY <2>1, <2>2, <2>5 DEF RightModel
  <2>7. OwnModel(r)'
    BY <2>2, <2>6 DEF OwnModel
  <2> QED
    BY <2>1, <2>2, <2>7, StaysAlone
<1>8. CASE DidUpdateIndicators(r)
  <2>1. /\ requests[r].stage = "copied" /\ requests'[r] = Done
        /\ \A q \in Requests : q # r => requests'[q] = requests[q]
        /\ updates' = Append(updates, requests[r].local)
        /\ UNCHANGED <<currency, savedStrategies, short>>
    BY <1>8, MovesLemma DEF DidUpdateIndicators, mainVars
  <2>2. PICK m \in Models : m = requests[r].local
    BY <2>1, LocalTypes
  <2>3. updates' = <<m>>
    BY <1>0, <2>1, <2>2
  <2>4. RightModel(m)'
    BY <1>0, <2>1, <2>2 DEF OwnModel, RightModel
  <2>5. \A q \in Requests : ~UnderWay(q)'
    BY <1>0, <2>1, RequestTypes DEF UnderWay
  <2> QED
    BY <2>3, <2>4, <2>5 DEF Delivered
<1> QED
  BY <1>1, <1>2, <1>3, <1>4, <1>5, <1>6, <1>7, <1>8 DEF Handle

\* Undisturbed, a handler takes the model from one right stage to the next.
LEMMA HandleSolo ==
  ASSUME SoloInv, NEW r \in Requests, Handle(r)
  PROVE  SoloInv'
<1>1. /\ running /\ running' /\ UnderWay(r)
      /\ UNCHANGED <<strategies, savedStrategies, crashed, overlap>>
  BY DEF Handle, RespondError, Clear, ParseJson, ParseFails, CalculateAll, GetBuySignalLabel,
         SetBuySignal, GetSellSignalLabel, SetSellSignal, CopyModel, DidUpdateIndicators,
         Moves, mainVars, UnderWay
<1>2. Types' /\ Ended' /\ Loaded'
  BY <1>1, HandleTypes DEF SoloInv, Ended, Loaded
<1>3. CrashHasCause'
  BY <1>1, <1>2 DEF Loaded, CrashHasCause
<1>4. Solo'
  <2> SUFFICES ASSUME ~overlap' PROVE Delivered' \/ \E q \in Requests : Alone(q)'
    BY DEF Solo
  <2>1. Alone(r)
    BY <1>1 DEF SoloInv, Solo, Delivered, Alone
  <2> QED
    BY <1>1, <2>1, HandleAlone DEF SoloInv, Loaded
<1> QED
  BY <1>2, <1>3, <1>4 DEF SoloInv

\* As long as requests have not overlapped, no thread disturbs another, and a
\* rate is missing only if the answer had too few.
LEMMA NoCrashAlone ==
  ASSUME SoloInv
  PROVE  /\ HandlersRace => overlap
         /\ OutOfRange => overlap \/ short
<1> SUFFICES ASSUME ~overlap, running
             PROVE  ~HandlersRace /\ (OutOfRange => short)
  BY DEF SoloInv, Types, HandlersRace, OutOfRange
<1>0. Types /\ Solo
  BY DEF SoloInv
<1>1. CASE Delivered
  <2>1. ~HandlersRace
    BY <1>1 DEF Delivered, HandlersRace, Working
  <2>2. OutOfRange => updates # <<>> /\ Head(updates).rate = Nothing
    BY <1>1 DEF Delivered, OutOfRange, UnderWay
  <2>3. ASSUME updates # <<>>, Head(updates).rate = Nothing
        PROVE  short
    <3>1. PICK m \in Models : updates = <<m>> /\ RightModel(m)
      BY <1>1, <2>3 DEF Delivered
    <3>2. Head(updates) = m
      BY <3>1
    <3> QED
      BY <1>0, <2>3, <3>1, <3>2 DEF RightModel, Types
  <2> QED
    BY <2>1, <2>2, <2>3
<1>2. ASSUME NEW r \in Requests, Alone(r)
      PROVE  ~HandlersRace /\ (OutOfRange => short)
  <2>1. ~HandlersRace
    BY <1>2 DEF Alone, HandlersRace, Working
  <2>2. OutOfRange => closeTs = <<>> /\ requests[r].stage = "parsed"
    BY <1>2 DEF Alone, OutOfRange, UnderWay
  <2>3. closeTs = <<>> /\ requests[r].stage = "parsed" => short
    BY <1>2 DEF Alone, OwnModel, OwnSeries
  <2> QED
    BY <2>1, <2>2, <2>3
<1> QED
  BY <1>0, <1>1, <1>2 DEF Solo

LEMMA DieSolo ==
  ASSUME SoloInv, NEW how \in {"no", "race", "range", "unwrap"}, Die(how),
         savedStrategies' \in Versions, overlap' \in BOOLEAN,
         how = "race" => overlap', how = "range" => overlap' \/ short
  PROVE  SoloInv'
<1>1. Types'
  BY DieTypes DEF SoloInv
<1>2. Ended' /\ Loaded' /\ Solo'
  BY RequestTypes DEF Die, Ended, Loaded, Solo, UnderWay
<1>3. CrashHasCause'
  BY DEF Die, CrashHasCause
<1> QED
  BY <1>1, <1>2, <1>3 DEF SoloInv

LEMMA SoloInvNext ==
  ASSUME SoloInv, [Next]_vars
  PROVE  SoloInv'
<1> USE DEF SoloInv
<1>0. /\ Types' /\ currency \in Pairs /\ FirstPair \in Pairs
      /\ requests \in [Requests -> Requested]
  BY TypesNext DEF Types
<1>1. ASSUME NEW p \in Pairs, NEW others \in [Requests -> Requested],
             \A q \in Requests : others[q].stage = requests[q].stage,
             PerformRequest(p, others), stale' \in BOOLEAN, currency' = p, updates' = updates,
             running', strategies' = savedStrategies', crashed' = "no"
      PROVE  SoloInv'
  <2>1. ~overlap' => \E r \in Requests : Alone(r)'
    BY <1>1, PerformRequestAlone
  <2> QED
    BY <1>0, <1>1, <2>1 DEF Ended, Loaded, Solo, CrashHasCause
<1>2. CASE Launch
  BY <1>0, <1>1, <1>2 DEF Launch, imVars, Ended, Types
<1>3. CASE RefreshButtonPressed
  BY <1>0, <1>1, <1>3 DEF RefreshButtonPressed, imVars, Loaded, Types
<1>4. ASSUME NEW p \in Pairs, CurrencySelected(p)
      PROVE  SoloInv'
  BY <1>0, <1>1, <1>4 DEF CurrencySelected, Loaded, Types
<1>5. ASSUME NEW v \in Versions, SaveButtonPressed(v)
      PROVE  SoloInv'
  BY <1>0, <1>1, <1>5, OlderType DEF SaveButtonPressed, imVars, Loaded, Types
<1>6. ASSUME NEW r \in Requests, Handle(r)
      PROVE  SoloInv'
  BY <1>6, HandleSolo
<1>7. CASE ShowUpdate
  <2>1. /\ running /\ running' /\ updates # <<>> /\ updates' = Tail(updates)
        /\ UNCHANGED <<savedStrategies, strategies, currency, requests, crashed, overlap, short>>
    BY <1>7 DEF ShowUpdate, imVars, historyVars
  <2>2. ~overlap => Delivered'
    <3> SUFFICES ASSUME ~overlap PROVE Delivered'
      OBVIOUS
    <3>1. Delivered
      BY <2>1 DEF Solo, Alone
    <3>2. PICK m \in Models : updates = <<m>>
      BY <2>1, <3>1 DEF Delivered
    <3>3. Tail(<<m>>) = <<>>
      OBVIOUS
    <3> QED
      BY <2>1, <3>1, <3>2, <3>3 DEF Delivered, UnderWay
  <2> QED
    BY <1>0, <2>1, <2>2 DEF Ended, Loaded, Solo, CrashHasCause
<1>8. CASE Quit \/ OutOfRange \/ UnwrapsNil \/ HandlersRace \/ MainRaces
  <2>1. savedStrategies' \in Versions /\ overlap' \in BOOLEAN
    BY <1>0 DEF Types
  <2>2. CASE Quit \/ UnwrapsNil
    BY <2>1, <2>2, DieSolo DEF Quit, UnwrapsNil
  <2>3. CASE OutOfRange
    <3>1. Die("range") /\ overlap' = overlap
      BY <2>3 DEF OutOfRange
    <3> QED
      BY <2>1, <2>3, <3>1, DieSolo, NoCrashAlone
  <2>4. CASE HandlersRace
    <3>1. Die("race") /\ overlap' = overlap
      BY <2>4 DEF HandlersRace
    <3> QED
      BY <2>1, <2>4, <3>1, DieSolo, NoCrashAlone
  <2>5. CASE MainRaces
    BY <2>1, <2>5, DieSolo DEF MainRaces
  <2> QED
    BY <1>8, <2>2, <2>3, <2>4, <2>5
<1>9. CASE UNCHANGED vars
  <2>1. Ended' /\ Loaded' /\ CrashHasCause'
    BY <1>9 DEF vars, imVars, historyVars, Ended, Loaded, CrashHasCause, UnderWay
  <2>2. Solo'
    <3>1. Delivered' <=> Delivered
      BY <1>9 DEF vars, imVars, historyVars, Delivered, RightModel, UnderWay
    <3>2. OwnSeries' = OwnSeries /\ Right' = Right
      BY <1>9 DEF vars, imVars, historyVars, OwnSeries, Right
    <3>3. ASSUME NEW r \in Requests, Alone(r)
          PROVE  Alone(r)'
      <4>1. OwnModel(r)'
        BY <1>9, <3>2, <3>3 DEF vars, imVars, historyVars, Alone, OwnModel, RightModel
      <4> QED
        BY <1>9, <3>3, <4>1 DEF vars, historyVars, Alone, UnderWay
    <3> QED
      BY <1>9, <3>1, <3>3 DEF vars, historyVars, Solo
  <2> QED
    BY <1>0, <2>1, <2>2
<1> QED
  BY <1>2, <1>3, <1>4, <1>5, <1>6, <1>7, <1>8, <1>9 DEF Next

LEMMA SoloInvInit == Init => SoloInv
<1> SUFFICES ASSUME Init PROVE SoloInv
  OBVIOUS
<1>1. \A r \in Requests : ~UnderWay(r)
  BY RequestTypes DEF Init, UnderWay
<1> QED
  BY <1>1, TypesInit DEF Init, SoloInv, Ended, Loaded, Solo, CrashHasCause

\* The types hold in every behaviour, and a handler that is alone finds in the
\* series no rates of the requests before it.
THEOREM MonitorTypeCorrect == Spec => []TypeOK
<1>1. SoloInv => TypeOK
  <2> SUFFICES ASSUME SoloInv, ~overlap, NEW r \in Requests, requests[r].stage = "parsed"
               PROVE  Len(closeTs) <= 2
    BY DEF SoloInv, Types, TypeOK
  <2>1. UnderWay(r) /\ running
    BY DEF UnderWay, SoloInv, Ended, Types
  <2>2. Alone(r)
    BY <2>1 DEF SoloInv, Solo, Delivered, Alone
  <2>3. closeTs \in {<<>>, <<currency>>, <<currency, currency>>}
    BY <2>2 DEF Alone, OwnModel, OwnSeries
  <2>4. Len(<<>>) <= 2 /\ Len(<<currency>>) <= 2 /\ Len(<<currency, currency>>) <= 2
    OBVIOUS
  <2> QED
    BY <2>3, <2>4
<1> QED
  BY <1>1, SoloInvInit, SoloInvNext, PTL DEF Spec

\* For every number of requests: an index out of range, or a race, ends the
\* app only after requests overlapped, or after an answer of fewer than two
\* rates; an answer that is no FXData, and any handler however slow, never do.
THEOREM CrashAlwaysHasCause == Spec => []CrashHasCause
<1>1. SoloInv => CrashHasCause
  BY DEF SoloInv
<1> QED
  BY <1>1, SoloInvInit, SoloInvNext, PTL DEF Spec

\* As long as requests do not overlap, every copy the screen gets is of one
\* pair from its rate to its labels, under the strategies of the file.
THEOREM UndisturbedAlwaysRight == Spec => UndisturbedUpdateIsRight
<1> DEFINE Undisturbed == updates # <<>> /\ shown' # shown /\ running' /\ ~overlap
                            => Coherent(shown', currency, savedStrategies)
<1>1. SoloInv /\ [Next]_vars => [Undisturbed]_vars
  <2> SUFFICES ASSUME SoloInv, [Next]_vars, updates # <<>>, shown' # shown, running', ~overlap
               PROVE  Coherent(shown', currency, savedStrategies)
    OBVIOUS
  <2>1. ShowUpdate
    BY DEF Next, Launch, RefreshButtonPressed, CurrencySelected, SaveButtonPressed,
           Handle, RespondError, Clear, ParseJson, ParseFails, CalculateAll, GetBuySignalLabel,
           SetBuySignal, GetSellSignalLabel, SetSellSignal, CopyModel, DidUpdateIndicators,
           mainVars, Quit, OutOfRange, UnwrapsNil, HandlersRace, MainRaces, Die, vars
  <2>2. Delivered /\ shown' = Head(updates) /\ Head(updates).rate # Nothing
    BY <2>1 DEF ShowUpdate, SoloInv, Solo, Alone
  <2>3. PICK m \in Models : updates = <<m>> /\ RightModel(m)
    BY <2>2 DEF Delivered
  <2>4. shown' = m
    BY <2>2, <2>3
  <2> QED
    BY <2>2, <2>3, <2>4 DEF RightModel, Coherent
<1> QED
  BY <1>1, SoloInvInit, SoloInvNext, PTL DEF Spec, UndisturbedUpdateIsRight

-----------------------------------------------------------------------------
(* The strategies saved last *)

\* As long as a handler still has strategies that were replaced, no request
\* counts as made since the save.
FreshSinceSave == stale => ~answered /\ \A r \in Requests : requests[r].fresh = FALSE

\* What the handler of r has read, and left in the model, follows the file.
FollowsSaved(r) ==
  /\ requests[r].stage \in {"buyRead", "sellRead"} => requests[r].local.strategies = savedStrategies
  /\ requests[r].stage \in {"bought", "sellRead", "labelled"}
       => buySignal.strategies = savedStrategies
  /\ requests[r].stage = "labelled" => sellSignal.strategies = savedStrategies
  /\ requests[r].stage = "copied"
       => requests[r].local.buy = savedStrategies /\ requests[r].local.sell = savedStrategies

HandlersFollow == running /\ ~stale => \A r \in Requests : FollowsSaved(r)

\* The last copy on its way to the screen, or the one on it, follows the file.
LabelsReach ==
  running /\ answered =>
    /\ updates = <<>> => shown.buy = savedStrategies /\ shown.sell = savedStrategies
    /\ updates # <<>> => /\ updates[Len(updates)].buy = savedStrategies
                         /\ updates[Len(updates)].sell = savedStrategies

ReachInv == SoloInv /\ FreshSinceSave /\ HandlersFollow /\ LabelsReach

\* A handler that does not follow replaced strategies leaves none behind.
LEMMA HandleFollows ==
  ASSUME SoloInv, \A q \in Requests : FollowsSaved(q), NEW r \in Requests, Handle(r)
  PROVE  \A q \in Requests : FollowsSaved(q)'
<1>0. Types /\ Loaded /\ FollowsSaved(r)
  BY DEF SoloInv
<1>1. running /\ strategies = savedStrategies /\ UNCHANGED savedStrategies
  BY <1>0 DEF Handle, RespondError, Clear, ParseJson, ParseFails, CalculateAll, GetBuySignalLabel,
         SetBuySignal, GetSellSignalLabel, SetSellSignal, CopyModel, DidUpdateIndicators,
         Moves, mainVars, Loaded
<1>2. ASSUME \A q \in Requests : q # r => requests'[q] = requests[q],
             buySignal' = buySignal \/ buySignal'.strategies = savedStrategies,
             sellSignal' = sellSignal \/ sellSignal'.strategies = savedStrategies,
             FollowsSaved(r)'
      PROVE  \A q \in Requests : FollowsSaved(q)'
  <2> SUFFICES ASSUME NEW q \in Requests, q # r PROVE FollowsSaved(q)'
    BY <1>2
  <2>1. requests'[q] = requests[q] /\ FollowsSaved(q)
    BY <1>2
  <2> QED
    BY <1>1, <1>2, <2>1 DEF FollowsSaved
<1>3. CASE RespondError(r) \/ ParseFails(r) \/ DidUpdateIndicators(r)
  <2>1. PICK from : Moves(r, from, "done", Nothing)
    BY <1>3 DEF RespondError, ParseFails, DidUpdateIndicators
  <2>2. requests'[r].stage = "done" /\ \A q \in Requests : q # r => requests'[q] = requests[q]
    BY <1>0, <2>1, MovesLemma
  <2>3. UNCHANGED <<buySignal, sellSignal>>
    BY <1>3 DEF RespondError, ParseFails, DidUpdateIndicators
  <2>4. FollowsSaved(r)'
    BY <2>2 DEF FollowsSaved
  <2> QED
    BY <1>2, <2>2, <2>3, <2>4
<1>4. CASE Clear(r) \/ ParseJson(r) \/ CalculateAll(r)
  <2>1. PICK from, to, local : /\ Moves(r, from, to, local)
                               /\ to \in {"cleared", "parsed", "calculated"}
    BY <1>4 DEF Clear, ParseJson, CalculateAll
  <2>2. requests'[r].stage = to /\ \A q \in Requests : q # r => requests'[q] = requests[q]
    BY <1>0, <2>1, MovesLemma
  <2>3. UNCHANGED <<buySignal, sellSignal>>
    BY <1>4 DEF Clear, ParseJson, CalculateAll
  <2>4. FollowsSaved(r)'
    BY <2>1, <2>2 DEF FollowsSaved
  <2> QED
    BY <1>2, <2>2, <2>3, <2>4
<1>5. CASE GetBuySignalLabel(r) \/ GetSellSignalLabel(r)
  <2>1. PICK from, to :
          /\ Moves(r, from, to, SignalLabel)
          /\ (from = "calculated" /\ to = "buyRead") \/ (from = "bought" /\ to = "sellRead")
    BY <1>5 DEF GetBuySignalLabel, GetSellSignalLabel
  <2>2. UNCHANGED <<buySignal, sellSignal>>
    BY <1>5 DEF GetBuySignalLabel, GetSellSignalLabel
  <2>3. SignalLabel.strategies = savedStrategies
    BY <1>1 DEF SignalLabel
  <2> HIDE DEF SignalLabel
  <2>4. /\ requests[r].stage = from /\ requests'[r].stage = to
        /\ requests'[r].local = SignalLabel
    BY <1>0, <2>1, MovesOnLemma
  <2>5. \A q \in Requests : q # r => requests'[q] = requests[q]
    BY <1>0, <2>1, MovesLemma
  <2>6. FollowsSaved(r)'
    BY <1>0, <1>1, <2>1, <2>2, <2>3, <2>4 DEF FollowsSaved
  <2> QED
    BY <1>2, <2>2, <2>5, <2>6
<1>6. CASE SetBuySignal(r)
  <2>1. Moves(r, "buyRead", "bought", Nothing) /\ buySignal' = requests[r].local
        /\ UNCHANGED sellSignal
    BY <1>6 DEF SetBuySignal
  <2>2. /\ requests[r].stage = "buyRead" /\ requests'[r].stage = "bought"
        /\ \A q \in Requests : q # r => requests'[q] = requests[q]
    BY <1>0, <2>1, MovesLemma
  <2>3. buySignal'.strategies = savedStrategies
    BY <1>0, <2>1, <2>2 DEF FollowsSaved
  <2>4. FollowsSaved(r)'
    BY <1>1, <2>2, <2>3 DEF FollowsSaved
  <2> QED
    BY <1>2, <2>1, <2>2, <2>3, <2>4
<1>7. CASE SetSellSignal(r)
  <2>1. Moves(r, "sellRead", "labelled", Nothing) /\ sellSignal' = requests[r].local
        /\ UNCHANGED buySignal
    BY <1>7 DEF SetSellSignal
  <2>2. /\ requests[r].stage = "sellRead" /\ requests'[r].stage = "labelled"
        /\ \A q \in Requests : q # r => requests'[q] = requests[q]
    BY <1>0, <2>1, MovesLemma
  <2>3. /\ sellSignal'.strategies = savedStrategies
        /\ buySignal.strategies = savedStrategies
    BY <1>0, <2>1, <2>2 DEF FollowsSaved
  <2>4. FollowsSaved(r)'
    BY <1>1, <2>1, <2>2, <2>3 DEF FollowsSaved
  <2> QED
    BY <1>2, <2>1, <2>2, <2>3, <2>4
<1>8. CASE CopyModel(r)
  <2>1. Moves(r, "labelled", "copied", Model) /\ UNCHANGED <<buySignal, sellSignal>>
    BY <1>8 DEF CopyModel
  <2>2. Model.buy = buySignal.strategies /\ Model.sell = sellSignal.strategies
    BY DEF Model
  <2> HIDE DEF Model
  <2>3. /\ requests[r].stage = "labelled" /\ requests'[r].stage = "copied"
        /\ requests'[r].local = Model
    BY <1>0, <2>1, MovesOnLemma
  <2>4. \A q \in Requests : q # r => requests'[q] = requests[q]
    BY <1>0, <2>1, MovesLemma
  <2>5. FollowsSaved(r)'
    BY <1>0, <1>1, <2>2, <2>3 DEF FollowsSaved
  <2> QED
    BY <1>2, <2>1, <2>4, <2>5
<1> QED
  BY <1>3, <1>4, <1>5, <1>6, <1>7, <1>8 DEF Handle

LEMMA HandleReach ==
  ASSUME ReachInv, NEW r \in Requests, Handle(r)
  PROVE  FreshSinceSave' /\ HandlersFollow' /\ LabelsReach'
<1>0. Types /\ SoloInv /\ requests[r].fresh \in BOOLEAN
  BY LocalTypes DEF ReachInv, SoloInv
<1>1. running /\ running' /\ UNCHANGED <<savedStrategies, shown, stale>>
  BY DEF Handle, RespondError, Clear, ParseJson, ParseFails, CalculateAll, GetBuySignalLabel,
         SetBuySignal, GetSellSignalLabel, SetSellSignal, CopyModel, DidUpdateIndicators,
         Moves, mainVars
<1>2. HandlersFollow'
  BY <1>0, <1>1, HandleFollows DEF ReachInv, HandlersFollow
<1>3. \A q \in Requests : requests'[q].fresh = requests[q].fresh \/ requests'[q].fresh = FALSE
  <2>1. PICK from, to, local : Moves(r, from, to, local)
    BY DEF Handle, RespondError, Clear, ParseJson, ParseFails, CalculateAll, GetBuySignalLabel,
           SetBuySignal, GetSellSignalLabel, SetSellSignal, CopyModel, DidUpdateIndicators
  <2>2. Done.fresh = FALSE
    BY DEF Done
  <2>3. requests'[r].fresh = requests[r].fresh \/ requests'[r].fresh = FALSE
    BY <1>0, <2>1, <2>2, MovesLemma
  <2>4. \A q \in Requests : q # r => requests'[q] = requests[q]
    BY <1>0, <2>1, MovesLemma
  <2> QED
    BY <2>3, <2>4
<1>4. CASE ~DidUpdateIndicators(r)
  <2>1. UNCHANGED <<updates, answered>>
    BY <1>4 DEF Handle, RespondError, Clear, ParseJson, ParseFails, CalculateAll,
           GetBuySignalLabel, SetBuySignal, GetSellSignalLabel, SetSellSignal, CopyModel
  <2>2. FreshSinceSave'
    BY <1>1, <1>3, <2>1 DEF ReachInv, FreshSinceSave
  <2>3. LabelsReach'
    BY <1>1, <2>1 DEF ReachInv, LabelsReach
  <2> QED
    BY <1>2, <2>2, <2>3
<1>5. CASE DidUpdateIndicators(r)
  <2>1. /\ requests[r].stage = "copied"
        /\ updates' = Append(updates, requests[r].local)
        /\ answered' = (answered \/ requests[r].fresh)
    BY <1>5 DEF DidUpdateIndicators, Moves
  <2>2. FreshSinceSave'
    BY <1>1, <1>3, <2>1 DEF ReachInv, FreshSinceSave
  <2>3. PICK m \in Models : m = requests[r].local
    BY <1>0, <2>1, LocalTypes
  <2>4. updates' # <<>> /\ updates'[Len(updates')] = m
    BY <1>0, <2>1, <2>3, AppendProperties DEF Types
  <2>5. answered' => m.buy = savedStrategies /\ m.sell = savedStrategies
    <3> SUFFICES ASSUME answered' PROVE m.buy = savedStrategies /\ m.sell = savedStrategies
      OBVIOUS
    <3>1. ~stale
      BY <1>0, <2>1 DEF ReachInv, FreshSinceSave, Types
    <3>2. FollowsSaved(r)
      BY <1>1, <3>1 DEF ReachInv, HandlersFollow
    <3> QED
      BY <2>1, <2>3, <3>2 DEF FollowsSaved
  <2>6. LabelsReach'
    BY <1>1, <2>4, <2>5 DEF LabelsReach
  <2> QED
    BY <1>2, <2>2, <2>6
<1> QED
  BY <1>4, <1>5

\* A request follows the file, and counts as made since the save only if no
\* handler has replaced strategies.
LEMMA RequestFollows ==
  ASSUME Types, NEW p \in Pairs, NEW others \in [Requests -> Requested],
         PerformRequest(p, others), stale' \in BOOLEAN,
         stale' => ~answered' /\ \A q \in Requests : others[q].fresh = FALSE,
         ~stale' => \A q \in Requests :
                      \/ others[q].stage \notin {"buyRead", "bought", "sellRead", "labelled", "copied"}
                      \/ others[q] = requests[q] /\ FollowsSaved(q)
                         /\ UNCHANGED <<savedStrategies, buySignal, sellSignal>>
  PROVE  FreshSinceSave' /\ HandlersFollow'
<1>1. PICK r \in Requests : /\ requests'[r] = Sent(p, ~stale')
                            /\ \A q \in Requests : q # r => requests'[q] = others[q]
  BY PerformRequestLemma DEF Types
<1>2. requests'[r].stage = "sent" /\ requests'[r].fresh = ~stale'
  BY <1>1 DEF Sent
<1>3. FreshSinceSave'
  BY <1>1, <1>2 DEF FreshSinceSave
<1>4. ASSUME ~stale', NEW q \in Requests
      PROVE  FollowsSaved(q)'
  <2>1. CASE requests'[q].stage \notin {"buyRead", "bought", "sellRead", "labelled", "copied"}
    BY <2>1 DEF FollowsSaved
  <2>2. CASE q # r /\ others[q] = requests[q] /\ FollowsSaved(q)
             /\ UNCHANGED <<savedStrategies, buySignal, sellSignal>>
    BY <1>1, <2>2 DEF FollowsSaved
  <2> QED
    BY <1>1, <1>2, <1>4, <2>1, <2>2
<1> QED
  BY <1>3, <1>4 DEF HandlersFollow

LEMMA ReachNext ==
  ASSUME ReachInv, [Next]_vars
  PROVE  FreshSinceSave' /\ HandlersFollow' /\ LabelsReach'
<1>0. /\ Types /\ Ended /\ Busy \in BOOLEAN /\ StrategiesRead \in BOOLEAN /\ stale \in BOOLEAN
      /\ requests \in [Requests -> Requested] /\ currency \in Pairs /\ FirstPair \in Pairs
  BY DEF ReachInv, SoloInv, Types, Busy, StrategiesRead
<1>1. ~Busy => \A q \in Requests :
        requests[q].stage \notin {"buyRead", "bought", "sellRead", "labelled", "copied"}
  BY DEF Busy, UnderWay
<1>2. CASE Launch
  <2>1. PerformRequest(FirstPair, requests) /\ stale' = FALSE /\ ~answered'
    BY <1>0, <1>2 DEF Launch, Ended
  <2>2. \A q \in Requests :
          requests[q].stage \notin {"buyRead", "bought", "sellRead", "labelled", "copied"}
    BY <1>0, <1>2 DEF Launch, Ended, UnderWay
  <2>3. FreshSinceSave' /\ HandlersFollow'
    BY <1>0, <2>1, <2>2, RequestFollows
  <2> QED
    BY <2>1, <2>3 DEF LabelsReach
<1>3. ASSUME NEW p \in Pairs, PerformRequest(p, requests), stale' = (stale /\ Busy), running,
             UNCHANGED <<running, savedStrategies, buySignal, sellSignal, updates, shown, answered>>
      PROVE  FreshSinceSave' /\ HandlersFollow' /\ LabelsReach'
  <2>1. stale' => ~answered' /\ \A q \in Requests : requests[q].fresh = FALSE
    BY <1>3 DEF ReachInv, FreshSinceSave
  <2>2. ~stale' => \A q \in Requests :
          \/ requests[q].stage \notin {"buyRead", "bought", "sellRead", "labelled", "copied"}
          \/ FollowsSaved(q)
    BY <1>0, <1>1, <1>3 DEF ReachInv, HandlersFollow
  <2>3. FreshSinceSave' /\ HandlersFollow'
    BY <1>0, <1>3, <2>1, <2>2, RequestFollows
  <2>4. LabelsReach'
    BY <1>3 DEF ReachInv, LabelsReach
  <2> QED
    BY <2>3, <2>4
<1>4. CASE RefreshButtonPressed
  BY <1>0, <1>3, <1>4 DEF RefreshButtonPressed, imVars
<1>5. ASSUME NEW p \in Pairs, CurrencySelected(p)
      PROVE  FreshSinceSave' /\ HandlersFollow' /\ LabelsReach'
  BY <1>3, <1>5 DEF CurrencySelected
<1>6. ASSUME NEW v \in Versions, SaveButtonPressed(v)
      PROVE  FreshSinceSave' /\ HandlersFollow' /\ LabelsReach'
  <2>1. PerformRequest(currency, Older) /\ stale' = StrategiesRead /\ ~answered'
    BY <1>6 DEF SaveButtonPressed
  <2>2. ~stale' => \A q \in Requests :
          Older[q].stage \notin {"buyRead", "bought", "sellRead", "labelled", "copied"}
    BY <1>0, <2>1, OlderType DEF StrategiesRead
  <2>3. FreshSinceSave' /\ HandlersFollow'
    BY <1>0, <2>1, <2>2, OlderType, RequestFollows
  <2> QED
    BY <2>1, <2>3 DEF LabelsReach
<1>7. CASE ShowUpdate
  <2>1. /\ running /\ updates # <<>> /\ updates' = Tail(updates) /\ shown' = Head(updates)
        /\ UNCHANGED <<savedStrategies, buySignal, sellSignal, requests, running, answered, stale>>
    BY <1>7 DEF ShowUpdate, imVars, historyVars
  <2>2. FreshSinceSave' /\ HandlersFollow'
    BY <2>1 DEF ReachInv, FreshSinceSave, HandlersFollow, FollowsSaved
  <2>3. updates \in Seq(Models) /\ Len(updates) \in Nat \ {0}
    BY <1>0, <2>1, EmptySeq, LenProperties DEF Types
  <2>4. CASE Len(updates) = 1
    <3>1. updates' = <<>> /\ shown' = updates[Len(updates)]
      BY <2>1, <2>3, <2>4, HeadTailProperties, EmptySeq
    <3> QED
      BY <2>1, <2>2, <3>1 DEF ReachInv, LabelsReach
  <2>5. CASE Len(updates) > 1
    <3>1. Len(updates') = Len(updates) - 1 /\ updates'[Len(updates')] = updates[Len(updates)]
      BY <2>1, <2>3, <2>5, HeadTailProperties
    <3>2. updates' # <<>>
      BY <2>3, <2>5, <3>1, EmptySeq
    <3> QED
      BY <2>1, <2>2, <3>1, <3>2 DEF ReachInv, LabelsReach
  <2>6. PICK n \in Nat \ {0} : n = Len(updates)
    BY <2>3
  <2>7. n = 1 \/ n > 1
    OBVIOUS
  <2> QED
    BY <2>4, <2>5, <2>6, <2>7
<1>8. CASE Quit \/ OutOfRange \/ UnwrapsNil \/ HandlersRace \/ MainRaces
  BY <1>8 DEF Quit, OutOfRange, UnwrapsNil, HandlersRace, MainRaces, Die,
              FreshSinceSave, HandlersFollow, LabelsReach
<1>9. CASE UNCHANGED vars
  BY <1>9 DEF vars, imVars, historyVars, ReachInv, FreshSinceSave, HandlersFollow, FollowsSaved,
              LabelsReach
<1> QED
  BY <1>2, <1>4, <1>5, <1>6, <1>7, <1>8, <1>9, HandleReach DEF Next

\* Once a request made since the last save has been delivered, no older
\* request, however late its handler runs, brings back older strategies in
\* either label, if none had read its strategies when Save was pressed.
THEOREM SavedStrategyAlwaysReaches == Spec => []SavedStrategyReachesScreen
<1>1. Init => ReachInv
  BY SoloInvInit DEF Init, ReachInv, FreshSinceSave, HandlersFollow, LabelsReach
<1>2. ReachInv /\ [Next]_vars => ReachInv'
  BY SoloInvNext, ReachNext DEF ReachInv
<1>3. ReachInv => SavedStrategyReachesScreen
  BY DEF ReachInv, LabelsReach, SavedStrategyReachesScreen
<1> QED
  BY <1>1, <1>2, <1>3, PTL DEF Spec

=============================================================================
