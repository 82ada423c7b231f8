---------------------------- MODULE StrategyConfig ----------------------------
(***************************************************************************)
(* The user's own strategies: Strategies.plist, the copy every setup       *)
(* screen reads when it opens (SConfigManager), the copy of the Monitor    *)
(* (IndicatorManager), and the rule of the Monitor's signal labels.        *)
(*                                                                         *)
(* A key is a currency pair with a direction.  A draft is what the widgets *)
(* of the setup screen hold: five indicators, five weights, a threshold.   *)
(***************************************************************************)
EXTENDS Integers, SequencesExt

CONSTANTS
  Pairs,         \* K.CurrencyPairs
  Indicators,    \* K.SupportedIndicators
  Drafts,        \* bound: what users enter
  Storyboard,    \* the widgets before anything is shown in them
  Unreadable,    \* a text field that is empty or no number
  NoScreen,      \* no setup screen is open
  NoStrategy,    \* a key without strategy
  Damaged        \* a file that cannot be decoded

Slots == 1..5
Directions == {"BUY", "SELL"}
Keys == Pairs \X Directions
Colours == {"Green", "Red", "Gray"}

\* The sliders go from 0 to 100.
Form(thresholds) ==
  [indicator : [Slots -> Indicators], weight : [Slots -> 0..100], threshold : thresholds]

Strategies == [key : Keys, form : Form(Int)]
Lists == Seq(Strategies)
Screens == [key : Keys, strategies : Lists, form : Form(Int \cup {Unreadable})]

ASSUME StrategyConfigAssumption ==
  /\ IsFiniteSet(Pairs)
  /\ Unreadable \notin Int
  /\ Drafts \cup {Storyboard} \subseteq Form(Int \cup {Unreadable})
  /\ Storyboard.threshold = Unreadable
  /\ Storyboard.weight = [i \in Slots |-> 0]
  /\ NoStrategy \notin Form(Int) /\ Damaged \notin Lists
  /\ NoScreen \notin Screens \cup [key : Keys, form : Form(Int \cup {Unreadable})]

VARIABLES
  running,     \* the process is alive
  file,        \* Strategies.plist
  strategies,  \* indicatorM.strategies
  setup,       \* the open setup screen: its key, scManager.strategies, its widgets
  lastSave     \* history: what became of the last press of SAVE

vars == <<running, file, strategies, setup, lastSave>>

-----------------------------------------------------------------------------
(* The rule of the labels *)

Entry(k, f) == [key |-> k, form |-> f]

\* A strategy counts the weights of the indicators of its colour.
Counted(f, i, colours, colour) ==
  IF colours[f.indicator[i]] = colour THEN f.weight[i] ELSE 0

Total(f, colours, colour) ==
  Counted(f, 1, colours, colour) + Counted(f, 2, colours, colour)
    + Counted(f, 3, colours, colour) + Counted(f, 4, colours, colour)
    + Counted(f, 5, colours, colour)

ColourOf(direction) == IF direction = "BUY" THEN "Green" ELSE "Red"

\* checkBuySignal, checkSellSignal.
CheckSignal(f, colours, direction) == Total(f, colours, ColourOf(direction)) >= f.threshold

\* The form a loop over the list ss stops at, or ends with, for the key k.
FirstOf(ss, k) == ss[SelectInSeq(ss, LAMBDA s : s.key = k)].form
LastOf(ss, k) == ss[SelectLastInSeq(ss, LAMBDA s : s.key = k)].form
Has(ss, k) == \E s \in ToSet(ss) : s.key = k

\* getBuySignalLabel, getSellSignalLabel: the first strategy of the key decides.
SignalLabel(ss, k, colours) ==
  IF ~Has(ss, k) THEN "N/A"
  ELSE IF CheckSignal(FirstOf(ss, k), colours, k[2]) THEN "Active" ELSE "Inactive"

-----------------------------------------------------------------------------
(* The file and its copies *)

Init ==
  /\ running = FALSE
  /\ file = <<>> /\ strategies = <<>>
  /\ setup = NoScreen
  /\ lastSave = "none"

\* loadDefault keeps the old list when the file cannot be decoded.
LoadDefault(f, old) == IF f = Damaged THEN old ELSE f

\* viewDidLoad of the Monitor.
Launch ==
  /\ ~running
  /\ running' = TRUE
  /\ strategies' = LoadDefault(file, <<>>)
  /\ UNCHANGED <<file, setup, lastSave>>

\* setConfigValue writes every strategy of the key into the widgets: the last
\* one stays.
SetConfigValue(ss, k) == IF Has(ss, k) THEN LastOf(ss, k) ELSE Storyboard

\* A CUSTOMIZE button of the pair the Monitor shows; viewDidLoad of the setup
\* screen, whose manager is a new one.
CustomizePressed(k) ==
  /\ running /\ setup = NoScreen
  /\ LET ss == LoadDefault(file, <<>>)
     IN  setup' = [key |-> k, strategies |-> ss, form |-> SetConfigValue(ss, k)]
  /\ UNCHANGED <<running, file, strategies, lastSave>>

\* The drop-downs, the sliders and the text field.
EditDraft(d) ==
  /\ running /\ setup # NoScreen
  /\ setup' = [setup EXCEPT !.form = d]
  /\ UNCHANGED <<running, file, strategies, lastSave>>

\* Mutant: a threshold nobody entered is the largest sum one may enter.
GetThreshold_Largest(f) == IF f.threshold = Unreadable THEN 500 ELSE f.threshold

GetThreshold(f) == IF f.threshold = Unreadable THEN 999 ELSE f.threshold

\* The elements of ss at the given positions, in their order.
Filter(ss, positions) ==
  LET kept[n \in 0..Len(ss)] ==
        IF n = 0 THEN <<>>
        ELSE IF n \in positions THEN Append(kept[n - 1], ss[n]) ELSE kept[n - 1]
  IN  kept[Len(ss)]

\* Mutant: a strategy must differ in both to be kept.
Others_Both(ss, k) ==
  Filter(ss, {i \in DOMAIN ss : ss[i].key[1] # k[1] /\ ss[i].key[2] # k[2]})

\* Mutant: the old strategy of the key stays.
Others_All(ss, k) == ss

\* The strategies that stay beside a new one of k.
Others(ss, k) ==
  Filter(ss, {i \in DOMAIN ss : ss[i].key[1] # k[1] \/ ss[i].key[2] # k[2]})

\* The list saveToDefault encodes.
Saved ==
  Append(Others(setup.strategies, setup.key),
         Entry(setup.key, [setup.form EXCEPT !.threshold = GetThreshold(setup.form)]))

\* What the file holds after the write: the new list, the old one when the
\* write fails, or a part that cannot be decoded.
Written(outcome) ==
  CASE outcome = "written" -> Saved
    [] outcome = "failed" -> file
    [] outcome = "lost" -> Damaged

\* Mutant: the Monitor does not load the file again.
SaveButtonPressed_NoReload(outcome) ==
  /\ running /\ setup # NoScreen
  /\ file' = Written(outcome)
  /\ setup' = NoScreen
  /\ lastSave' = outcome
  /\ UNCHANGED <<running, strategies>>

\* saveButtonPressed: the list is written, in place; a write that fails only
\* prints.  reloadData loads the file again.
SaveButtonPressed(outcome) ==
  /\ running /\ setup # NoScreen
  /\ file' = Written(outcome)
  /\ strategies' = LoadDefault(file', strategies)
  /\ setup' = NoScreen
  /\ lastSave' = outcome
  /\ UNCHANGED running

\* The screen is dismissed by its button or by a swipe.
BackButtonPressed ==
  /\ running /\ setup # NoScreen
  /\ setup' = NoScreen
  /\ UNCHANGED <<running, file, strategies, lastSave>>

Die ==
  /\ running
  /\ running' = FALSE
  /\ strategies' = <<>> /\ setup' = NoScreen

Quit == Die /\ UNCHANGED <<file, lastSave>>

\* The process ends within saveToDefault: part of the file is written.
QuitWhileSaving ==
  /\ setup # NoScreen
  /\ Die
  /\ file' = Damaged
  /\ lastSave' = "lost"

Next ==
  \/ Launch \/ BackButtonPressed \/ Quit \/ QuitWhileSaving
  \/ \E k \in Keys : CustomizePressed(k)
  \/ \E d \in Drafts : EditDraft(d)
  \/ \E outcome \in {"written", "failed", "lost"} : SaveButtonPressed(outcome)

Spec == Init /\ [][Next]_vars

-----------------------------------------------------------------------------
(* Properties *)

\* Each list has at most one strategy per key.
TypeOK ==
  /\ running \in BOOLEAN
  /\ file \in Lists \cup {Damaged}
  /\ strategies \in Lists /\ Len(strategies) <= Cardinality(Keys)
  /\ setup \in Screens \cup {NoScreen}
  /\ lastSave \in {"none", "written", "failed", "lost"}

\* The strategy a setup screen would show for a key is the one the labels of
\* the Monitor follow, although one takes the last and the other the first of
\* the list, each of its own copy, for as long as the file can be read.
ScreenAgreesWithLabels ==
  running /\ file # Damaged =>
    \A k \in Keys :
      /\ Has(file, k) = Has(strategies, k)
      /\ Has(file, k) => SetConfigValue(file, k) = FirstOf(strategies, k)

\* A strategy whose threshold is no number a user has entered never fires:
\* whatever the indicators show, its label stays inactive.
UnreadableNeverFires ==
  \A s \in ToSet(strategies) :
    (\A d \in Drafts : s.form.threshold # d.threshold) =>
      \A colours \in [Indicators -> Colours] : ~CheckSignal(s.form, colours, s.key[2])

\* A press of SAVE stores exactly what the screen shows, for the pair and
\* direction of the screen and for no other, where the labels will find it;
\* or the write fails and all stays, or it is cut short and all is lost.  No
\* other step changes a strategy, and the screen opens with the one saved
\* last (saveButtonPressed, saveToDefault, setConfigValue).
Store ==
  INSTANCE StrategyStore WITH
    Blank <- Storyboard,
    Never <- 999,
    store <- [k \in Keys |->
                IF file # Damaged /\ Has(file, k) THEN FirstOf(file, k) ELSE NoStrategy],
    screen <- IF setup = NoScreen THEN NoScreen
              ELSE [key |-> setup.key, form |-> setup.form]
ImplementsStore == Store!Spec

\* strategyConfigMessage: "BUY(SELL) Signal are triggered once the sum of
\* weights for the indicators which show BUY(SELL) is greater than the
\* threshold".
ActiveMeansGreater ==
  \A k \in Keys, colours \in [Indicators -> Colours] :
    SignalLabel(strategies, k, colours) = "Active" =>
      LET f == FirstOf(strategies, k) IN Total(f, colours, ColourOf(k[2])) > f.threshold

=============================================================================
