------------------------------ MODULE Indicators ------------------------------
(***************************************************************************)
(* The formulas of IndicatorManager: how the series of a response becomes  *)
(* the series of a time frame, and how a colour is read off it, from one   *)
(* response to the next.  A series of a frame has its newest rate first.   *)
(* The lengths of the windows are parameters; the code's are given with    *)
(* each.  IndicatorMonitor has the requests, and what their overlap does.  *)
(*                                                                         *)
(* Float and Double are replaced by exact arithmetic on whole prices: each *)
(* comparison is multiplied out by its denominators.  Where the code       *)
(* divides zero by zero, every comparison with the result is false.        *)
(***************************************************************************)
EXTENDS Integers, SequencesExt

CONSTANTS
  SlowLength, FastLength, SignalLength,  \* calculateMACD: 26, 12, 9
  RSILength,                             \* calculateRSI: 14
  SMALength,                             \* calculateADX: 20
  BBLength,                              \* calculateBB: 20
  StochLength,                           \* calculateStoch: 9
  MaxPrice,                              \* bound: prices are 0..MaxPrice
  Bars,                                  \* bound: the rates a response may have
  MaxRates                               \* bound: rates of a response

\* A rate's low, close and high.
Bar == [low : 0..MaxPrice, close : 0..MaxPrice, high : 0..MaxPrice]

ASSUME IndicatorsAssumption ==
  /\ SlowLength \in Nat /\ FastLength \in 1..SlowLength /\ SignalLength \in Nat \ {0}
  /\ RSILength \in Nat \ {0} /\ SMALength \in Nat \ {0}
  /\ BBLength \in Nat \ {0, 1} /\ StochLength \in Nat \ {0}
  /\ MaxPrice \in Nat /\ MaxRates \in Nat \ {0}
  /\ Bars \subseteq {b \in Bar : b.low <= b.close /\ b.close <= b.high}

VARIABLES
  response,   \* lowTs, closeTs and highTs of the last response, oldest rate first
  indicators  \* the colour of each formula in each time frame

vars == <<response, indicators>>

Closes(bs) == [i \in DOMAIN bs |-> bs[i].close]
Highs(bs) == [i \in DOMAIN bs |-> bs[i].high]
Lows(bs) == [i \in DOMAIN bs |-> bs[i].low]

-----------------------------------------------------------------------------
(* Time frames *)

\* Rates of 15 minutes per rate of the time frame; "12h" is the code's "D".
TimeFrames == {"15m", "30m", "1h", "4h", "12h"}
Interval(tf) ==
  CASE tf = "15m" -> 1
    [] tf = "30m" -> 2
    [] tf = "1h" -> 4
    [] tf = "4h" -> 16
    [] tf = "12h" -> 48

\* Mutant: sampled from the oldest rate on.
GenerateData_FromOldest(ts, tf) ==
  [i \in 1..((Len(ts) - 1) \div Interval(tf) + 1) |-> ts[(i - 1) * Interval(tf) + 1]]

\* generateData of a series that is not empty (IndicatorMonitor has the end
\* of the process for an empty one): newest first, one rate per interval.
GenerateData(ts, tf) ==
  [i \in 1..((Len(ts) - 1) \div Interval(tf) + 1) |-> Reverse(ts)[(i - 1) * Interval(tf) + 1]]

-----------------------------------------------------------------------------
(* Colours *)

Colour(green, red) == IF green THEN "Green" ELSE IF red THEN "Red" ELSE "Gray"

\* The positions of ts[i], ..., ts[i + n - 1] of the code, which counts from 0.
Window(i, n) == (i + 1)..(i + n)

WindowTotal(ts, i, n) == SumFunctionOnSet(ts, Window(i, n))

\* ma12 - ma26 at rate i, times FastLength * SlowLength.
Difference(ts, i) ==
  SlowLength * WindowTotal(ts, i, FastLength) - FastLength * WindowTotal(ts, i, SlowLength)

\* df - macd for i = 0 and df1 - macd1 for i = 1, times SignalLength too.
Excess(ts, i) ==
  SignalLength * Difference(ts, i)
    - SumFunction([j \in i..(i + SignalLength - 1) |-> Difference(ts, j)])

\* Mutant: the fall needs no acceleration.
CalculateMACD_AnyFall(ts) ==
  IF Len(ts) < SlowLength + SignalLength
  THEN "Gray"
  ELSE Colour(Excess(ts, 0) > 0 /\ Excess(ts, 0) > Excess(ts, 1), Excess(ts, 0) < 0)

CalculateMACD(ts) ==
  IF Len(ts) < SlowLength + SignalLength
  THEN "Gray"
  ELSE Colour(Excess(ts, 0) > 0 /\ Excess(ts, 0) > Excess(ts, 1),
              Excess(ts, 0) < 0 /\ Excess(ts, 0) < Excess(ts, 1))

\* rsi = 100 gain / (gain + loss), which is no number in a flat market.
CalculateRSI(ts) ==
  IF Len(ts) < RSILength + 1
  THEN "Gray"
  ELSE LET Rise(i) == IF ts[i] > ts[i + 1] THEN ts[i] - ts[i + 1] ELSE 0
           Fall(i) == IF ts[i] > ts[i + 1] THEN 0 ELSE ts[i + 1] - ts[i]
           gain == SumFunction([i \in Window(0, RSILength) |-> Rise(i)])
           loss == SumFunction([i \in Window(0, RSILength) |-> Fall(i)])
       IN  Colour(10 * gain < 3 * (gain + loss), 10 * gain > 7 * (gain + loss))

\* A simple moving average, whatever its name says.
CalculateADX(ts) ==
  IF Len(ts) < SMALength + 1
  THEN "Gray"
  ELSE LET ma == WindowTotal(ts, 0, SMALength)
           ma1 == WindowTotal(ts, 1, SMALength)
       IN  Colour(ts[1] > ts[2] /\ ma > ma1 /\ SMALength * ts[1] > ma,
                  ts[1] < ts[2] /\ ma < ma1 /\ SMALength * ts[1] < ma)

\* The price p is more than two standard deviations from the mean of the
\* closes cts, on the side that the sign says.
Outside(cts, p, sign) ==
  LET sum == WindowTotal(cts, 0, BBLength)
      spread == SumFunction([i \in Window(0, BBLength) |->
                               (BBLength * cts[i] - sum) * (BBLength * cts[i] - sum)])
      distance == sign * (BBLength * p - sum)
  IN  distance > 0 /\ (BBLength - 1) * distance * distance > 4 * spread

\* A rate above the upper band decides before one below the lower.
CalculateBB(cts, hts, lts) ==
  CASE Len(cts) < BBLength -> "Gray"
    [] Len(cts) >= BBLength ->
         LET above == Outside(cts, hts[1], 1) \/ Outside(cts, hts[2], 1)
             below == Outside(cts, lts[1], -1) \/ Outside(cts, lts[2], -1)
         IN  Colour(below /\ ~above, above)

\* Mutant: the window ends before the rate itself.
Highest_Before(hts, i) == Max({hts[k] : k \in Window(i + 1, StochLength)})

\* h and l of calculateStoch at rate i.
Highest(hts, i) == Max({hts[k] : k \in Window(i, StochLength)})
Lowest(lts, i) == Min({lts[k] : k \in Window(i, StochLength)})

\* Mutant: a market without a range counts as the bottom of it.
CalculateStoch_ZeroRange(cts, hts, lts) ==
  IF Len(cts) < StochLength + 3
  THEN "Gray"
  ELSE LET n(i) == cts[i + 1] - Lowest(lts, i)
           d(i) == Highest(hts, i) - Lowest(lts, i)
           sum == n(0) * d(1) * d(2) + n(1) * d(0) * d(2) + n(2) * d(0) * d(1)
           unit == d(0) * d(1) * d(2)
       IN  Colour(4 * sum <= 3 * unit, 4 * sum > 9 * unit)

\* The mean of K = 100 n / d over the three newest rates; no number if the
\* market did not move over one of the windows, where n is 0 too.
CalculateStoch(cts, hts, lts) ==
  IF Len(cts) < StochLength + 3
  THEN "Gray"
  ELSE LET n(i) == cts[i + 1] - Lowest(lts, i)
           d(i) == Highest(hts, i) - Lowest(lts, i)
           sum == n(0) * d(1) * d(2) + n(1) * d(0) * d(2) + n(2) * d(0) * d(1)
           unit == d(0) * d(1) * d(2)
       IN  Colour(4 * sum < 3 * unit, 4 * sum > 9 * unit)

\* calculateAll, for the rates of a response, oldest first.
CalculateAll(bs) ==
  [tf \in TimeFrames |->
     LET cts == GenerateData(Closes(bs), tf)
         hts == GenerateData(Highs(bs), tf)
         lts == GenerateData(Lows(bs), tf)
     IN  [macd |-> CalculateMACD(cts), bband |-> CalculateBB(cts, hts, lts),
          rsi |-> CalculateRSI(cts), stoch |-> CalculateStoch(cts, hts, lts),
          adx |-> CalculateADX(cts)]]

-----------------------------------------------------------------------------
(* One response after another *)

Formulas == {"macd", "bband", "rsi", "stoch", "adx"}

Init ==
  /\ response = <<>>
  /\ indicators = [tf \in TimeFrames |-> [f \in Formulas |-> "Gray"]]

\* The service answers with its latest rates, up to one more than last time.
Latest(b) == Append(IF Len(response) < MaxRates THEN response ELSE Tail(response), b)

\* Mutant: the series of the last response is not cleared.
HandleResponse_NoClear(b) ==
  /\ response' = response \o Latest(b)
  /\ indicators' = CalculateAll(response')

\* handle, for a response that can be decoded and that no other one overlaps.
HandleResponse(b) ==
  /\ response' = Latest(b)
  /\ indicators' = CalculateAll(response')

Next == \E b \in Bars : HandleResponse(b)

Spec == Init /\ [][Next]_vars

-----------------------------------------------------------------------------
(* Properties *)

\* Types; a response's rates are never mixed with those of another.
TypeOK ==
  /\ response \in Seq(Bars) /\ Len(response) <= MaxRates
  /\ indicators \in [TimeFrames -> [Formulas -> {"Green", "Red", "Gray"}]]

\* BUY for SELL.
Opposite(colour) ==
  CASE colour = "Green" -> "Red"
    [] colour = "Red" -> "Green"
    [] colour = "Gray" -> "Gray"

\* The market turned upside down: every price p becomes MaxPrice - p, so rises
\* become falls of the same size.
Mirrored(bs) ==
  [i \in DOMAIN bs |-> [low |-> MaxPrice - bs[i].high, close |-> MaxPrice - bs[i].close,
                        high |-> MaxPrice - bs[i].low]]

\* BUY and SELL are treated alike: in the mirrored market each indicator
\* says the opposite.  The one exception is a market that breaks both bands,
\* which calculateBB calls Red either way.
MirrorImage ==
  response # <<>> =>
    \A tf \in TimeFrames :
      LET mirror == CalculateAll(Mirrored(response))[tf] IN
      \A f \in Formulas :
        \/ mirror[f] = Opposite(indicators[tf][f])
        \/ f = "bband" /\ mirror[f] = "Red" /\ indicators[tf][f] = "Red"

\* A market that does not move gives no signal, although there gain / loss
\* and (close - l) / (h - l) are 0 / 0 and the bands have no width.
FlatIsGray ==
  Cardinality(UNION {{b.low, b.high} : b \in ToSet(response)}) <= 1
    => \A f \in Formulas, tf \in TimeFrames : indicators[tf][f] = "Gray"

\* K is a percentage wherever calculateStoch computes it: the close is one of
\* the window h and l are taken from, in every time frame (the loops over j
\* start at the rate itself, and count from 0).
PercentInRange ==
  response # <<>> =>
    \A tf \in TimeFrames :
      LET cts == GenerateData(Closes(response), tf)
          hts == GenerateData(Highs(response), tf)
          lts == GenerateData(Lows(response), tf)
      IN  Len(cts) >= StochLength + 3 =>
            \A i \in 0..2 : Lowest(lts, i) <= cts[i + 1] /\ cts[i + 1] <= Highest(hts, i)

\* A time frame has exactly the rates at whole intervals before the newest
\* one, newest first, however many rates the service sent before these.
FramesCountFromNewest ==
  response # <<>> =>
    \A tf \in TimeFrames, older \in {0, Interval("4h"), Interval("12h")} :
      LET n == older + Len(response)
          frame == GenerateData([i \in 1..n |-> i], tf)
      IN  /\ ToSet(frame) = {k \in 1..n : (n - k) % Interval(tf) = 0}
          /\ \A i, j \in DOMAIN frame : i < j => frame[i] > frame[j]

=============================================================================
