--------------------------- MODULE MCStrategyConfig ---------------------------
(* StrategyConfig for TLC: two indicators, one of which the storyboard puts *)
(* into four of the five slots, and a few drafts.                           *)
EXTENDS StrategyConfig

CONSTANTS macd, rsi

Draft(ind, w, t) == [indicator |-> ind, weight |-> w, threshold |-> t]
Same(x) == [i \in Slots |-> x]
Mixed == [i \in Slots |-> IF i = 5 THEN rsi ELSE macd]

MCStoryboard == Draft(Mixed, Same(0), Unreadable)

\* Saved as it opens; all weights at their limit without a threshold; a
\* threshold that both colours together reach, and one that cannot be missed.
MCDrafts == {
  Draft(Same(macd), Same(100), Unreadable),
  Draft(Mixed, Same(100), 400),
  Draft(Mixed, Same(0), 0) }
=============================================================================
