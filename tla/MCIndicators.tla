----------------------------- MODULE MCIndicators -----------------------------
(* Indicators for TLC.                                                        *)
EXTENDS Indicators

\* Rates that do not move, at three prices; one that swings to either side; and
\* one that ends in the middle of its range.
B(l, c, h) == [low |-> l, close |-> c, high |-> h]
SomeBars == {B(1, 1, 1), B(2, 2, 2), B(3, 3, 3), B(0, 1, 2), B(2, 3, 4), B(0, 2, 4)}

=============================================================================
