---------------------------- MODULE MCSignalsFeed ----------------------------
(* SignalsFeed for TLC: the strategies are interchangeable.                 *)
EXTENDS SignalsFeed

Symmetry == Permutations(Topics)

=============================================================================
