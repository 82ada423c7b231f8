-------------------------- MODULE MCIndicatorMonitor --------------------------
(* IndicatorMonitor for TLC: requests, and contents of the file, are          *)
(* interchangeable.                                                           *)
EXTENDS IndicatorMonitor

Symmetry == Permutations(Requests) \cup Permutations(Versions \ {NoStrategies})

=============================================================================
