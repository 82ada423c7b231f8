\* The requests of a process are answered in any order.
SPECIFICATION Spec
CONSTANTS
  Pairs = {eurusd, gbpusd}
  FirstPair = eurusd
  Versions = {none, v1}
  NoStrategies = none
  Requests = {r1, r2, r3}
  MaxUpdates = 2
  Nothing = Nothing
SYMMETRY Symmetry
INVARIANT RateIsOfItsPair
