\* Two pairs, three requests of a process, strategies saved at any time: every
\* overlap of their handlers with each other and with the main thread.
SPECIFICATION Spec
CONSTANTS
  Pairs = {eurusd, gbpusd}
  FirstPair = eurusd
  Versions = {none, v1}
  NoStrategies = none
  Requests = {r1, r2, r3}
  MaxUpdates = 2
  Nothing = Nothing
SYMMETRY Symmetry
INVARIANTS
  TypeOK
  CrashHasCause
  SavedStrategyReachesScreen
PROPERTY UndisturbedUpdateIsRight
