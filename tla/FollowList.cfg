\* Two strategies and the bounds 1 and 3: a trim keeps one and removes one.
\* Two tokens: a second one can arrive.  Two calls: one can overtake the other,
\* or wait with it.  No symmetry under a liveness property.
SPECIFICATION FairSpec
CONSTANTS
  Strategies = {s1, s2}
  TestTopic = test
  Tokens = {t1, t2}
  Bounds = {1, 3}
  NoRecord = NoRecord
  NoTopic = NoTopic
  Lossy = TRUE
  MaxCalls = 2
  MaxWrites = 1
INVARIANTS
  TypeOK
  OnlyFollowedNotify
  CheckedStrategyNotifies
  CopiesDifferByTrims
  FollowedOnce
  OneUserRecord
PROPERTY RequestsTakeEffect
