SPECIFICATION Spec
CONSTANTS
  Strategies = {s1, s2}
  TestTopic = test
  Tokens = {t1}
  NoRecord = NoRecord
  NoTopic = NoTopic
  Lossy = FALSE
  MaxCalls = 2
  MaxWrites = 1
  Products = {followAll}
  follow3 = follow3
  follow6 = follow6
  followAll = followAll
  NoProduct = NoProduct
  MaxReceipts = 2
  MaxTransactions = 1
INVARIANT EveryFollowedStrategyIsNotified
