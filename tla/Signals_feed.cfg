\* One row fewer than signals, two strategies: a position is opened, closed
\* and cut off the list while the bound changes.
SPECIFICATION FeedSpec
CONSTANTS
  Products = {follow3, followAll, other}
  follow3 = follow3
  follow6 = follow6
  followAll = followAll
  NoProduct = NoProduct
  MaxReceipts = 2
  MaxTransactions = 2
  Topics = {p1, p2}
  numberOfSignals = 2
  NotDrawn = NotDrawn
  MaxSignals = 3
SYMMETRY Symmetry
INVARIANTS
  TypeOK
  FeedTypeOK
  PremiumIsBacked
  ScreenRightUntilAnswer
  LiveIsLatest
  OpenSignalsAreBacked
PROPERTY ExpiredUnlocksNothing
