\* Two pairs in both directions: a save can touch the wrong pair, the wrong
\* direction or both.
SPECIFICATION Spec
CONSTANTS
  Pairs = {eurusd, gbpusd}
  macd = macd
  rsi = rsi
  Indicators = {macd, rsi}
  Drafts <- MCDrafts
  Storyboard <- MCStoryboard
  Unreadable = Unreadable
  NoScreen = NoScreen
  NoStrategy = NoStrategy
  Damaged = Damaged
INVARIANTS TypeOK ScreenAgreesWithLabels UnreadableNeverFires
PROPERTY ImplementsStore
