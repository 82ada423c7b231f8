\* The text of the instruction against the rule of the labels.
SPECIFICATION Spec
CONSTANTS
  Pairs = {eurusd}
  macd = macd
  rsi = rsi
  Indicators = {macd, rsi}
  Drafts <- MCDrafts
  Storyboard <- MCStoryboard
  Unreadable = Unreadable
  NoScreen = NoScreen
  NoStrategy = NoStrategy
  Damaged = Damaged
INVARIANT ActiveMeansGreater
