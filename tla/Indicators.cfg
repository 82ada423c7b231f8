\* Windows of two and three rates, responses of up to six: one rate more than
\* the longest series that a formula asks for.
SPECIFICATION Spec
CONSTANTS
  SlowLength = 3
  FastLength = 2
  SignalLength = 2
  RSILength = 3
  SMALength = 3
  BBLength = 3
  StochLength = 2
  MaxPrice = 4
  Bars <- SomeBars
  MaxRates = 6
INVARIANTS
  TypeOK
  MirrorImage
  FlatIsGray
  PercentInRange
  FramesCountFromNewest
