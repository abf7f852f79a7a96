SPECIFICATION Spec
CONSTANTS
  TickMod = 20
  Timeout = 4
  TimeoutSmall = 3
  TimeoutChar = 3
  BlockMax = 2
  Delays <- MCDelays
  MaxDelay = 7
  WordTime = 2
  Horizon = 34
INVARIANT TypeOK
INVARIANT PromptAnswerRead
INVARIANT ResponseBounded
PROPERTY ImplementsTiming
CHECK_DEADLOCK FALSE
