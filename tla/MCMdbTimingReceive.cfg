SPECIFICATION RSpec
CONSTANTS
  TickMod = 20
  Timeout = 5
  TimeoutSmall = 3
  TimeoutChar = 2
  TimeoutReceive = 4
  BlockMax = 3
  Delays <- MCDelays
  MaxDelay = 2
  ElapsedCap = 24
INVARIANT ReceiveWithinBudget
CHECK_DEADLOCK FALSE
