SPECIFICATION RSpec
CONSTANTS
  TickMod = 20
  Timeout = 5
  TimeoutSmall = 3
  TimeoutChar = 2
  TimeoutReceive = 4
  BlockMax = 3
  Delays <- MCDelays
  MaxDelay = 2
  ElapsedCap = 24
INVARIANT TypeOK
INVARIANT ClockInv
INVARIANT NoPanicWithRoom
INVARIANT SendGivenUpLate
PROPERTY NoEarlyTimeout
PROPERTY NoSleepPastDeadline
PROPERTY WaitReceiveReturns
CHECK_DEADLOCK FALSE
