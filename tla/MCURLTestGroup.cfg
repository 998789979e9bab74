SPECIFICATION FairSpec
CONSTANTS
  Members <- MCMembers
  Networks = {"tcp", "udp"}
  Supports <- MCSupports
  Delays <- MCDelays
  Tolerance = 1
  MaxDials = 1
  MaxTickers = 2
INVARIANTS Chosen LoopServesTicker
PROPERTIES IdleStops
CHECK_DEADLOCK FALSE
