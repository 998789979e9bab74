SPECIFICATION FairSpec
CONSTANTS
  MaxCalls = 3
  Requests <- MCRequests
  MaxEnv = 2
  MaxMoves = 1
INVARIANTS CondHeld Coalesced
PROPERTIES FitsEnvironment CallsReturn
CHECK_DEADLOCK FALSE
