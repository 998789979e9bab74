SPECIFICATION Spec
CONSTANTS
  Calls = {c1, c2}
  MaxStates = 2
  MaxDials = 2
INVARIANTS NoLeak OneCreator
PROPERTIES HandedOutTracked FollowersUnharmed AcquireReturns
CHECK_DEADLOCK FALSE
