SPECIFICATION FairSpec
CONSTANTS
  MaxCalls = 3
  Followers = {f1}
  Waiters = {w1}
  EmitBuffer = 1
  Inbox = 2
  MaxBoxes = 3
INVARIANTS StatusTrue OneBox WatchersTold
PROPERTIES CallsReturn
CHECK_DEADLOCK FALSE
