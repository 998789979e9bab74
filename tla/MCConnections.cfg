SPECIFICATION FairSpec
CONSTANTS
  Outbounds = {"o1", "o2"}
  Handlers = {"o2"}
  Default = "o1"
  MaxConns = 1
  MaxSelects = 2
INVARIANTS SwitchInterrupts Released
PROPERTIES ClosedEnds
CHECK_DEADLOCK FALSE
