SPECIFICATION Spec
CONSTANTS
  Tags = {"a", "b", "c"}
  Local = "local"
  MaxServers = 3
INVARIANTS DefaultNotFakeIP
CHECK_DEADLOCK FALSE
