SPECIFICATION Spec
CONSTANTS
  Tags = {"a", "b", "c"}
  Local = "local"
  MaxServers = 3
INVARIANTS ServesUntilClosed
CHECK_DEADLOCK FALSE
