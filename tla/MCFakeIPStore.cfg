SPECIFICATION Spec
CONSTANTS
  Domains = {d1, d2, d3}
  Calls = {c1, c2}
  None = None
  Size = 5
  MaxLives = 2
INVARIANTS
  Inverse
PROPERTIES
  OldestFirst
  CleanRestartKeeps
CHECK_DEADLOCK FALSE
