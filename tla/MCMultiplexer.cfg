SPECIFICATION Spec
CONSTANTS
  Queries = {q1, q2}
  IdSpace = 9
  MaxConns = 2
  MaxReads = 1
  RetryReadError = TRUE
  ProbeReuse = TRUE
SYMMETRY Symmetry
INVARIANTS OneOwner NoneStranded
PROPERTIES Implements
CHECK_DEADLOCK FALSE
