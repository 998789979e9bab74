SPECIFICATION NetworkSpec
CONSTANTS
  Deaths = {d1}
  MaxEpoch = 1
  MaxProbes = 2
  FailureLimit = 2
INVARIANTS SupportedByPresentProbe ProbingIsProbed ResetOwed EnvironmentPresent LearnedHere
CHECK_DEADLOCK FALSE
