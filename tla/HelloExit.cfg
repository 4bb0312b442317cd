SPECIFICATION Spec
CONSTANT
  Faults = {"crash"}
INVARIANT ExitZeroMeansShown
CHECK_DEADLOCK FALSE
