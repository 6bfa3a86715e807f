SPECIFICATION Spec
CONSTANTS
  N = 10
  Inputs <- NestedCycles
INVARIANT MatchingIsValid
CHECK_DEADLOCK FALSE
