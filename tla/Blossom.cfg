SPECIFICATION FairSpec
CONSTANTS
  N = 6
  Inputs <- AllGraphs
INVARIANTS MatchingIsValid MaximumWhenDone NoWildIndex
PROPERTY Terminates
CHECK_DEADLOCK FALSE
