SPECIFICATION FairSpec
CONSTANTS
  N = 3
  Tables <- SparseTables
INVARIANTS MatchingIsValid PotentialsProveOptimality NoBlockingCouple StableWhenDone ProposerOptimal MaximumCardinality OptimalScore NotesAreTrue
PROPERTY Answered
CHECK_DEADLOCK FALSE
