SPECIFICATION MCSpec
CONSTANTS
  Session = {s1, s2, s3}
  Id = {u1, u2}
  Email = {e1, e2}
  Null = Null
  NoUser = NoUser
  MaxRows = 6
  Limit = 2
SYMMETRY Symmetry
INVARIANTS CredentialsErasedFirst DeletionIsFinal HistoryComplete DriftBounded
PROPERTY ErasedForGood
