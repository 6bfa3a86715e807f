SPECIFICATION FairSpec
CONSTANTS
  Session = {s1, s2, s3}
  Version = {1, 2}
  MaxRows = 4
INVARIANT CurrentBounded
PROPERTIES AlwaysOneToRead CallsReturn
CHECK_DEADLOCK FALSE
