SPECIFICATION Spec
CONSTANTS
  Session = {s1, s2, s3}
  Id = {u1, u2}
  Email = {e1, e2}
  Null = Null
  NoUser = NoUser
SYMMETRY Symmetry
INVARIANT ErasureComplete
