------------------------ MODULE MCEventRegistration ------------------------
(* Instances of EventRegistration for TLC: sessions are interchangeable, and *)
(* so are users.                                                             *)
EXTENDS EventRegistration, TLC

Symmetry == Permutations(Session) \cup Permutations(User)
=============================================================================
