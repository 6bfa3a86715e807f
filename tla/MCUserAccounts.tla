--------------------------- MODULE MCUserAccounts ---------------------------
(* Symmetry of UserAccounts for TLC: handlers have no order. *)
EXTENDS UserAccounts, TLC

Symmetry == Permutations(Session)
=============================================================================
