----------------------------- MODULE MCRunners -----------------------------
(* Tables of Runners for TLC. *)
EXTENDS Runners

\* A man is compatible with two women (every pair of them), or with the first
\* only: the phases must undo choices, and some men stay single.  A score of
\* the first two men may be the threshold itself, and theirs may be equal.
Rows == {r \in [Index -> {50, 65, 90}] :
           LET good == {w \in Index : r[w] >= THRESHOLD}
           IN  \/ good = {0} /\ r[0] = 90
               \/ Cardinality(good) = 2 /\ r[Max(good)] # r[Min(good)]}
SparseTables ==
  {[m \in Index |-> [w \in Index |-> t[m][w] + m \div 2]] : t \in [Index -> Rows]}
=============================================================================
