----------------------------- MODULE Hungarian -----------------------------
(***************************************************************************)
(* src/hungarian.cpp: the assignment with the greatest total score.  One   *)
(* action is one iteration of solve()'s loops over the rows, over the      *)
(* columns of a row's search, and along the path the search found; the     *)
(* inner for loops are part of it.                                         *)
(***************************************************************************)
EXTENDS Integers, FiniteSets, FiniteSetsExt

CONSTANT N   \* n_; the constructor asserts that it is not 0

Line == 1 .. N        \* rows, and columns
Line0 == 0 .. N       \* with the dummy
INF == 1073741823     \* numeric_limits<int>::max() / 2

VARIABLES
  cost,        \* cost_
  u, v,        \* potentials
  p, way,
  i, j0,
  minv, used,  \* `used` is the set of the columns with used[j]
  assignment, maxScore,
  pc

vars == <<cost, u, v, p, way, i, j0, minv, used, assignment, maxScore, pc>>

\* The constructor, and solve() up to its loop.
Init(costMatrix) == /\ cost = [r \in Line |-> [c \in Line |-> -costMatrix[r - 1][c - 1]]]
                    /\ u = [r \in Line0 |-> 0]
                    /\ v = [c \in Line0 |-> 0]
                    /\ p = [c \in Line0 |-> 0]
                    /\ way = [c \in Line0 |-> 0]
                    /\ i = 1 /\ j0 = 0
                    /\ minv = [c \in Line0 |-> INF]
                    /\ used = {}
                    /\ assignment = [r \in 0 .. N - 1 |-> -1]
                    /\ maxScore = 0
                    /\ pc = "rows"

StartRow == /\ pc = "rows" /\ i <= N
            /\ p' = [p EXCEPT ![0] = i]
            /\ j0' = 0
            /\ minv' = [c \in Line0 |-> INF]
            /\ used' = {}
            /\ pc' = "search"
            /\ UNCHANGED <<cost, u, v, way, i, assignment, maxScore>>

-----------------------------------------------------------------------------
(* The search from row i: one column more is used *)

cur(j) == cost[p[j0]][j] - u[p[j0]] - v[j]
Closer == {j \in Line \ (used \cup {j0}) : cur(j) < minv[j]}
NewMin == [j \in Line0 |-> IF j \in Closer THEN cur(j) ELSE minv[j]]

\* The first unused column with the least minv.
j1 == LET open == Line \ (used \cup {j0})
      IN  CHOOSE j \in open : \A k \in open : /\ NewMin[j] <= NewMin[k]
                                              /\ NewMin[j] = NewMin[k] => j <= k
delta == NewMin[j1]

\* Mutant: the columns keep their potentials.
Shift_Rows(U) == /\ u' = [r \in Line0 |-> u[r] + delta * Cardinality({j \in U : p[j] = r})]
                 /\ minv' = [j \in Line0 |-> IF j \in U THEN NewMin[j] ELSE NewMin[j] - delta]
                 /\ UNCHANGED v

\* The potentials move by delta.
Shift(U) == /\ u' = [r \in Line0 |-> u[r] + delta * Cardinality({j \in U : p[j] = r})]
            /\ v' = [j \in Line0 |-> IF j \in U THEN v[j] - delta ELSE v[j]]
            /\ minv' = [j \in Line0 |-> IF j \in U THEN NewMin[j] ELSE NewMin[j] - delta]

Search == /\ pc = "search"
          /\ used' = used \cup {j0}
          /\ way' = [j \in Line0 |-> IF j \in Closer THEN j0 ELSE way[j]]
          /\ Shift(used')
          /\ j0' = j1
          /\ pc' = IF p[j1] = 0 THEN "flip" ELSE "search"
          /\ UNCHANGED <<cost, p, i, assignment, maxScore>>

-----------------------------------------------------------------------------
\* Mutant: the path is not followed to its beginning.
Flip_Once == /\ pc = "flip"
             /\ p' = [p EXCEPT ![j0] = i]
             /\ j0' = 0 /\ i' = i + 1 /\ pc' = "rows"
             /\ UNCHANGED <<cost, u, v, way, minv, used, assignment, maxScore>>

\* Along the path each column takes the row of the one before it.
Flip == /\ pc = "flip"
        /\ p' = [p EXCEPT ![j0] = p[way[j0]]]
        /\ j0' = way[j0]
        /\ \/ j0' = 0 /\ i' = i + 1 /\ pc' = "rows"
           \/ j0' # 0 /\ UNCHANGED <<i, pc>>
        /\ UNCHANGED <<cost, u, v, way, minv, used, assignment, maxScore>>

Finish == /\ pc = "rows" /\ i = N + 1
          /\ assignment' = [r \in 0 .. N - 1 |->
               IF \E j \in Line : p[j] = r + 1 THEN (CHOOSE j \in Line : p[j] = r + 1) - 1 ELSE -1]
          /\ maxScore' = MapThenSumSet(LAMBDA j : -cost[p[j]][j], Line)
          /\ pc' = "done"
          /\ UNCHANGED <<cost, u, v, p, way, i, j0, minv, used>>

Next == StartRow \/ Search \/ Flip \/ Finish

Done == pc = "done"

-----------------------------------------------------------------------------
(* Properties *)

Largest == Max({-cost[r][c] : r, c \in Line} \cup {1})

\* Between two rows: the rows done are assigned, each to one column, and the
\* potentials prove that no assignment of these rows costs less.  No reduced
\* cost is negative, that of an assigned pair is zero, and a column without a
\* row has potential zero.  All potentials stay far below INF.
PotentialsProveOptimality ==
  pc = "rows" =>
    /\ \A r \in 1 .. i - 1 : \E j \in Line : p[j] = r
    /\ \A r \in 1 .. i - 1, j \in Line : u[r] + v[j] <= cost[r][j]
    /\ \A j \in Line : p[j] # 0 => u[p[j]] + v[j] = cost[p[j]][j]
    /\ \A j \in Line : v[j] <= 0 /\ (p[j] = 0 => v[j] = 0)
    /\ \A k \in Line0 : {u[k], v[k]} \subseteq -(2 * N * Largest) .. 2 * N * Largest
=============================================================================
