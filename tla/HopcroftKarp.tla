---------------------------- MODULE HopcroftKarp ----------------------------
(***************************************************************************)
(* src/hopcroft_karp.cpp: maximum matching of a bipartite graph.  bfs() is *)
(* one action, since only the levels it leaves matter; dfs() is an         *)
(* explicit stack of its calls, one action per iteration of its loop.      *)
(***************************************************************************)
EXTENDS Integers, Sequences, FiniteSets, SequencesExt

CONSTANTS LeftSize, RightSize   \* natural numbers

Left == 0 .. LeftSize - 1
Right == 0 .. RightSize - 1
None == -1
INF == 1000000000

VARIABLES
  adj,                    \* adj_
  matchLeft, matchRight,
  distLeft, iter,
  matching,               \* maxMatching's count
  a,                      \* its loop variable
  stack,                  \* the calls of dfs under way, innermost last
  pc

vars == <<adj, matchLeft, matchRight, distLeft, iter, matching, a, stack, pc>>

addCompatiblePair(adjacent, pair) == [adjacent EXCEPT ![pair[1]] = Append(@, pair[2])]

\* The constructor, the pairs, and the entry of maxMatching.
Init(pairs) == /\ adj = FoldLeft(addCompatiblePair, [x \in Left |-> <<>>], pairs)
               /\ matchLeft = [x \in Left |-> None]
               /\ matchRight = [y \in Right |-> None]
               /\ distLeft = [x \in Left |-> 0]
               /\ iter = [x \in Left |-> 0]
               /\ matching = 0
               /\ a = 0
               /\ stack = <<>>
               /\ pc = "bfs"

-----------------------------------------------------------------------------
(* bfs *)

Free == {x \in Left : matchLeft[x] = None}
Neighbours(X) == UNION {Range(adj[x]) : x \in X}
MatesOf(Y) == {matchRight[y] : y \in Y} \ {None}

\* Wave[k]: the vertices reached from the free ones in at most k rounds.
Wave[k \in 0 .. LeftSize] ==
  IF k = 0 THEN Free ELSE Wave[k - 1] \cup MatesOf(Neighbours(Wave[k - 1]))

Reached == Wave[LeftSize]
Level(x) == CHOOSE k \in 0 .. LeftSize : x \in Wave[k] /\ \A l \in 0 .. k - 1 : x \notin Wave[l]

found == \E y \in Neighbours(Reached) : matchRight[y] = None

bfs == /\ pc = "bfs"
       /\ distLeft' = [x \in Left |-> IF x \in Reached THEN Level(x) ELSE INF]
       /\ \/ found /\ iter' = [x \in Left |-> 0] /\ a' = 0 /\ pc' = "sources"
          \/ ~found /\ pc' = "done" /\ UNCHANGED <<iter, a>>
       /\ UNCHANGED <<adj, matchLeft, matchRight, matching, stack>>

-----------------------------------------------------------------------------
(* maxMatching's loop over the sources of a phase *)

SkipSource == /\ pc = "sources" /\ a < LeftSize /\ matchLeft[a] # None
              /\ a' = a + 1
              /\ UNCHANGED <<adj, matchLeft, matchRight, distLeft, iter, matching, stack, pc>>

StartDfs == /\ pc = "sources" /\ a < LeftSize /\ matchLeft[a] = None
            /\ stack' = <<a>>
            /\ pc' = "dfs"
            /\ UNCHANGED <<adj, matchLeft, matchRight, distLeft, iter, matching, a>>

EndPhase == /\ pc = "sources" /\ a = LeftSize
            /\ pc' = "bfs"
            /\ UNCHANGED <<adj, matchLeft, matchRight, distLeft, iter, matching, a, stack>>

-----------------------------------------------------------------------------
(* dfs *)

Top == Last(stack)
Scanning == pc = "dfs" /\ iter[Top] < Len(adj[Top])
b(x) == adj[x][iter[x] + 1]
a2 == matchRight[b(Top)]

NextEdge == /\ Scanning
            /\ a2 # None /\ distLeft[a2] # distLeft[Top] + 1
            /\ iter' = [iter EXCEPT ![Top] = @ + 1]
            /\ UNCHANGED <<adj, matchLeft, matchRight, distLeft, matching, a, stack, pc>>

Recurse == /\ Scanning
           /\ a2 # None /\ distLeft[a2] = distLeft[Top] + 1
           /\ stack' = Append(stack, a2)
           /\ UNCHANGED <<adj, matchLeft, matchRight, distLeft, iter, matching, a, pc>>

\* Mutant: the caller tries the same edge again.
DeadEnd_Stays == /\ pc = "dfs" /\ iter[Top] = Len(adj[Top])
                 /\ stack' = Front(stack)
                 /\ \/ stack' = <<>> /\ pc' = "sources" /\ a' = a + 1
                    \/ stack' # <<>> /\ UNCHANGED <<pc, a>>
                 /\ UNCHANGED <<adj, matchLeft, matchRight, distLeft, iter, matching>>

\* dfs returns false, and its caller goes on with the next edge.
DeadEnd == /\ pc = "dfs" /\ iter[Top] = Len(adj[Top])
           /\ distLeft' = [distLeft EXCEPT ![Top] = INF]
           /\ stack' = Front(stack)
           /\ \/ stack' = <<>> /\ pc' = "sources" /\ a' = a + 1 /\ UNCHANGED iter
              \/ /\ stack' # <<>>
                 /\ iter' = [iter EXCEPT ![Last(stack')] = @ + 1]
                 /\ UNCHANGED <<pc, a>>
           /\ UNCHANGED <<adj, matchLeft, matchRight, matching>>

Calls == Range(stack)

\* Mutant: only the innermost call writes matchRight_.
Augment_Inner == /\ Scanning /\ a2 = None
                 /\ matchLeft' = [x \in Left |-> IF x \in Calls THEN b(x) ELSE matchLeft[x]]
                 /\ matchRight' = [matchRight EXCEPT ![b(Top)] = Top]
                 /\ matching' = matching + 1
                 /\ stack' = <<>> /\ pc' = "sources" /\ a' = a + 1
                 /\ UNCHANGED <<adj, distLeft, iter>>

\* A free right vertex: all calls return true, and each matches its edge.
Augment == /\ Scanning /\ a2 = None
           /\ matchLeft' = [x \in Left |-> IF x \in Calls THEN b(x) ELSE matchLeft[x]]
           /\ matchRight' = [y \in Right |->
                IF \E x \in Calls : b(x) = y THEN CHOOSE x \in Calls : b(x) = y
                                             ELSE matchRight[y]]
           /\ matching' = matching + 1
           /\ stack' = <<>> /\ pc' = "sources" /\ a' = a + 1
           /\ UNCHANGED <<adj, distLeft, iter>>

Next == bfs \/ SkipSource \/ StartDfs \/ EndPhase \/ NextEdge \/ Recurse \/ DeadEnd \/ Augment

Done == pc = "done"

-----------------------------------------------------------------------------
(* Properties *)

Edges == {e \in Left \X Right : e[2] \in Range(adj[e[1]])}

\* Between two augmentations the two arrays describe one matching along
\* edges, of the size maxMatching has counted; and dfs never calls itself for
\* a vertex that is being searched, though the levels are out of date by then.
MatchingIsValid ==
  /\ \A x \in Left : matchLeft[x] # None => /\ <<x, matchLeft[x]>> \in Edges
                                            /\ matchRight[matchLeft[x]] = x
  /\ \A y \in Right : matchRight[y] # None => matchLeft[matchRight[y]] = y
  /\ matching = Cardinality({x \in Left : matchLeft[x] # None})
  /\ IsInjective(stack)
=============================================================================
