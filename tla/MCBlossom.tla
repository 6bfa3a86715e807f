----------------------------- MODULE MCBlossom -----------------------------
(* Inputs of Blossom for TLC. *)
EXTENDS Blossom

\* Every graph on N vertices, its pairs added in lexicographic order.
AllPairs == {p \in Vertex \X Vertex : p[1] < p[2]}
Grid == [k \in 1 .. N * N |-> <<(k - 1) \div N, (k - 1) % N>>]
InOrder(E) == SelectSeq(Grid, LAMBDA p : p \in E)
AllGraphs == {InOrder(E) : E \in SUBSET AllPairs}

\* On 10 vertices, a graph with several odd cycles.
NestedCycles ==
  {<< <<0,9>>, <<2,5>>, <<5,6>>, <<3,4>>, <<3,9>>, <<7,9>>, <<3,7>>, <<1,2>>,
      <<1,5>>, <<0,6>>, <<0,1>>, <<3,8>>, <<8,9>>, <<2,3>>, <<1,4>> >>}
=============================================================================
