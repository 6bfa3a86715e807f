------------------------------ MODULE Blossom ------------------------------
(***************************************************************************)
(* src/blossom.cpp: maximum matching of a general graph.  One action is    *)
(* one iteration of one of the code's loops: maxMatching's over the        *)
(* sources, augment's over the queue and over a vertex's neighbours, the   *)
(* two walks of lca, markPath's and the flip of the path that was found.   *)
(***************************************************************************)
EXTENDS Integers, Sequences, FiniteSets, SequencesExt

CONSTANTS N,      \* numPeople
          Inputs  \* sequences of pairs given to addCompatiblePair

Vertex == 0 .. N - 1
None == -1

VARIABLES
  adj,             \* adj_
  match, result,   \* match_; the augmentations so far
  s,               \* maxMatching's v: the source
  label, pred, base, q,
  v, i,            \* the vertex taken from q, its next neighbour
  a, b, visited,   \* lca's; a, child and root are markPath's v, child and b
  child, root,
  pc

graph == <<adj, match, result, s>>
forest == <<label, pred, base, q>>
scan == <<v, i>>
walk == <<a, b, visited, child, root>>
vars == <<graph, forest, scan, walk, pc>>

Outer == 1
Inner == -1
Unlabelled == 0

addCompatiblePair(adjacent, pair) ==
  [adjacent EXCEPT ![pair[1]] = Append(@, pair[2]), ![pair[2]] = Append(@, pair[1])]

\* The constructor, the pairs, and the entry of maxMatching.
Start(pairs) == /\ adj = FoldLeft(addCompatiblePair, [x \in Vertex |-> <<>>], pairs)
                /\ match = [x \in Vertex |-> None]
                /\ result = 0 /\ s = 0
                /\ label = [x \in Vertex |-> Unlabelled]
                /\ pred = [x \in Vertex |-> None]
                /\ base = [x \in Vertex |-> x]
                /\ q = <<>>
                /\ v = None /\ i = 0
                /\ a = None /\ b = None /\ visited = {} /\ child = None /\ root = None
                /\ pc = "source"

Init == \E pairs \in Inputs : Start(pairs)

-----------------------------------------------------------------------------
(* maxMatching, and the beginning and the end of augment *)

SkipSource == /\ pc = "source" /\ s < N
              /\ match[s] # None
              /\ s' = s + 1
              /\ UNCHANGED <<adj, match, result, forest, scan, walk, pc>>

StartAugment == /\ pc = "source" /\ s < N
                /\ match[s] = None
                /\ label' = [x \in Vertex |-> IF x = s THEN Outer ELSE Unlabelled]
                /\ pred' = [x \in Vertex |-> None]
                /\ base' = [x \in Vertex |-> x]
                /\ q' = <<s>>
                /\ pc' = "pop"
                /\ UNCHANGED <<graph, scan, walk>>

\* The queue is empty: no augmenting path from s.
GiveUp == /\ pc = "pop" /\ q = <<>>
          /\ s' = s + 1
          /\ pc' = "source"
          /\ UNCHANGED <<adj, match, result, forest, scan, walk>>

PopVertex == /\ pc = "pop" /\ q # <<>>
             /\ v' = Head(q) /\ i' = 1
             /\ q' = Tail(q)
             /\ pc' = "scan"
             /\ UNCHANGED <<graph, label, pred, base, walk>>

-----------------------------------------------------------------------------
(* The loop over the neighbours u of v *)

EndScan == /\ pc = "scan" /\ i > Len(adj[v])
           /\ pc' = "pop"
           /\ UNCHANGED <<graph, forest, scan, walk>>

u == adj[v][i]
Scanning == pc = "scan" /\ i <= Len(adj[v])

\* u is in v's blossom, or inner.
Ignored == base[v] = base[u] \/ label[u] = Inner

SkipNeighbour == /\ Scanning /\ Ignored
                 /\ i' = i + 1
                 /\ UNCHANGED <<graph, forest, v, walk, pc>>

PathFound == /\ Scanning /\ ~Ignored
             /\ label[u] = Unlabelled /\ match[u] = None
             /\ pred' = [pred EXCEPT ![u] = v]
             /\ a' = u
             /\ pc' = "flip"
             /\ UNCHANGED <<graph, label, base, q, scan, b, visited, child, root>>

\* Mutant: pred of the mate is not set.
ExtendTree_NoPred == /\ Scanning /\ ~Ignored
                     /\ label[u] = Unlabelled /\ match[u] # None
                     /\ LET w == match[u]
                        IN  /\ label' = [label EXCEPT ![u] = Inner, ![w] = Outer]
                            /\ pred' = [pred EXCEPT ![u] = v]
                            /\ q' = Append(q, w)
                     /\ i' = i + 1
                     /\ UNCHANGED <<graph, base, v, walk, pc>>

\* u becomes inner and its mate w outer.
ExtendTree == /\ Scanning /\ ~Ignored
              /\ label[u] = Unlabelled /\ match[u] # None
              /\ LET w == match[u]
                 IN  /\ label' = [label EXCEPT ![u] = Inner, ![w] = Outer]
                     /\ pred' = [pred EXCEPT ![u] = v, ![w] = u]
                     /\ q' = Append(q, w)
              /\ i' = i + 1
              /\ UNCHANGED <<graph, base, v, walk, pc>>

\* u is outer: an odd cycle.
FoundCycle == /\ Scanning /\ ~Ignored
              /\ label[u] = Outer
              /\ a' = v /\ b' = u /\ visited' = {}
              /\ pc' = "climb"
              /\ UNCHANGED <<graph, forest, scan, child, root>>

\* Mutant: only one end of the new pair learns of it.
Flip_OneWay == /\ pc = "flip" /\ a # None
               /\ match' = [match EXCEPT ![a] = pred[a]]
               /\ a' = match[pred[a]]
               /\ UNCHANGED <<adj, result, s, forest, scan, b, visited, child, root, pc>>

\* Mutant: the old mate is read after it was overwritten.
Flip_Late == /\ pc = "flip" /\ a # None
             /\ match' = [match EXCEPT ![a] = pred[a], ![pred[a]] = a]
             /\ a' = match'[pred[a]]
             /\ UNCHANGED <<adj, result, s, forest, scan, b, visited, child, root, pc>>

\* One round of flipping the path, which ends at the source.
Flip == /\ pc = "flip" /\ a # None
        /\ match' = [match EXCEPT ![a] = pred[a], ![pred[a]] = a]
        /\ a' = match[pred[a]]
        /\ UNCHANGED <<adj, result, s, forest, scan, b, visited, child, root, pc>>

Augmented == /\ pc = "flip" /\ a = None
             /\ result' = result + 1
             /\ s' = s + 1
             /\ pc' = "source"
             /\ UNCHANGED <<adj, match, forest, scan, walk>>

-----------------------------------------------------------------------------
(* lca and markPath *)

Above(x) == base[pred[match[x]]]

Climb == /\ pc = "climb"
         /\ visited' = visited \cup {base[a]}
         /\ IF base[a] = s THEN pc' = "meet" /\ UNCHANGED a
                           ELSE a' = Above(base[a]) /\ UNCHANGED pc
         /\ UNCHANGED <<graph, forest, scan, b, child, root>>

\* lca returns: markPath(v, root, u) begins.
Meet == /\ pc = "meet"
        /\ IF base[b] \in visited
             THEN /\ root' = base[b]
                  /\ a' = v /\ child' = u
                  /\ pc' = "mark v"
                  /\ UNCHANGED b
             ELSE /\ b' = Above(base[b])
                  /\ UNCHANGED <<a, child, root, pc>>
        /\ UNCHANGED <<graph, forest, scan, visited>>

Marking == pc \in {"mark v", "mark u"}

\* Mutant: the vertices that become outer are not queued.
Mark_NotQueued == /\ Marking /\ base[a] # root
                  /\ base' = [base EXCEPT ![a] = root, ![match[a]] = root]
                  /\ pred' = [pred EXCEPT ![a] = child]
                  /\ child' = match[a]
                  /\ a' = pred[a]
                  /\ label' = [label EXCEPT ![a'] = Outer]
                  /\ UNCHANGED <<graph, scan, b, visited, root, pc, q>>

\* One round of markPath: the vertex above a becomes outer if it was inner.
Mark == /\ Marking /\ base[a] # root
        /\ base' = [base EXCEPT ![a] = root, ![match[a]] = root]
        /\ pred' = [pred EXCEPT ![a] = child]
        /\ child' = match[a]
        /\ a' = pred[a]
        /\ label' = [label EXCEPT ![a'] = Outer]
        /\ q' = IF label[a'] = Outer THEN q ELSE Append(q, a')
        /\ UNCHANGED <<graph, scan, b, visited, root, pc>>

\* markPath(v, ..) is followed by markPath(u, root, v), that by the next u.
EndMark == /\ Marking /\ base[a] = root
           /\ IF pc = "mark v" THEN /\ pc' = "mark u"
                                    /\ a' = u /\ child' = v
                                    /\ UNCHANGED i
                               ELSE /\ pc' = "scan"
                                    /\ i' = i + 1
                                    /\ UNCHANGED <<a, child>>
           /\ UNCHANGED <<graph, forest, v, b, visited, root>>

-----------------------------------------------------------------------------
Done == pc = "source" /\ s = N

Next == \/ SkipSource \/ StartAugment \/ GiveUp \/ PopVertex
        \/ EndScan \/ SkipNeighbour \/ PathFound \/ ExtendTree \/ FoundCycle
        \/ Flip \/ Augmented
        \/ Climb \/ Meet \/ Mark \/ EndMark

Spec == Init /\ [][Next]_vars

\* Sequential code takes its next step.
FairSpec == Spec /\ WF_vars(Next)

-----------------------------------------------------------------------------
(* Properties *)

Edge(x, y) == \E k \in DOMAIN adj[x] : adj[x][k] = y

\* Between two augmentations match_ is a matching: mates are each other's
\* mates and are joined by an edge; and result counts the couples.
MatchingIsValid ==
  pc = "source" =>
    /\ \A x \in Vertex : match[x] # None => Edge(x, match[x]) /\ match[match[x]] = x
    /\ 2 * result = Cardinality({x \in Vertex : match[x] # None})

\* The sizes of the graph's matchings.
Pairs == {p \in Vertex \X Vertex : p[1] < p[2] /\ Edge(p[1], p[2])}
MatchingSizes ==
  {Cardinality(M) : M \in {P \in SUBSET Pairs :
     \A p, r \in P : p # r => {p[1], p[2]} \cap {r[1], r[2]} = {}}}

\* The README's guarantee, "Maximum cardinality, handles odd cycles".
MaximumWhenDone == Done => \A k \in MatchingSizes : k <= result

\* No walk follows the mate or the predecessor of a vertex that has none.
NoWildIndex ==
  /\ pc = "climb" /\ base[a] # s => match[base[a]] # None /\ pred[match[base[a]]] # None
  /\ pc = "meet" /\ base[b] \notin visited => match[base[b]] # None /\ pred[match[base[b]]] # None
  /\ Marking /\ base[a] # root => match[a] # None /\ pred[a] # None
  /\ pc = "flip" /\ a # None => pred[a] # None

\* maxMatching returns.
Terminates == <>Done
=============================================================================
