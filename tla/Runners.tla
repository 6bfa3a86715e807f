------------------------------ MODULE Runners ------------------------------
(***************************************************************************)
(* The algorithm runners of server/server.cpp and the routes that call     *)
(* them: POST /api/algorithms/<algorithm> runs one of the algorithms on    *)
(* the table of scores, GET /api/algorithms/compare all four, one after    *)
(* the other.  A runner builds the algorithm's input, runs it, and         *)
(* matchesToJson reports the result.  The demo (main.cpp) has copies of    *)
(* the runners, calls them as the comparison does and adds its notes.      *)
(***************************************************************************)
EXTENDS Integers, Sequences, FiniteSets, FiniteSetsExt, SequencesExt

CONSTANTS N,       \* men, and women
          Tables   \* the tables of scores: [man -> [woman -> 0 .. 100]]

ASSUME RunnersAssumption ==
  /\ N \in Nat \ {0}
  /\ Tables \subseteq [0 .. N - 1 -> [0 .. N - 1 -> 0 .. 100]]

THRESHOLD == 65
Index == 0 .. N - 1

Algorithms == <<"Gale-Shapley", "Hopcroft-Karp", "Hungarian", "Blossom">>
Routes == {Algorithms} \cup {<<Algorithms[k]>> : k \in 1 .. 4}

VARIABLES
  COMPAT,
  todo,      \* the runners the route has still to call
  results,   \* the reports of those it has called
  prefA, prefB, matchA, matchB, next, free,
  hkAdj, matchLeft, matchRight, distLeft, iter, hkCount, source, stack, hkAt,
  cost, u, v, p, way, row, j0, minv, used, assignment, maxScore, hungAt,
  blAdj, match, blCount, s, label, pred, base, q, popped, scanned,
  a, b, visited, child, root, blAt

gs == <<prefA, prefB, matchA, matchB, next, free>>
hk == <<hkAdj, matchLeft, matchRight, distLeft, iter, hkCount, source, stack, hkAt>>
hung == <<cost, u, v, p, way, row, j0, minv, used, assignment, maxScore, hungAt>>
bl == <<blAdj, match, blCount, s, label, pred, base, q, popped, scanned,
        a, b, visited, child, root, blAt>>
vars == <<COMPAT, todo, results, gs, hk, hung, bl>>

GS == INSTANCE GaleShapley
HK == INSTANCE HopcroftKarp WITH LeftSize <- N, RightSize <- N, adj <- hkAdj,
        matching <- hkCount, a <- source, pc <- hkAt
Hung == INSTANCE Hungarian WITH i <- row, pc <- hungAt
Bl == INSTANCE Blossom WITH N <- 2 * N, Inputs <- {}, adj <- blAdj, result <- blCount,
        v <- popped, i <- scanned, pc <- blAt

-----------------------------------------------------------------------------
(* The inputs of the algorithms *)

\* Mutant: the lists are sorted the wrong way round.
SortedBy_Ascending(score) == {l \in GS!List : \A r \in 1 .. N - 1 : score[l[r - 1]] <= score[l[r]]}

\* std::sort leaves the order of equal scores open.
SortedBy(score) == {l \in GS!List : \A r \in 1 .. N - 1 : score[l[r - 1]] >= score[l[r]]}

buildMenPrefs == {f \in [Index -> GS!List] : \A m \in Index : f[m] \in SortedBy(COMPAT[m])}
buildWomenPrefs ==
  {f \in [Index -> GS!List] : \A w \in Index : f[w] \in SortedBy([m \in Index |-> COMPAT[m][w]])}

\* In the order of the loops.
AllPairs == [k \in 1 .. N * N |-> <<(k - 1) \div N, (k - 1) % N>>]

\* Mutant: a score at the threshold does not make a pair compatible.
addIfCompatible_Strict(pairs, e) ==
  IF COMPAT[e[1]][e[2]] > THRESHOLD THEN Append(pairs, e) ELSE pairs

addIfCompatible(pairs, e) ==
  IF COMPAT[e[1]][e[2]] >= THRESHOLD THEN Append(pairs, e) ELSE pairs

CompatiblePairs == FoldLeft(addIfCompatible, <<>>, AllPairs)

\* The women are the vertices N .. 2N-1 of the general graph.
GeneralPairs == [k \in DOMAIN CompatiblePairs |->
                   <<CompatiblePairs[k][1], N + CompatiblePairs[k][2]>>]

Init == /\ COMPAT \in Tables
        /\ todo \in Routes
        /\ results = [x \in {} |-> <<>>]
        /\ prefA \in buildMenPrefs /\ prefB \in buildWomenPrefs /\ GS!Init
        /\ HK!Init(CompatiblePairs)
        /\ Hung!Init(COMPAT)
        /\ Bl!Start(GeneralPairs)

-----------------------------------------------------------------------------
(* The runners *)

\* Names, texts and the average are left out.
matchesToJson(matchM) ==
  LET matched == {m \in Index : matchM[m] # -1}
  IN  [matchM |-> matchM,
       totalScore |-> MapThenSumSet(LAMBDA m : COMPAT[m][matchM[m]], matched),
       matchedCount |-> Cardinality(matched)]

Calls(algorithm) == todo # <<>> /\ Head(todo) = algorithm
Report(matchM) ==
  /\ results' = [algorithm \in DOMAIN results \cup {Head(todo)} |->
                   IF algorithm = Head(todo) THEN matchesToJson(matchM) ELSE results[algorithm]]
  /\ todo' = Tail(todo)

runGaleShapley == /\ Calls("Gale-Shapley")
                  /\ \/ GS!Next /\ UNCHANGED <<todo, results>>
                     \/ GS!Done /\ Report(matchA) /\ UNCHANGED gs
                  /\ UNCHANGED <<COMPAT, hk, hung, bl>>

runHopcroftKarp == /\ Calls("Hopcroft-Karp")
                   /\ \/ HK!Next /\ UNCHANGED <<todo, results>>
                      \/ HK!Done /\ Report(matchLeft) /\ UNCHANGED hk
                   /\ UNCHANGED <<COMPAT, gs, hung, bl>>

runHungarian == /\ Calls("Hungarian")
                /\ \/ Hung!Next /\ UNCHANGED <<todo, results>>
                   \/ Hung!Done /\ Report(assignment) /\ UNCHANGED hung
                /\ UNCHANGED <<COMPAT, gs, hk, bl>>

runBlossom == /\ Calls("Blossom")
              /\ \/ Bl!Next /\ UNCHANGED <<todo, results>>
                 \/ /\ Bl!Done
                    /\ Report([m \in Index |-> IF match[m] # -1 THEN match[m] - N ELSE -1])
                    /\ UNCHANGED bl
              /\ UNCHANGED <<COMPAT, gs, hk, hung>>

-----------------------------------------------------------------------------
(* The notes of the demo *)

score(m) == MapThenSumSet(LAMBDA x : COMPAT[x][m[x]], {x \in Index : m[x] # -1})
count(m) == Cardinality({x \in Index : m[x] # -1})

\* Mutant: the two threshold algorithms are compared with each other.
analysis_Threshold(gsM, hkM, huM, blM) ==
  {note \in {"full pool", "matched fewer", "highest total"} :
     CASE note = "full pool" -> count(hkM) = count(blM)
       [] note = "matched fewer" -> count(hkM) # count(blM)
       [] note = "highest total" -> score(huM) >= score(gsM) /\ score(huM) >= score(hkM)}

\* The notes it prints; identical pairings of two algorithms are another one,
\* which claims no more than its condition.
analysis(gsM, hkM, huM, blM) ==
  {note \in {"full pool", "matched fewer", "highest total"} :
     CASE note = "full pool" -> count(hkM) = count(huM)
       [] note = "matched fewer" -> count(hkM) # count(huM)
       [] note = "highest total" -> score(huM) >= score(gsM) /\ score(huM) >= score(hkM)}

-----------------------------------------------------------------------------
Next == runGaleShapley \/ runHopcroftKarp \/ runHungarian \/ runBlossom

Spec == Init /\ [][Next]_vars

\* A handler is sequential code: it takes its next step.
FairSpec == Spec /\ WF_vars(Next)

-----------------------------------------------------------------------------
(* Properties *)

\* hopcroft_karp.cpp: between two augmentations of a phase, whose levels are
\* out of date by then, the arrays hold one matching of compatible pairs.
MatchingIsValid == HK!MatchingIsValid

\* hungarian.cpp: after every row the potentials prove that the rows so far
\* are assigned as well as they can be.
PotentialsProveOptimality == Hung!PotentialsProveOptimality

Reported(algorithm) == algorithm \in DOMAIN results
Couples(algorithm) == {<<m, results[algorithm].matchM[m]>> :
                         m \in {x \in Index : results[algorithm].matchM[x] # -1}}
OneToOne(C) == \A c, d \in C : c # d => c[1] # d[1] /\ c[2] # d[2]

\* "No couple would both prefer each other over their assigned partners", by
\* the scores and whatever order the sort gave to equal ones: everybody has a
\* partner, and no man and woman would both have a better score together.
NoBlockingCouple ==
  Reported("Gale-Shapley") =>
    LET C == Couples("Gale-Shapley")
    IN  /\ Cardinality(C) = N /\ OneToOne(C)
        /\ \A c, d \in C : \/ COMPAT[c[1]][d[2]] <= COMPAT[c[1]][c[2]]
                           \/ COMPAT[c[1]][d[2]] <= COMPAT[d[1]][d[2]]

\* gale_shapley.cpp: what the queue's rounds end with is stable by the lists
\* themselves, isStable() says so, and the men have the best of their stable
\* partners ("Proposer-optimal stable matching").
StableWhenDone == GS!StableWhenDone
ProposerOptimal == GS!ProposerOptimal

Compatible == {e \in Index \X Index : COMPAT[e[1]][e[2]] >= THRESHOLD}

\* What an algorithm reports: compatible couples, and as many of them as any
\* matching of compatible pairs has.
Maximum(algorithm) ==
  Reported(algorithm) =>
    LET C == Couples(algorithm)
    IN  /\ C \subseteq Compatible /\ OneToOne(C)
        /\ \A M \in SUBSET Compatible : OneToOne(M) => Cardinality(M) <= Cardinality(C)
        /\ results[algorithm].matchedCount = Cardinality(C)

\* "Maximum cardinality matching on the compatible-pair graph": the two
\* algorithms promise it (so both report the same number).
MaximumCardinality == Maximum("Hopcroft-Karp") /\ Maximum("Blossom")

Assignments == {m \in [Index -> Index] : \A x, y \in Index : x # y => m[x] # m[y]}
Total(m) == MapThenSumSet(LAMBDA x : COMPAT[x][m[x]], Index)

\* The report of the Hungarian algorithm: everybody is assigned, no assignment
\* scores more, and the reported total is the solver's own maxScore.
GreatestTotal ==
  Reported("Hungarian") => /\ results["Hungarian"].matchM \in Assignments
                           /\ results["Hungarian"].totalScore = maxScore
                           /\ \A m \in Assignments : Total(m) <= maxScore

\* "Globally optimal total compatibility score": that, and no other report of
\* the comparison has a greater total.
OptimalScore ==
  /\ GreatestTotal
  /\ Reported("Hungarian") =>
       \A algorithm \in DOMAIN results : results[algorithm].totalScore <= maxScore

\* The notes are true, though none of their conditions looks at Blossom:
\* "All threshold-based algorithms matched the full pool", "Threshold algorithms
\* matched fewer" than all the couples of the Hungarian one, which "achieved the
\* highest total score" (a note that is always there).
NotesAreTrue ==
  (\A x \in 1 .. 4 : Reported(Algorithms[x])) =>
    LET M(algorithm) == results[algorithm].matchM
        notes == analysis(M("Gale-Shapley"), M("Hopcroft-Karp"), M("Hungarian"), M("Blossom"))
        threshold == {M("Hopcroft-Karp"), M("Blossom")}
    IN  /\ "full pool" \in notes => \A m \in threshold : count(m) = N
        /\ "matched fewer" \in notes =>
             count(M("Hungarian")) = N /\ \A m \in threshold : count(m) < N
        /\ "highest total" \in notes
        /\ \A x \in 1 .. 4 : score(M(Algorithms[x])) <= score(M("Hungarian"))

\* Every request is answered: the searches and phases of all four end.
Answered == <>(todo = <<>>)
=============================================================================
