---------------------------- MODULE GaleShapley ----------------------------
(***************************************************************************)
(* src/gale_shapley.cpp: proposer-optimal stable matching of two groups of *)
(* n people.  People are 0 .. N-1 in either group; a preference list is a  *)
(* function from ranks 0 .. N-1.  One action is one iteration of the loop  *)
(* of run(); the queue of free proposers is FIFO, as std::queue is.        *)
(***************************************************************************)
EXTENDS Integers, Sequences

CONSTANT N   \* n_

Person == 0 .. N - 1
Unmatched == -1

\* The lists the class is specified for: strict and complete.
List == {l \in [Person -> Person] :
           /\ \A r, s \in Person : l[r] = l[s] => r = s
           /\ \A p \in Person : \E r \in Person : l[r] = p}

VARIABLES
  prefA, prefB,    \* the constructor's arguments
  matchA, matchB,  \* matchA_, matchB_
  next,            \* next[a]: rank of the person a proposes to next
  free             \* the queue of unmatched proposers

input == <<prefA, prefB>>
vars == <<prefA, prefB, matchA, matchB, next, free>>

-----------------------------------------------------------------------------
\* rankA_ and rankB_: the place of q in p's list.
rank(prefs, p, q) == CHOOSE r \in Person : prefs[p][r] = q

Init == /\ prefA \in [Person -> List]
        /\ prefB \in [Person -> List]
        /\ matchA = [a \in Person |-> Unmatched]
        /\ matchB = [b \in Person |-> Unmatched]
        /\ next = [a \in Person |-> 0]
        /\ free = [i \in 1 .. N |-> i - 1]

\* b is free: a and b are matched tentatively.
Accept(a, b) == /\ matchB[b] = Unmatched
                /\ matchA' = [matchA EXCEPT ![a] = b]
                /\ matchB' = [matchB EXCEPT ![b] = a]
                /\ free' = Tail(free)

\* Mutant: the ranks are compared the wrong way round.
Wins_Reversed(a, b) == rank(prefB, b, a) > rank(prefB, b, matchB[b])

\* b prefers a to its current partner.
Wins(a, b) == rank(prefB, b, a) < rank(prefB, b, matchB[b])

\* b changes to a; its former partner is free again.
Swap(a, b) == /\ matchB[b] # Unmatched
              /\ Wins(a, b)
              /\ matchA' = [matchA EXCEPT ![a] = b, ![matchB[b]] = Unmatched]
              /\ matchB' = [matchB EXCEPT ![b] = a]
              /\ free' = Append(Tail(free), matchB[b])

\* b keeps its partner, and a remains free.
Reject(a, b) == /\ matchB[b] # Unmatched
                /\ ~Wins(a, b)
                /\ free' = Append(Tail(free), a)
                /\ UNCHANGED <<matchA, matchB>>

Propose == /\ free # <<>>
           /\ LET a == Head(free)
                  b == prefA[a][next[a]]
              IN  /\ next' = [next EXCEPT ![a] = @ + 1]
                  /\ Accept(a, b) \/ Swap(a, b) \/ Reject(a, b)
           /\ UNCHANGED input

\* The loop has ended.
Done == free = <<>>

Next == Propose

Spec == Init /\ [][Next]_vars

\* isStable(), with its early continues.
isStable == \A a, b \in Person :
              \/ matchA[a] = Unmatched \/ matchA[a] = b \/ matchB[b] = Unmatched
              \/ rank(prefA, a, b) >= rank(prefA, a, matchA[a])
              \/ rank(prefB, b, a) >= rank(prefB, b, matchB[b])

-----------------------------------------------------------------------------
(* Properties *)

TypeOK == /\ prefA \in [Person -> List]
          /\ prefB \in [Person -> List]
          /\ matchA \in [Person -> Person \cup {Unmatched}]
          /\ matchB \in [Person -> Person \cup {Unmatched}]
          /\ next \in [Person -> 0 .. N]
          /\ free \in Seq(Person)

\* The two arrays describe one matching at every step.
MatchesAgree == /\ \A a \in Person : matchA[a] # Unmatched => matchB[matchA[a]] = a
                /\ \A b \in Person : matchB[b] # Unmatched => matchA[matchB[b]] = b

\* The queue holds each unmatched proposer once and nobody else.
FreeIsUnmatched ==
  /\ \A i, j \in DOMAIN free : free[i] = free[j] => i = j
  /\ \A a \in Person : matchA[a] = Unmatched <=> \E i \in DOMAIN free : free[i] = a

\* prefA_[a][next[a]++] stays inside the list: nobody is left to propose after
\* having been rejected by everyone.
NextInBounds == \A a \in Person : matchA[a] = Unmatched => next[a] < N

\* p prefers q to r: the definition by the lists themselves.
Prefers(prefs, p, q, r) ==
  \E i, j \in Person : i < j /\ prefs[p][i] = q /\ prefs[p][j] = r

\* Whoever has been proposed to stays matched, to better and better people.
PartnersImprove ==
  [][\A b \in Person : matchB[b] # Unmatched /\ matchB'[b] # matchB[b]
        => matchB'[b] # Unmatched /\ Prefers(prefB, b, matchB'[b], matchB[b])]_vars

\* The matchings of everybody, seen from group A, and the pairs that would
\* leave their partners in one of them for each other.
Perfect == {m \in [Person -> Person] : \A b \in Person : \E a \in Person : m[a] = b}
Blocks(m, a, b) == /\ Prefers(prefA, a, b, m[a])
                   /\ \E c \in Person : m[c] = b /\ Prefers(prefB, b, a, c)
Stable(m) == \A a, b \in Person : ~Blocks(m, a, b)

\* The README's guarantee "stable": run() ends with a stable matching of
\* everybody, and isStable() says so.
StableWhenDone == Done => matchA \in Perfect /\ Stable(matchA) /\ isStable

\* The README's guarantee "proposer-optimal": no stable matching gives anyone
\* of group A a better partner.
ProposerOptimal ==
  Done => \A m \in Perfect : Stable(m) =>
            \A a \in Person : ~Prefers(prefA, a, m[a], matchA[a])
=============================================================================
