--------------------------- MODULE RunnersProofs ---------------------------
(***************************************************************************)
(* Theorems about the runners and, through the instances of Runners, about *)
(* the algorithms they run: Gale-Shapley's result is stable and optimal    *)
(* for the proposers; Hopcroft-Karp's matching is valid after every step   *)
(* and of maximum size at the end; so is Blossom's, on the graphs its      *)
(* runner builds; the Hungarian algorithm's potentials prove its           *)
(* assignment optimal after every row; the reports keep these guarantees,  *)
(* none of them scores more than the Hungarian one, and the demo's notes   *)
(* about them are true.  They hold for every number of people and every    *)
(* set of tables.                                                          *)
(***************************************************************************)
EXTENDS Runners, SequenceTheorems, FiniteSetTheorems, WellFoundedInduction, TLAPS

-----------------------------------------------------------------------------
(* Pigeonhole: n people each with a partner of their own leave nobody out. *)

LEMMA PersonFinite ==
  ASSUME N \in Nat
  PROVE  IsFiniteSet(GS!Person)
BY FS_Interval DEF GS!Person

LEMMA InjectiveIsOnto ==
  ASSUME N \in Nat, NEW f \in [GS!Person -> GS!Person], \A x, y \in GS!Person : f[x] = f[y] => x = y
  PROVE  \A y \in GS!Person : \E x \in GS!Person : f[x] = y
<1>1. f \in Injection(GS!Person, GS!Person)
  BY DEF Injection, IsInjective
<1>2. f \in Surjection(GS!Person, GS!Person)
  BY <1>1, PersonFinite, FS_Injection
<1> QED BY <1>2 DEF Surjection

LEMMA OntoIsInjective ==
  ASSUME N \in Nat, NEW f \in [GS!Person -> GS!Person], \A y \in GS!Person : \E x \in GS!Person : f[x] = y
  PROVE  \A x, y \in GS!Person : f[x] = f[y] => x = y
<1>1. f \in Surjection(GS!Person, GS!Person)
  BY DEF Surjection
<1>2. f \in Injection(GS!Person, GS!Person)
  BY <1>1, PersonFinite, FS_Surjection
<1> QED BY <1>2 DEF Injection, IsInjective

-----------------------------------------------------------------------------
(* Preferences *)

\* The rank tables invert the lists.
LEMMA Rank ==
  ASSUME N \in Nat, NEW prefs \in [GS!Person -> GS!List], NEW x \in GS!Person, NEW y \in GS!Person
  PROVE  /\ GS!rank(prefs, x, y) \in GS!Person
         /\ prefs[x][GS!rank(prefs, x, y)] = y
         /\ \A r \in GS!Person : prefs[x][r] = y => r = GS!rank(prefs, x, y)
<1>1. prefs[x] \in GS!List
  OBVIOUS
<1>2. \E r \in GS!Person : prefs[x][r] = y
  BY <1>1 DEF GS!List
<1>3. GS!rank(prefs, x, y) \in GS!Person /\ prefs[x][GS!rank(prefs, x, y)] = y
  BY <1>2 DEF GS!rank
<1> QED BY <1>1, <1>3 DEF GS!List

\* Comparing ranks is comparing preferences.
LEMMA RankPrefers ==
  ASSUME N \in Nat, NEW prefs \in [GS!Person -> GS!List], NEW x \in GS!Person, NEW y \in GS!Person, NEW r \in GS!Person
  PROVE  GS!Prefers(prefs, x, y, r) <=> GS!rank(prefs, x, y) < GS!rank(prefs, x, r)
BY Rank DEF GS!Prefers

-----------------------------------------------------------------------------
(* The queue *)

In(f, x) == \E i \in DOMAIN f : f[i] = x
Distinct(f) == \A i, j \in DOMAIN f : f[i] = f[j] => i = j

LEMMA TailQueue ==
  ASSUME NEW f \in Seq(GS!Person), f # <<>>, Distinct(f)
  PROVE  /\ Head(f) \in GS!Person /\ In(f, Head(f))
         /\ Tail(f) \in Seq(GS!Person) /\ Distinct(Tail(f))
         /\ \A x \in GS!Person : In(Tail(f), x) <=> In(f, x) /\ x # Head(f)
<1>1. /\ Tail(f) \in Seq(GS!Person) /\ Len(f) \in Nat /\ Len(f) > 0 /\ DOMAIN f = 1 .. Len(f)
      /\ Len(Tail(f)) = Len(f) - 1 /\ DOMAIN Tail(f) = 1 .. (Len(f) - 1)
      /\ \A i \in 1 .. (Len(f) - 1) : Tail(f)[i] = f[i + 1]
      /\ Head(f) = f[1] /\ f[1] \in GS!Person
  OBVIOUS
<1>2. Distinct(Tail(f))
  BY <1>1 DEF Distinct
<1>3. ASSUME NEW x \in GS!Person, In(f, x), x # Head(f) PROVE In(Tail(f), x)
  <2>1. PICK i \in 1 .. Len(f) : f[i] = x
    BY <1>1, <1>3 DEF In
  <2>2. i - 1 \in 1 .. (Len(f) - 1) /\ Tail(f)[i - 1] = x
    BY <1>1, <1>3, <2>1
  <2> QED BY <1>1, <2>2 DEF In
<1>4. ASSUME NEW x \in GS!Person, In(Tail(f), x) PROVE In(f, x) /\ x # Head(f)
  <2>1. PICK i \in 1 .. (Len(f) - 1) : Tail(f)[i] = x
    BY <1>1, <1>4 DEF In
  <2>2. i + 1 \in 1 .. Len(f) /\ f[i + 1] = x /\ i + 1 # 1 /\ 1 \in 1 .. Len(f)
    BY <1>1, <2>1
  <2> QED BY <1>1, <2>2 DEF In, Distinct
<1> QED BY <1>1, <1>2, <1>3, <1>4 DEF In

LEMMA AppendQueue ==
  ASSUME NEW f \in Seq(GS!Person), Distinct(f), NEW y \in GS!Person, ~In(f, y)
  PROVE  /\ Append(f, y) \in Seq(GS!Person) /\ Distinct(Append(f, y))
         /\ \A x \in GS!Person : In(Append(f, y), x) <=> In(f, x) \/ x = y
<1>1. /\ Append(f, y) \in Seq(GS!Person) /\ Len(f) \in Nat /\ DOMAIN f = 1 .. Len(f)
      /\ DOMAIN Append(f, y) = 1 .. (Len(f) + 1)
      /\ \A i \in 1 .. Len(f) : Append(f, y)[i] = f[i]
      /\ Append(f, y)[Len(f) + 1] = y
  OBVIOUS
<1>2. Distinct(Append(f, y))
  BY <1>1 DEF Distinct, In
<1>3. \A x \in GS!Person : In(Append(f, y), x) <=> In(f, x) \/ x = y
  BY <1>1 DEF In
<1> QED BY <1>1, <1>2, <1>3

-----------------------------------------------------------------------------
(* The inductive invariant *)

\* Whoever a has proposed to is matched, to somebody it likes at least as well.
Proposed ==
  \A man, r \in GS!Person : r < next[man] =>
    /\ matchB[prefA[man][r]] # GS!Unmatched
    /\ GS!rank(prefB, prefA[man][r], matchB[prefA[man][r]]) <= GS!rank(prefB, prefA[man][r], man)

\* A matched proposer's partner is the last one it proposed to.
Current ==
  \A man \in GS!Person : matchA[man] # GS!Unmatched =>
    next[man] > 0 /\ prefA[man][next[man] - 1] = matchA[man]

GSInv == GS!TypeOK /\ GS!MatchesAgree /\ GS!FreeIsUnmatched /\ Proposed /\ Current

LEMMA Lists ==
  ASSUME N \in Nat
  PROVE  GSInv => prefA \in [GS!Person -> GS!List] /\ prefB \in [GS!Person -> GS!List]
BY DEF GSInv, GS!TypeOK

\* Somebody rejected by everyone would mean that everyone of group B is
\* matched, by pigeonhole to everyone of group A.
LEMMA InBounds ==
  ASSUME N \in Nat
  PROVE  GSInv => GS!NextInBounds
<1> SUFFICES ASSUME GSInv, NEW man \in GS!Person, matchA[man] = GS!Unmatched, ~(next[man] < N)
             PROVE  FALSE
  BY DEF GS!NextInBounds
<1>1. \A y \in GS!Person : matchB[y] # GS!Unmatched
  <2> TAKE y \in GS!Person
  <2>1. GS!rank(prefA, man, y) \in GS!Person /\ prefA[man][GS!rank(prefA, man, y)] = y
    BY Lists, Rank
  <2>2. GS!rank(prefA, man, y) < next[man]
    BY <2>1 DEF GSInv, GS!TypeOK, GS!Person
  <2> QED BY <2>1, <2>2 DEF GSInv, Proposed
<1>2. matchB \in [GS!Person -> GS!Person]
  BY <1>1 DEF GSInv, GS!TypeOK
<1>3. \A x, y \in GS!Person : matchB[x] = matchB[y] => x = y
  BY <1>1 DEF GSInv, GS!MatchesAgree
<1>4. PICK y \in GS!Person : matchB[y] = man
  BY <1>2, <1>3, InjectiveIsOnto
<1>5. matchA[man] = y
  BY <1>1, <1>4 DEF GSInv, GS!MatchesAgree
<1> QED BY <1>5 DEF GS!Person, GS!Unmatched

LEMMA GSStart ==
  ASSUME N \in Nat
  PROVE  GS!Init => GSInv
<1> SUFFICES ASSUME GS!Init PROVE GSInv
  OBVIOUS
<1>1. GS!TypeOK
  BY DEF GS!Init, GS!TypeOK, GS!Person
<1>2. GS!FreeIsUnmatched
  <2>1. \A i, j \in DOMAIN free : free[i] = free[j] => i = j
    BY DEF GS!Init
  <2>2. ASSUME NEW man \in GS!Person PROVE \E i \in DOMAIN free : free[i] = man
    <3>1. man + 1 \in DOMAIN free /\ free[man + 1] = man
      BY DEF GS!Init, GS!Person
    <3> QED BY <3>1
  <2> QED BY <2>1, <2>2 DEF GS!Init, GS!FreeIsUnmatched
<1>3. GS!MatchesAgree /\ Proposed /\ Current
  BY DEF GS!Init, GS!MatchesAgree, Proposed, Current, GS!Person
<1> QED BY <1>1, <1>2, <1>3 DEF GSInv

\* What one round does, for the proposer a and the person b it proposes to.
Round(man, woman) == /\ next[man] \in GS!Person
                     /\ woman = prefA[man][next[man]]
                     /\ next' = [next EXCEPT ![man] = @ + 1]
                     /\ UNCHANGED <<prefA, prefB>>
                     /\ GS!Accept(man, woman) \/ GS!Swap(man, woman) \/ GS!Reject(man, woman)

\* Whoever of group B was matched still is, at least as well, and the person
\* proposed to is matched to somebody no worse than the proposer.
Improved(man, woman) ==
  /\ \A y \in GS!Person : matchB[y] # GS!Unmatched =>
       /\ matchB'[y] # GS!Unmatched
       /\ \/ matchB'[y] = matchB[y]
          \/ GS!rank(prefB, y, matchB'[y]) < GS!rank(prefB, y, matchB[y])
  /\ matchB'[woman] # GS!Unmatched
  /\ GS!rank(prefB, woman, matchB'[woman]) <= GS!rank(prefB, woman, man)

LEMMA ProposeIsRound ==
  ASSUME N \in Nat, GSInv, GS!Propose
  PROVE  \E man, woman \in GS!Person : /\ man = Head(free) /\ free # <<>>
                                       /\ matchA[man] = GS!Unmatched
                                       /\ Round(man, woman)
<1> DEFINE man == Head(free)
           woman == prefA[man][next[man]]
<1>1. free # <<>> /\ man \in GS!Person /\ In(free, man)
  BY TailQueue DEF GSInv, GS!TypeOK, GS!FreeIsUnmatched, GS!Propose, Distinct
<1>2. matchA[man] = GS!Unmatched
  BY <1>1 DEF GSInv, GS!FreeIsUnmatched, In
<1>3. next[man] \in GS!Person
  BY <1>1, <1>2, InBounds DEF GS!NextInBounds, GSInv, GS!TypeOK, GS!Person
<1>4. woman \in GS!Person
  <2>1. prefA[man] \in GS!List
    BY <1>1 DEF GSInv, GS!TypeOK
  <2>2. prefA[man] \in [GS!Person -> GS!Person]
    BY <2>1 DEF GS!List
  <2> QED BY <1>3, <2>2
<1>5. Round(man, woman)
  BY <1>3 DEF Round, GS!Propose, GS!input
<1> QED BY <1>1, <1>2, <1>4, <1>5

LEMMA RoundImproves ==
  ASSUME N \in Nat, GSInv, NEW man \in GS!Person, NEW woman \in GS!Person, Round(man, woman)
  PROVE  Improved(man, woman)
<1> USE DEF GSInv, GS!TypeOK
<1>1. GS!Unmatched \notin GS!Person
  BY DEF GS!Person, GS!Unmatched
<1>2. GS!rank(prefB, woman, man) \in Int
  <2>1. GS!rank(prefB, woman, man) \in GS!Person
    BY Rank
  <2> QED BY <2>1 DEF GS!Person
<1>3. CASE GS!Accept(man, woman)
  BY <1>1, <1>2, <1>3 DEF GS!Accept, Improved
<1>4. CASE GS!Swap(man, woman)
  BY <1>1, <1>2, <1>4 DEF GS!Swap, GS!Wins, Improved
<1>5. CASE GS!Reject(man, woman)
  <2>1. matchB[woman] \in GS!Person
    BY <1>5 DEF GS!Reject
  <2>2. GS!rank(prefB, woman, matchB[woman]) \in GS!Person
    BY <2>1, Rank
  <2> QED BY <1>1, <1>2, <1>5, <2>2 DEF GS!Reject, GS!Wins, Improved, GS!Person
<1> QED BY <1>3, <1>4, <1>5 DEF Round

LEMMA RoundKeepsTypes ==
  ASSUME N \in Nat, GSInv, NEW man \in GS!Person, NEW woman \in GS!Person, Round(man, woman),
         free # <<>>, man = Head(free), matchA[man] = GS!Unmatched
  PROVE  GS!TypeOK' /\ GS!MatchesAgree' /\ GS!FreeIsUnmatched'
<1>1. GS!Unmatched \notin GS!Person
  BY DEF GS!Person, GS!Unmatched
<1>2. prefA' \in [GS!Person -> GS!List] /\ prefB' \in [GS!Person -> GS!List]
  BY DEF GSInv, GS!TypeOK, Round
<1>3. next' \in [GS!Person -> 0 .. N]
  <2>1. next[man] + 1 \in 0 .. N
    BY DEF Round, GS!Person
  <2> QED BY <2>1 DEF GSInv, GS!TypeOK, Round
<1>4. matchA' \in [GS!Person -> GS!Person \cup {GS!Unmatched}]
  BY DEF GSInv, GS!TypeOK, Round, GS!Accept, GS!Swap, GS!Reject
<1>5. matchB' \in [GS!Person -> GS!Person \cup {GS!Unmatched}]
  <2>1. matchB \in [GS!Person -> GS!Person \cup {GS!Unmatched}]
    BY DEF GSInv, GS!TypeOK
  <2>2. matchB' = [matchB EXCEPT ![woman] = man] \/ matchB' = matchB
    BY DEF Round, GS!Accept, GS!Swap, GS!Reject
  <2> QED BY <2>1, <2>2
<1>6. GS!MatchesAgree'
  <2>1. CASE GS!Accept(man, woman)
    BY <1>1, <2>1 DEF GSInv, GS!TypeOK, GS!MatchesAgree, GS!Accept
  <2>2. CASE GS!Swap(man, woman)
    BY <1>1, <2>2 DEF GSInv, GS!TypeOK, GS!MatchesAgree, GS!Swap
  <2>3. CASE GS!Reject(man, woman)
    BY <2>3 DEF GSInv, GS!MatchesAgree, GS!Reject
  <2> QED BY <2>1, <2>2, <2>3 DEF Round
<1>7. free' \in Seq(GS!Person) /\ GS!FreeIsUnmatched'
  <2>1. /\ Tail(free) \in Seq(GS!Person) /\ Distinct(Tail(free))
        /\ \A x \in GS!Person : In(Tail(free), x) <=> matchA[x] = GS!Unmatched /\ x # man
    BY TailQueue DEF GSInv, GS!TypeOK, GS!FreeIsUnmatched, Distinct, In
  <2> SUFFICES /\ free' \in Seq(GS!Person) /\ Distinct(free')
               /\ \A x \in GS!Person : matchA'[x] = GS!Unmatched <=> In(free', x)
    BY DEF GS!FreeIsUnmatched, Distinct, In
  <2>2. CASE GS!Accept(man, woman)
    BY <1>1, <2>1, <2>2 DEF GS!Accept, GSInv, GS!TypeOK
  <2>3. CASE GS!Swap(man, woman)
    <3>1. matchB[woman] \in GS!Person /\ matchA[matchB[woman]] = woman
      BY <2>3 DEF GS!Swap, GSInv, GS!TypeOK, GS!MatchesAgree
    <3>2. matchB[woman] # man /\ ~In(Tail(free), matchB[woman])
      BY <1>1, <2>1, <3>1
    <3>3. /\ free' \in Seq(GS!Person) /\ Distinct(free')
          /\ \A x \in GS!Person : In(free', x) <=> In(Tail(free), x) \/ x = matchB[woman]
      BY <2>1, <2>3, <3>1, <3>2, AppendQueue DEF GS!Swap
    <3>4. \A x \in GS!Person : matchA'[x] = GS!Unmatched <=>
                               (matchA[x] = GS!Unmatched /\ x # man) \/ x = matchB[woman]
      BY <1>1, <2>3, <3>1, <3>2 DEF GS!Swap, GSInv, GS!TypeOK
    <3> QED BY <2>1, <3>3, <3>4
  <2>4. CASE GS!Reject(man, woman)
    <3>1. /\ free' \in Seq(GS!Person) /\ Distinct(free')
          /\ \A x \in GS!Person : In(free', x) <=> In(Tail(free), x) \/ x = man
      BY <2>1, <2>4, AppendQueue DEF GS!Reject
    <3>2. \A x \in GS!Person : matchA'[x] = GS!Unmatched <=>
                               (matchA[x] = GS!Unmatched /\ x # man) \/ x = man
      BY <2>4 DEF GS!Reject
    <3> QED BY <2>1, <3>1, <3>2
  <2>5. GS!Accept(man, woman) \/ GS!Swap(man, woman) \/ GS!Reject(man, woman)
    BY DEF Round
  <2> QED BY <2>2, <2>3, <2>4, <2>5
<1>8. GS!TypeOK'
  BY <1>2, <1>3, <1>4, <1>5, <1>7 DEF GS!TypeOK
<1> QED BY <1>6, <1>7, <1>8

LEMMA RoundKeepsProposed ==
  ASSUME N \in Nat, GSInv, NEW man \in GS!Person, NEW woman \in GS!Person, Round(man, woman),
         matchA[man] = GS!Unmatched
  PROVE  Proposed' /\ Current'
<1>1. Proposed'
  <2> SUFFICES ASSUME NEW c \in GS!Person, NEW r \in GS!Person, r < next'[c]
               PROVE  /\ matchB'[prefA[c][r]] # GS!Unmatched
                      /\ GS!rank(prefB, prefA[c][r], matchB'[prefA[c][r]])
                           <= GS!rank(prefB, prefA[c][r], c)
    BY DEF Proposed, GS!rank, Round
  <2>1. Improved(man, woman)
    BY RoundImproves
  <2>2. CASE c = man /\ r = next[man]
    BY <2>1, <2>2 DEF Round, Improved
  <2>3. CASE ~(c = man /\ r = next[man])
    <3>1. r < next[c]
      BY <2>3 DEF Round, GSInv, GS!TypeOK, GS!Person
    <3> DEFINE y == prefA[c][r]
    <3>2. y \in GS!Person
      <4>1. prefA[c] \in GS!List
        BY DEF GSInv, GS!TypeOK
      <4> QED BY <4>1 DEF GS!List
    <3>3. matchB[y] # GS!Unmatched /\ GS!rank(prefB, y, matchB[y]) <= GS!rank(prefB, y, c)
      BY <3>1 DEF GSInv, Proposed
    <3>4. matchB'[y] # GS!Unmatched
      BY <2>1, <3>2, <3>3 DEF Improved
    <3>5. matchB[y] \in GS!Person /\ matchB'[y] \in GS!Person
      BY <3>2, <3>3, <3>4 DEF GSInv, GS!TypeOK, Round, GS!Accept, GS!Swap, GS!Reject
    <3>6. /\ GS!rank(prefB, y, c) \in GS!Person /\ GS!rank(prefB, y, matchB[y]) \in GS!Person
          /\ GS!rank(prefB, y, matchB'[y]) \in GS!Person
      BY <3>2, <3>5, Lists, Rank
    <3>7. matchB'[y] = matchB[y] \/ GS!rank(prefB, y, matchB'[y]) < GS!rank(prefB, y, matchB[y])
      BY <2>1, <3>2, <3>3 DEF Improved
    <3>8. GS!rank(prefB, y, matchB'[y]) <= GS!rank(prefB, y, c)
      BY <3>3, <3>6, <3>7 DEF GS!Person
    <3> QED BY <3>4, <3>8
  <2> QED BY <2>2, <2>3
<1>2. Current'
  <2> SUFFICES ASSUME NEW c \in GS!Person, matchA'[c] # GS!Unmatched
               PROVE  next'[c] > 0 /\ prefA[c][next'[c] - 1] = matchA'[c]
    BY DEF Current, Round
  <2>1. CASE c = man
    <3>1. ~GS!Reject(man, woman)
      BY <2>1 DEF GS!Reject
    <3>2. matchA'[man] = woman
      BY <2>1, <3>1 DEF Round, GS!Accept, GS!Swap, GSInv, GS!TypeOK, GS!MatchesAgree
    <3>3. next'[man] = next[man] + 1 /\ next[man] \in Int /\ next[man] >= 0
      BY DEF Round, GSInv, GS!TypeOK
    <3>4. next'[man] > 0 /\ next'[man] - 1 = next[man]
      BY <3>3
    <3> QED BY <2>1, <3>2, <3>4 DEF Round
  <2>2. CASE c # man
    <3>1. matchA'[c] = matchA[c] /\ next'[c] = next[c]
      BY <2>2 DEF Round, GS!Accept, GS!Swap, GS!Reject, GSInv, GS!TypeOK
    <3> QED BY <3>1 DEF GSInv, Current
  <2> QED BY <2>1, <2>2
<1> QED BY <1>1, <1>2

LEMMA GSInductive ==
  ASSUME N \in Nat
  PROVE  GSInv /\ [GS!Next]_GS!vars => GSInv'
<1>1. ASSUME GSInv, GS!Propose PROVE GSInv'
  <2>1. PICK man, woman \in GS!Person : /\ man = Head(free) /\ free # <<>>
                                        /\ matchA[man] = GS!Unmatched
                                        /\ Round(man, woman)
    BY <1>1, ProposeIsRound
  <2> QED BY <1>1, <2>1, RoundKeepsTypes, RoundKeepsProposed DEF GSInv
<1>2. ASSUME GSInv, UNCHANGED GS!vars PROVE GSInv'
  <2> USE <1>2 DEF GS!vars, GS!input, GSInv
  <2>1. GS!TypeOK' /\ GS!MatchesAgree'
    BY DEF GS!TypeOK, GS!MatchesAgree
  <2>2. GS!FreeIsUnmatched'
    BY DEF GS!FreeIsUnmatched
  <2>3. Current'
    BY DEF Current
  <2>4. Proposed'
    <3> SUFFICES ASSUME NEW c \in GS!Person, NEW r \in GS!Person, r < next[c]
                 PROVE  /\ matchB[prefA[c][r]] # GS!Unmatched
                        /\ GS!rank(prefB, prefA[c][r], matchB[prefA[c][r]])
                             <= GS!rank(prefB, prefA[c][r], c)
      BY DEF Proposed, GS!rank
    <3> QED BY DEF Proposed
  <2> QED BY <2>1, <2>2, <2>3, <2>4
<1> QED BY <1>1, <1>2 DEF GS!Next

LEMMA GSInvariant ==
  ASSUME N \in Nat
  PROVE  GS!Spec => []GSInv
BY GSStart, GSInductive, PTL DEF GS!Spec

-----------------------------------------------------------------------------
(* Stability *)

LEMMA EverybodyMatched ==
  ASSUME N \in Nat, GSInv, GS!Done
  PROVE  matchA \in GS!Perfect
<1>1. \A man \in GS!Person : matchA[man] # GS!Unmatched
  BY DEF GSInv, GS!FreeIsUnmatched, GS!Done
<1>2. matchA \in [GS!Person -> GS!Person]
  BY <1>1 DEF GSInv, GS!TypeOK
<1>3. \A x, y \in GS!Person : matchA[x] = matchA[y] => x = y
  BY <1>1 DEF GSInv, GS!MatchesAgree
<1>4. \A y \in GS!Person : \E x \in GS!Person : matchA[x] = y
  BY <1>2, <1>3, InjectiveIsOnto
<1> QED BY <1>2, <1>4 DEF GS!Perfect

LEMMA CurrentRank ==
  ASSUME N \in Nat, GSInv, NEW man \in GS!Person, matchA[man] \in GS!Person
  PROVE  next[man] \in 0 .. N /\ GS!rank(prefA, man, matchA[man]) = next[man] - 1
<1>1. next[man] \in 0 .. N /\ next[man] > 0 /\ prefA[man][next[man] - 1] = matchA[man]
  <2>1. matchA[man] # GS!Unmatched
    BY DEF GS!Person, GS!Unmatched
  <2> QED BY <2>1 DEF GSInv, GS!TypeOK, Current
<1>2. next[man] - 1 \in GS!Person
  BY <1>1 DEF GS!Person
<1>3. \A r \in GS!Person : prefA[man][r] = matchA[man] => r = GS!rank(prefA, man, matchA[man])
  BY Lists, Rank
<1> QED BY <1>1, <1>2, <1>3

\* A proposer has proposed to everyone it prefers to its partner.
LEMMA PreferredWereProposedTo ==
  ASSUME N \in Nat, GSInv, NEW man \in GS!Person, NEW woman \in GS!Person, matchA[man] \in GS!Person,
         GS!rank(prefA, man, woman) < GS!rank(prefA, man, matchA[man])
  PROVE  /\ matchB[woman] \in GS!Person
         /\ GS!rank(prefB, woman, matchB[woman]) <= GS!rank(prefB, woman, man)
<1>1. /\ GS!rank(prefA, man, woman) \in GS!Person /\ prefA[man][GS!rank(prefA, man, woman)] = woman
  BY Lists, Rank
<1>2. GS!rank(prefA, man, woman) < next[man]
  BY <1>1, CurrentRank DEF GS!Person
<1>3. matchB[woman] # GS!Unmatched /\ GS!rank(prefB, woman, matchB[woman]) <= GS!rank(prefB, woman, man)
  BY <1>1, <1>2 DEF GSInv, Proposed
<1> QED BY <1>3 DEF GSInv, GS!TypeOK

LEMMA ResultIsStable ==
  ASSUME N \in Nat
  PROVE  GSInv => GS!StableWhenDone
<1> SUFFICES ASSUME GSInv, GS!Done PROVE matchA \in GS!Perfect /\ GS!Stable(matchA) /\ GS!isStable
  BY DEF GS!StableWhenDone
<1>1. matchA \in GS!Perfect
  BY EverybodyMatched
<1>2. \A x \in GS!Person : matchA[x] \in GS!Person
  BY <1>1 DEF GS!Perfect
<1>3. GS!Stable(matchA)
  <2> SUFFICES ASSUME NEW man \in GS!Person, NEW woman \in GS!Person, GS!Prefers(prefA, man, woman, matchA[man]),
                      NEW c \in GS!Person, matchA[c] = woman, GS!Prefers(prefB, woman, man, c)
               PROVE  FALSE
    BY DEF GS!Stable, GS!Blocks
  <2>1. matchB[woman] = c
    BY <1>2 DEF GSInv, GS!MatchesAgree, GS!Unmatched, GS!Person
  <2>2. GS!rank(prefA, man, woman) < GS!rank(prefA, man, matchA[man])
    BY <1>2, Lists, RankPrefers
  <2>3. GS!rank(prefB, woman, c) <= GS!rank(prefB, woman, man)
    BY <1>2, <2>1, <2>2, PreferredWereProposedTo
  <2>4. GS!rank(prefB, woman, man) < GS!rank(prefB, woman, c)
    BY Lists, RankPrefers
  <2>5. GS!rank(prefB, woman, man) \in GS!Person /\ GS!rank(prefB, woman, c) \in GS!Person
    BY Lists, Rank
  <2> QED BY <2>3, <2>4, <2>5 DEF GS!Person
<1>4. GS!isStable
  <2> SUFFICES ASSUME NEW man \in GS!Person, NEW woman \in GS!Person,
                      ~(GS!rank(prefA, man, woman) >= GS!rank(prefA, man, matchA[man]))
               PROVE  GS!rank(prefB, woman, man) >= GS!rank(prefB, woman, matchB[woman])
    BY DEF GS!isStable
  <2>1. GS!rank(prefA, man, woman) \in GS!Person /\ GS!rank(prefA, man, matchA[man]) \in GS!Person
    BY <1>2, Lists, Rank
  <2>2. GS!rank(prefA, man, woman) < GS!rank(prefA, man, matchA[man])
    BY <2>1 DEF GS!Person
  <2>3. matchB[woman] \in GS!Person /\ GS!rank(prefB, woman, matchB[woman]) <= GS!rank(prefB, woman, man)
    BY <1>2, <2>2, PreferredWereProposedTo
  <2>4. GS!rank(prefB, woman, man) \in GS!Person /\ GS!rank(prefB, woman, matchB[woman]) \in GS!Person
    BY <2>3, Lists, Rank
  <2> QED BY <2>3, <2>4 DEF GS!Person
<1> QED BY <1>1, <1>3, <1>4

-----------------------------------------------------------------------------
(* Optimality *)

\* A proposer that has got to its partner in some stable matching has that
\* partner: no stable partner has rejected or left it.
KeepsStablePartners ==
  \A m \in GS!Perfect : GS!Stable(m) =>
    \A man, r \in GS!Person : r < next[man] /\ prefA[man][r] = m[man] => matchA[man] = m[man]

LEMMA PerfectIsInjective ==
  ASSUME N \in Nat, NEW m \in GS!Perfect
  PROVE  /\ m \in [GS!Person -> GS!Person]
         /\ \A x, y \in GS!Person : m[x] = m[y] => x = y
BY OntoIsInjective DEF GS!Perfect

\* If b, the loser's partner in m, takes the winner instead, and the winner
\* has not got past b, the winner and b block m.
LEMMA WinnerBlocks ==
  ASSUME N \in Nat, GSInv, NEW m \in GS!Perfect, NEW winner \in GS!Person, NEW loser \in GS!Person,
         NEW woman \in GS!Person, winner # loser, m[loser] = woman,
         GS!rank(prefB, woman, winner) < GS!rank(prefB, woman, loser),
         GS!rank(prefA, winner, woman) <= next[winner],
         matchA[winner] \in {GS!Unmatched, woman},
         \A r \in GS!Person : r < next[winner] /\ prefA[winner][r] = m[winner]
            => matchA[winner] = m[winner]
  PROVE  ~GS!Stable(m)
<1> DEFINE r == GS!rank(prefA, winner, m[winner])
           t == GS!rank(prefA, winner, woman)
<1>1. m[winner] \in GS!Person /\ m[winner] # woman
  BY PerfectIsInjective
<1>2. r \in GS!Person /\ prefA[winner][r] = m[winner]
  BY <1>1, Lists, Rank
<1>3. t \in GS!Person /\ prefA[winner][t] = woman
  BY Lists, Rank
<1>4. ~(r < next[winner])
  <2>1. matchA[winner] # m[winner]
    BY <1>1 DEF GS!Person, GS!Unmatched
  <2> QED BY <1>2, <2>1
<1>5. t < r
  <2>1. r # t
    BY <1>1, <1>2, <1>3
  <2>2. next[winner] \in Int /\ r \in Int /\ t \in Int /\ t <= next[winner]
    BY <1>2, <1>3 DEF GSInv, GS!TypeOK, GS!Person
  <2> HIDE DEF r, t
  <2> QED BY <1>4, <2>1, <2>2
<1>6. GS!Prefers(prefA, winner, woman, m[winner])
  BY <1>1, <1>5, Lists, RankPrefers
<1>7. GS!Prefers(prefB, woman, winner, loser)
  BY Lists, RankPrefers
<1> QED BY <1>6, <1>7 DEF GS!Stable, GS!Blocks

LEMMA RoundKeepsStablePartners ==
  ASSUME N \in Nat, GSInv, KeepsStablePartners, NEW x \in GS!Person, NEW woman \in GS!Person, Round(x, woman),
         matchA[x] = GS!Unmatched, NEW m \in GS!Perfect, GS!Stable(m),
         NEW man \in GS!Person, NEW r \in GS!Person, r < next'[man], prefA[man][r] = m[man]
  PROVE  matchA'[man] = m[man]
<1>1. \A c, t \in GS!Person : t < next[c] /\ prefA[c][t] = m[c] => matchA[c] = m[c]
  BY DEF KeepsStablePartners
<1>2. m \in [GS!Person -> GS!Person]
  BY PerfectIsInjective
<1>3. GS!Unmatched \notin GS!Person
  BY DEF GS!Person, GS!Unmatched
<1>4. CASE man = x /\ r = next[x]
  <2>1. m[x] = woman
    BY <1>4 DEF Round
  <2>2. CASE GS!Accept(x, woman) \/ GS!Swap(x, woman)
    BY <1>4, <2>1, <2>2 DEF GS!Accept, GS!Swap, GSInv, GS!TypeOK, GS!MatchesAgree
  <2>3. CASE GS!Reject(x, woman)
    <3> DEFINE w == matchB[woman]
    <3>1. w \in GS!Person /\ matchA[w] = woman /\ w # x
      BY <1>3, <2>3 DEF GS!Reject, GSInv, GS!TypeOK, GS!MatchesAgree
    <3>2. /\ GS!rank(prefB, woman, w) \in GS!Person /\ prefB[woman][GS!rank(prefB, woman, w)] = w
          /\ GS!rank(prefB, woman, x) \in GS!Person /\ prefB[woman][GS!rank(prefB, woman, x)] = x
      BY <3>1, Lists, Rank
    <3>3. GS!rank(prefB, woman, w) < GS!rank(prefB, woman, x)
      <4>1. GS!rank(prefB, woman, w) # GS!rank(prefB, woman, x)
        BY <3>1, <3>2
      <4>2. ~(GS!rank(prefB, woman, x) < GS!rank(prefB, woman, w))
        BY <2>3 DEF GS!Reject, GS!Wins
      <4> QED BY <3>2, <4>1, <4>2 DEF GS!Person
    <3>4. GS!rank(prefA, w, woman) <= next[w]
      BY <3>1, CurrentRank
    <3> HIDE DEF w
    <3> QED BY <1>1, <2>1, <3>1, <3>3, <3>4, WinnerBlocks
  <2> QED BY <2>2, <2>3 DEF Round
<1>5. CASE ~(man = x /\ r = next[x])
  <2>1. r < next[man]
    BY <1>5 DEF Round, GSInv, GS!TypeOK, GS!Person
  <2>2. matchA[man] = m[man]
    BY <1>1, <2>1
  <2>3. man # x
    BY <1>2, <1>3, <2>2
  <2>4. CASE matchA'[man] = matchA[man]
    BY <2>2, <2>4
  <2>5. CASE matchA'[man] # matchA[man]
    <3>1. GS!Swap(x, woman) /\ man = matchB[woman]
      BY <2>3, <2>5 DEF Round, GS!Accept, GS!Swap, GS!Reject, GSInv, GS!TypeOK
    <3>2. m[man] = woman
      BY <2>2, <3>1 DEF GS!Swap, GSInv, GS!MatchesAgree
    <3>3. GS!rank(prefB, woman, x) < GS!rank(prefB, woman, man)
      BY <3>1 DEF GS!Swap, GS!Wins
    <3>4. GS!rank(prefA, x, woman) <= next[x]
      <4>1. \A t \in GS!Person : prefA[x][t] = woman => t = GS!rank(prefA, x, woman)
        BY Lists, Rank
      <4> QED BY <4>1 DEF Round, GS!Person
    <3> QED BY <1>1, <2>3, <3>2, <3>3, <3>4, WinnerBlocks
  <2> QED BY <2>4, <2>5
<1> QED BY <1>4, <1>5

LEMMA StablePartnersStep ==
  ASSUME N \in Nat
  PROVE  GSInv /\ KeepsStablePartners /\ [GS!Next]_GS!vars => KeepsStablePartners'
<1> SUFFICES ASSUME GSInv, KeepsStablePartners, [GS!Next]_GS!vars
             PROVE  KeepsStablePartners'
  OBVIOUS
<1>1. prefA' = prefA /\ prefB' = prefB
  BY DEF GS!Next, GS!Propose, GS!input, GS!vars
<1>2. \A m \in GS!Perfect : GS!Stable(m)' => GS!Stable(m)
  BY <1>1 DEF GS!Stable, GS!Blocks, GS!Prefers
<1> SUFFICES ASSUME NEW m \in GS!Perfect, GS!Stable(m), NEW man \in GS!Person, NEW r \in GS!Person,
                    r < next'[man], prefA[man][r] = m[man]
             PROVE  matchA'[man] = m[man]
  BY <1>1, <1>2 DEF KeepsStablePartners, GS!Perfect
<1>3. CASE GS!Next
  <2>1. PICK x, woman \in GS!Person : matchA[x] = GS!Unmatched /\ Round(x, woman)
    BY <1>3, ProposeIsRound DEF GS!Next
  <2> QED BY <2>1, RoundKeepsStablePartners
<1>4. CASE UNCHANGED GS!vars
  BY <1>4 DEF GS!vars, KeepsStablePartners
<1> QED BY <1>3, <1>4

LEMMA ResultIsOptimal ==
  ASSUME N \in Nat
  PROVE  GSInv /\ KeepsStablePartners => GS!ProposerOptimal
<1> SUFFICES ASSUME GSInv, KeepsStablePartners, GS!Done, NEW m \in GS!Perfect, GS!Stable(m),
                    NEW man \in GS!Person, GS!Prefers(prefA, man, m[man], matchA[man])
             PROVE  FALSE
  BY DEF GS!ProposerOptimal
<1>1. matchA[man] \in GS!Person
  BY EverybodyMatched DEF GS!Perfect
<1>2. m[man] \in GS!Person
  BY DEF GS!Perfect
<1>3. GS!rank(prefA, man, m[man]) < GS!rank(prefA, man, matchA[man])
  BY <1>1, <1>2, Lists, RankPrefers
<1>4. /\ GS!rank(prefA, man, m[man]) \in GS!Person /\ prefA[man][GS!rank(prefA, man, m[man])] = m[man]
  BY <1>2, Lists, Rank
<1>5. GS!rank(prefA, man, m[man]) < next[man]
  BY <1>1, <1>3, <1>4, CurrentRank DEF GS!Person
<1>6. matchA[man] = m[man]
  BY <1>4, <1>5 DEF KeepsStablePartners
<1> QED BY <1>3, <1>4, <1>6 DEF GS!Person

-----------------------------------------------------------------------------
(* The routes run Gale-Shapley as it is specified *)

\* Whatever else a route runs, it starts run() as the constructor leaves it
\* and changes nothing of its state but by its rounds.
THEOREM RunsGaleShapley == Spec => GS!Spec
<1>1. Init => GS!Init
  BY DEF Init
<1>2. [Next]_vars => [GS!Next]_GS!vars
  BY DEF Next, runGaleShapley, runHopcroftKarp, runHungarian, runBlossom, vars, gs, GS!vars
<1> QED BY <1>1, <1>2, PTL DEF Spec, GS!Spec

LEMMA NumberOfPeople == N \in Nat /\ N > 0
BY RunnersAssumption

\* The arrays of run() keep their types: no index leaves the lists.
THEOREM GaleShapleyTypes == Spec => []GS!TypeOK
<1>1. GSInv => GS!TypeOK
  BY DEF GSInv
<1> QED BY <1>1, RunsGaleShapley, NumberOfPeople, GSInvariant, PTL

\* matchA_ and matchB_ describe one matching after every round of run().
THEOREM MatchingsAgree == Spec => []GS!MatchesAgree
<1>1. GSInv => GS!MatchesAgree
  BY DEF GSInv
<1> QED BY <1>1, RunsGaleShapley, NumberOfPeople, GSInvariant, PTL

\* run() never reads prefA_[a] past its end: whoever is free has somebody left
\* to propose to.
THEOREM ListsNotOverrun == Spec => []GS!NextInBounds
<1>1. GSInv => GS!NextInBounds
  BY NumberOfPeople, InBounds
<1> QED BY <1>1, RunsGaleShapley, NumberOfPeople, GSInvariant, PTL

\* A round leaves everyone of group B with its partner or a better one.
Improves == \A woman \in Index :
              matchB[woman] # -1 /\ matchB'[woman] # matchB[woman] =>
                matchB'[woman] # -1 /\ GS!Prefers(prefB, woman, matchB'[woman], matchB[woman])

\* No step of a route takes a woman's partner away but for a better one.
THEOREM PartnersOnlyImprove == Spec => [][Improves]_vars
<1>1. ASSUME GSInv, GSInv', GS!Next PROVE Improves
  <2>1. PICK x, y \in GS!Person : Round(x, y)
    BY <1>1, NumberOfPeople, ProposeIsRound DEF GS!Next
  <2>2. Improved(x, y)
    BY <1>1, <2>1, NumberOfPeople, RoundImproves
  <2> SUFFICES ASSUME NEW woman \in GS!Person, matchB[woman] # GS!Unmatched,
                      matchB'[woman] # matchB[woman]
               PROVE  /\ matchB'[woman] # GS!Unmatched
                      /\ GS!Prefers(prefB, woman, matchB'[woman], matchB[woman])
    BY DEF Improves, Index, GS!Person, GS!Unmatched
  <2>3. /\ matchB'[woman] # GS!Unmatched
        /\ GS!rank(prefB, woman, matchB'[woman]) < GS!rank(prefB, woman, matchB[woman])
    BY <2>2 DEF Improved
  <2>4. /\ matchB[woman] \in GS!Person /\ matchB'[woman] \in GS!Person
        /\ prefB \in [GS!Person -> GS!List]
    BY <1>1, <2>3 DEF GSInv, GS!TypeOK
  <2> QED BY <2>3, <2>4, NumberOfPeople, RankPrefers
<1>2. UNCHANGED GS!vars => Improves
  BY DEF GS!vars, Improves
<1>3. GSInv /\ GSInv' /\ [GS!Next]_GS!vars => [Improves]_vars
  BY <1>1, <1>2
<1> QED BY <1>3, RunsGaleShapley, NumberOfPeople, GSInvariant, PTL DEF GS!Spec

\* When run() ends everybody is matched, no pair prefers each other to their
\* partners, and isStable() agrees.
THEOREM StableResult == Spec => []StableWhenDone
<1>1. GSInv => StableWhenDone
  BY NumberOfPeople, ResultIsStable DEF StableWhenDone
<1> QED BY <1>1, RunsGaleShapley, NumberOfPeople, GSInvariant, PTL

\* When run() ends no stable matching gives a proposer a partner it prefers to
\* the one it has: the README's "proposer-optimal", for any number of people.
THEOREM Optimality == Spec => []ProposerOptimal
<1>1. GS!Init => KeepsStablePartners
  BY DEF GS!Init, KeepsStablePartners, GS!Person
<1>2. GSInv /\ KeepsStablePartners /\ [GS!Next]_GS!vars => KeepsStablePartners'
  BY NumberOfPeople, StablePartnersStep
<1>3. GSInv /\ KeepsStablePartners => ProposerOptimal
  BY NumberOfPeople, ResultIsOptimal DEF ProposerOptimal
<1> QED BY <1>1, <1>2, <1>3, RunsGaleShapley, NumberOfPeople, GSInvariant, PTL DEF GS!Spec

-----------------------------------------------------------------------------
(* Scores and preferences *)

\* What takes the place of induction: a set of naturals has a least element.
LEMMA LeastElement ==
  ASSUME NEW T \in SUBSET Nat, T # {}
  PROVE  \E n \in T : \A k \in T : n <= k
<1> DEFINE R == OpToRel(<, Nat)
<1>1. IsWellFoundedOn(R, Nat)
  BY NatLessThanWellFounded
<1> HIDE DEF R
<1>2. PICK n \in T : \A k \in T : ~(<<k, n>> \in R)
  BY <1>1, WFMin
<1>3. ASSUME NEW k \in T PROVE n <= k
  <2>1. k \in Nat /\ n \in Nat /\ ~(<<k, n>> \in R)
    BY <1>2
  <2>2. ~(k < n)
    BY <2>1 DEF R, OpToRel
  <2> QED BY <2>1, <2>2
<1> QED BY <1>3

\* std::sort compares neighbours; the whole list is sorted.
LEMMA SortedThroughout ==
  ASSUME N \in Nat, NEW points \in [Index -> 0 .. 100], NEW l \in SortedBy(points),
         NEW i \in Index, NEW j \in Index, i < j
  PROVE  points[l[i]] >= points[l[j]]
<1> SUFFICES ASSUME ~(points[l[i]] >= points[l[j]]) PROVE FALSE
  OBVIOUS
<1>1. l \in [Index -> Index] /\ \A r \in 1 .. N - 1 : points[l[r - 1]] >= points[l[r]]
  BY DEF SortedBy, GS!List, GS!Person, Index
<1> DEFINE T == {k \in Index : i < k /\ ~(points[l[i]] >= points[l[k]])}
<1>2. T \in SUBSET Nat /\ j \in T
  BY DEF Index
<1>3. PICK k \in T : \A n \in T : k <= n
  BY <1>2, LeastElement
<1>4. k \in 1 .. N - 1 /\ k - 1 \in Index /\ k - 1 \notin T /\ i <= k - 1
  BY <1>3 DEF Index
<1>5. points[l[k - 1]] >= points[l[k]]
  BY <1>1, <1>4
<1>6. points[l[i]] \in Int /\ points[l[k]] \in Int /\ points[l[k - 1]] \in Int
  <2>1. l[i] \in Index /\ l[k] \in Index /\ l[k - 1] \in Index
    BY <1>1, <1>3, <1>4
  <2> QED BY <2>1
<1>7. CASE k - 1 = i
  BY <1>3, <1>5, <1>7
<1>8. CASE k - 1 # i
  <2>1. points[l[i]] >= points[l[k - 1]]
    BY <1>4, <1>8 DEF Index
  <2> QED BY <1>3, <1>5, <1>6, <2>1
<1> QED BY <1>7, <1>8

\* A better points is a place further up the list.
LEMMA BetterIsPreferred ==
  ASSUME N \in Nat, NEW points \in [Index -> 0 .. 100], NEW prefs \in [Index -> GS!List],
         NEW x \in Index, prefs[x] \in SortedBy(points),
         NEW y \in Index, NEW z \in Index, points[y] > points[z]
  PROVE  GS!Prefers(prefs, x, y, z)
<1>1. PICK i, j \in Index : prefs[x][i] = y /\ prefs[x][j] = z
  <2>1. prefs[x] \in GS!List
    OBVIOUS
  <2> QED BY <2>1 DEF GS!List, GS!Person, Index
<1>2. i # j
  BY <1>1
<1>3. ~(j < i)
  <2>1. j < i => points[z] >= points[y]
    BY <1>1, SortedThroughout
  <2> QED BY <2>1
<1>4. i < j
  BY <1>2, <1>3 DEF Index
<1> QED BY <1>1, <1>4 DEF GS!Prefers, GS!Person, Index

\* The lists stay sorted by the scores, and what Gale-Shapley has reported is
\* the final matching of its run.
GSReport ==
  /\ COMPAT \in Tables /\ prefA \in buildMenPrefs /\ prefB \in buildWomenPrefs
  /\ Reported("Gale-Shapley") => GS!Done /\ results["Gale-Shapley"].matchM = matchA

LEMMA GSReportInvariant == Spec => []GSReport
<1>1. Init => GSReport
  BY DEF Init, GSReport, Reported
<1>2. GSReport /\ [Next]_vars => GSReport'
  <2> SUFFICES ASSUME GSReport, [Next]_vars PROVE GSReport'
    OBVIOUS
  <2>1. COMPAT' = COMPAT /\ prefA' = prefA /\ prefB' = prefB
    BY DEF Next, runGaleShapley, runHopcroftKarp, runHungarian, runBlossom, vars, gs,
           GS!Next, GS!Propose, GS!input
  <2>2. /\ COMPAT' \in Tables /\ prefA' \in buildMenPrefs' /\ prefB' \in buildWomenPrefs'
    BY <2>1 DEF GSReport, buildMenPrefs, buildWomenPrefs
  <2>3. ASSUME NEW m, Calls("Gale-Shapley"), GS!Done, m = matchA, Report(m), UNCHANGED gs
        PROVE  GSReport'
    BY <2>2, <2>3 DEF GSReport, Reported, Report, Calls, matchesToJson, GS!Done, gs
  <2>4. ASSUME NEW m, NEW algorithm, algorithm # "Gale-Shapley", Calls(algorithm),
               Report(m), UNCHANGED gs
        PROVE  GSReport'
    BY <2>2, <2>4 DEF GSReport, Reported, Report, Calls, GS!Done, gs
  <2>5. CASE GS!Next /\ UNCHANGED results
    <3>1. ~GS!Done
      BY <2>5 DEF GS!Next, GS!Propose, GS!Done
    <3> QED BY <2>2, <2>5, <3>1 DEF GSReport, Reported
  <2>6. CASE UNCHANGED <<results, gs>>
    BY <2>2, <2>6 DEF GSReport, Reported, GS!Done, gs
  <2> QED BY <2>3, <2>4, <2>5, <2>6 DEF Next, runGaleShapley, runHopcroftKarp, runHungarian, runBlossom, vars
<1> QED BY <1>1, <1>2, PTL DEF Spec

\* "No couple would both prefer each other over their assigned partners", by
\* the scores: for every table, and whatever order the sort gave to equal scores.
THEOREM NobodyBlocks == Spec => []NoBlockingCouple
<1>1. GSInv /\ GSReport => NoBlockingCouple
  <2> SUFFICES ASSUME GSInv, GSReport, Reported("Gale-Shapley") PROVE NoBlockingCouple
    BY DEF NoBlockingCouple
  <2> DEFINE C == Couples("Gale-Shapley")
  <2>0. N \in Nat /\ GS!Person = Index
    BY NumberOfPeople DEF GS!Person, Index
  <2>1. GS!Done /\ results["Gale-Shapley"].matchM = matchA
    BY DEF GSReport
  <2>2. matchA \in GS!Perfect /\ GS!Stable(matchA)
    BY <2>0, <2>1, ResultIsStable DEF GS!StableWhenDone
  <2>3. matchA \in [Index -> Index] /\ \A x, y \in Index : matchA[x] = matchA[y] => x = y
    BY <2>0, <2>2, PerfectIsInjective
  <2>4. C = {<<x, matchA[x]>> : x \in Index}
    BY <2>1, <2>3 DEF Couples, Index
  <2>5. Cardinality(C) = N
    <3> DEFINE f == [x \in Index |-> <<x, matchA[x]>>]
    <3>1. f \in Bijection(Index, C)
      BY <2>4 DEF Bijection, Injection, Surjection, IsInjective
    <3>2. IsFiniteSet(Index) /\ Cardinality(Index) = N
      BY <2>0, FS_Interval DEF Index
    <3> QED BY <3>1, <3>2, FS_Bijection DEF ExistsBijection
  <2>6. OneToOne(C)
    BY <2>3, <2>4 DEF OneToOne
  <2>7. ASSUME NEW x \in Index, NEW y \in Index,
               COMPAT[x][matchA[y]] > COMPAT[x][matchA[x]],
               COMPAT[x][matchA[y]] > COMPAT[y][matchA[y]]
        PROVE  FALSE
    <3> DEFINE w == matchA[y]
               given == [m \in Index |-> COMPAT[m][w]]
    <3>1. /\ COMPAT \in [Index -> [Index -> 0 .. 100]] /\ w \in Index /\ matchA[x] \in Index
          /\ prefA \in [Index -> GS!List] /\ prefA[x] \in SortedBy(COMPAT[x])
          /\ prefB \in [Index -> GS!List] /\ prefB[w] \in SortedBy(given)
      BY <2>3, RunnersAssumption DEF GSReport, buildMenPrefs, buildWomenPrefs, Index
    <3>2. GS!Prefers(prefA, x, w, matchA[x])
      BY <2>0, <2>7, <3>1, BetterIsPreferred
    <3>3. given \in [Index -> 0 .. 100] /\ given[x] > given[y]
      BY <2>7, <3>1
    <3>4. GS!Prefers(prefB, w, x, y)
      <4> HIDE DEF given
      <4>1. \A y1, z1 \in Index : given[y1] > given[z1] => GS!Prefers(prefB, w, y1, z1)
        BY <2>0, <3>1, <3>3, BetterIsPreferred
      <4> QED BY <3>3, <4>1
    <3>5. GS!Blocks(matchA, x, w)
      BY <2>0, <3>2, <3>4 DEF GS!Blocks
    <3> QED BY <2>0, <2>2, <3>1, <3>5 DEF GS!Stable
  <2>8. COMPAT \in [Index -> [Index -> 0 .. 100]]
    BY RunnersAssumption DEF GSReport, Index
  <2>9. ASSUME NEW c \in C, NEW d \in C
        PROVE  \/ COMPAT[c[1]][d[2]] <= COMPAT[c[1]][c[2]]
               \/ COMPAT[c[1]][d[2]] <= COMPAT[d[1]][d[2]]
    <3>1. PICK x \in Index : c = <<x, matchA[x]>>
      BY <2>4
    <3>2. PICK y \in Index : d = <<y, matchA[y]>>
      BY <2>4
    <3>3. /\ COMPAT[x][matchA[y]] \in Int /\ COMPAT[x][matchA[x]] \in Int
          /\ COMPAT[y][matchA[y]] \in Int
      <4>1. matchA[x] \in Index /\ matchA[y] \in Index
        BY <2>3
      <4>2. COMPAT[x] \in [Index -> 0 .. 100] /\ COMPAT[y] \in [Index -> 0 .. 100]
        BY <2>8
      <4> QED BY <4>1, <4>2
    <3> QED BY <2>7, <3>1, <3>2, <3>3
  <2> QED BY <2>5, <2>6, <2>9 DEF NoBlockingCouple
<1> QED BY <1>1, RunsGaleShapley, NumberOfPeople, GSInvariant, GSReportInvariant, PTL

-----------------------------------------------------------------------------
(* Hopcroft-Karp: what bfs reaches *)

Step(X) == HK!MatesOf(HK!Neighbours(X))

\* Wave is the function that its equation describes.
LEMMA WaveEquation ==
  ASSUME N \in Nat
  PROVE  HK!Wave = [k \in 0 .. N |-> IF k = 0 THEN HK!Free
                                     ELSE HK!Wave[k - 1] \cup Step(HK!Wave[k - 1])]
<1> DEFINE Solves(g, n) == g = [k \in 0 .. n |-> IF k = 0 THEN HK!Free
                                                 ELSE g[k - 1] \cup Step(g[k - 1])]
           T == {n \in 0 .. N : ~ \E g : Solves(g, n)}
<1>1. T = {}
  <2> SUFFICES ASSUME T # {} PROVE FALSE
    OBVIOUS
  <2>1. T \in SUBSET Nat
    OBVIOUS
  <2>2. PICK n \in T : \A k \in T : n <= k
    <3> HIDE DEF T
    <3> QED BY <2>1, LeastElement
  <2>3. CASE n = 0
    <3>1. Solves([k \in 0 .. n |-> HK!Free], n)
      BY <2>3
    <3> QED BY <3>1
  <2>4. CASE n # 0
    <3>1. n \in 1 .. N /\ n - 1 \in 0 .. N /\ n - 1 \notin T
      <4>1. n \in 0 .. N
        OBVIOUS
      <4> HIDE DEF T
      <4> QED BY <2>2, <2>4, <4>1
    <3>2. PICK g : Solves(g, n - 1)
      BY <3>1
    <3> DEFINE h == [k \in 0 .. n |-> IF k = n THEN g[n - 1] \cup Step(g[n - 1]) ELSE g[k]]
    <3>3. ASSUME NEW k \in 0 .. n
          PROVE  h[k] = IF k = 0 THEN HK!Free ELSE h[k - 1] \cup Step(h[k - 1])
      <4>1. CASE k = n
        <5>1. h[k] = g[n - 1] \cup Step(g[n - 1]) /\ h[k - 1] = g[n - 1] /\ k # 0
          BY <2>4, <3>1, <4>1
        <5> QED BY <4>1, <5>1
      <4>2. CASE k # n
        <5>1. k \in 0 .. n - 1 /\ h[k] = g[k]
          BY <3>1, <4>2
        <5>2. g[k] = IF k = 0 THEN HK!Free ELSE g[k - 1] \cup Step(g[k - 1])
          BY <3>2, <5>1
        <5>3. k # 0 => k - 1 \in 0 .. n /\ h[k - 1] = g[k - 1]
          BY <3>1, <5>1
        <5> HIDE DEF h
        <5> QED BY <5>1, <5>2, <5>3
      <4> QED BY <4>1, <4>2
    <3>4. Solves(h, n)
      <4>1. h = [k \in 0 .. n |-> h[k]]
        OBVIOUS
      <4> HIDE DEF h
      <4> QED BY <3>3, <4>1
    <3> QED BY <3>4
  <2> QED BY <2>3, <2>4
<1>2. \E g : Solves(g, N)
  <2>1. N \in 0 .. N
    OBVIOUS
  <2> HIDE DEF Solves
  <2> QED BY <1>1, <2>1
<1>3. HK!Wave = CHOOSE g : Solves(g, N)
  BY DEF HK!Wave, Step
<1>4. Solves(HK!Wave, N)
  BY <1>2, <1>3
<1> QED BY <1>4

LEMMA WaveStep ==
  ASSUME N \in Nat, NEW k \in 0 .. N
  PROVE  /\ HK!Wave[0] = HK!Free
         /\ k < N => HK!Wave[k + 1] = HK!Wave[k] \cup Step(HK!Wave[k])
<1>1. HK!Wave[0] = HK!Free
  BY WaveEquation
<1>2. ASSUME k < N PROVE HK!Wave[k + 1] = HK!Wave[k] \cup Step(HK!Wave[k])
  <2>1. k + 1 \in 0 .. N /\ k + 1 # 0 /\ (k + 1) - 1 = k
    BY <1>2
  <2>2. \A n \in 0 .. N : n # 0 => HK!Wave[n] = HK!Wave[n - 1] \cup Step(HK!Wave[n - 1])
    BY WaveEquation
  <2>3. HK!Wave[k + 1] = HK!Wave[(k + 1) - 1] \cup Step(HK!Wave[(k + 1) - 1])
    BY <2>1, <2>2
  <2> QED BY <2>1, <2>3
<1> QED BY <1>1, <1>2

\* A reached vertex has a level.
LEMMA LevelType ==
  ASSUME N \in Nat, NEW x, x \in HK!Reached
  PROVE  HK!Level(x) \in 0 .. N
<1> DEFINE T == {k \in 0 .. N : x \in HK!Wave[k]}
<1>1. T \in SUBSET Nat /\ N \in T
  BY DEF HK!Reached
<1>2. PICK k \in T : \A n \in T : k <= n
  <2> HIDE DEF T
  <2> QED BY <1>1, LeastElement
<1>3. k \in 0 .. N /\ x \in HK!Wave[k] /\ \A l \in 0 .. k - 1 : x \notin HK!Wave[l]
  BY <1>2
<1> QED BY <1>3 DEF HK!Level

\* What the correctness of bfs's levels needs of the arrays.
ArraysTyped == /\ hkAdj \in [Index -> Seq(Index)]
               /\ matchLeft \in [Index -> Index \cup {-1}]
               /\ matchRight \in [Index -> Index \cup {-1}]

LEMMA StepType ==
  ASSUME ArraysTyped, NEW X \in SUBSET Index
  PROVE  Step(X) \in SUBSET Index /\ HK!Neighbours(X) \in SUBSET Index
<1>1. \A x \in X : HK!Range(hkAdj[x]) \in SUBSET Index
  <2> TAKE x \in X
  <2>1. hkAdj[x] \in Seq(Index)
    BY DEF ArraysTyped
  <2> QED BY <2>1 DEF HK!Range
<1>2. HK!Neighbours(X) \in SUBSET Index
  BY <1>1 DEF HK!Neighbours
<1> QED BY <1>2 DEF Step, HK!MatesOf, ArraysTyped, HK!None

\* Every round reaches left vertices only, and loses none.
LEMMA WaveType ==
  ASSUME N \in Nat, ArraysTyped
  PROVE  \A k \in 0 .. N : HK!Wave[k] \in SUBSET Index
<1> DEFINE T == {k \in 0 .. N : HK!Wave[k] \notin SUBSET Index}
<1> SUFFICES ASSUME T # {} PROVE FALSE
  OBVIOUS
<1>1. T \in SUBSET Nat
  OBVIOUS
<1>2. PICK n \in T : \A k \in T : n <= k
  <2> HIDE DEF T
  <2> QED BY <1>1, LeastElement
<1>3. n # 0
  BY <1>2, WaveStep DEF HK!Free, HK!Left, Index
<1>4. n - 1 \in 0 .. N /\ n - 1 < N /\ n - 1 \notin T /\ (n - 1) + 1 = n
  BY <1>2, <1>3
<1>5. HK!Wave[n - 1] \in SUBSET Index
  BY <1>4
<1>6. HK!Wave[n] = HK!Wave[n - 1] \cup Step(HK!Wave[n - 1])
  <2>1. HK!Wave[(n - 1) + 1] = HK!Wave[n - 1] \cup Step(HK!Wave[n - 1])
    BY <1>4, WaveStep
  <2> QED BY <1>4, <2>1
<1>7. HK!Wave[n] \in SUBSET Index
  BY <1>5, <1>6, StepType
<1> QED BY <1>2, <1>7

\* N rounds are enough: the search ends with nothing further to reach.
LEMMA ReachedIsClosed ==
  ASSUME N \in Nat, N > 0, ArraysTyped
  PROVE  HK!Free \subseteq HK!Reached /\ Step(HK!Reached) \subseteq HK!Reached
<1> DEFINE W == HK!Wave
<1>1. \A k \in 0 .. N : k < N => W[k + 1] = W[k] \cup Step(W[k])
  BY WaveStep
<1>2. \A k \in 0 .. N : W[k] \in SUBSET Index
  BY WaveType
<1>3. W[0] = HK!Free
  BY WaveStep
<1>4. IsFiniteSet(Index) /\ Cardinality(Index) = N
  BY FS_Interval DEF Index
<1>5. \A k \in 0 .. N : IsFiniteSet(W[k]) /\ Cardinality(W[k]) \in Nat /\ Cardinality(W[k]) <= N
  BY <1>2, <1>4, FS_Subset, FS_CardinalityType
<1>6. \A k \in 0 .. N : HK!Free \subseteq W[k]
  <2> DEFINE T == {k \in 0 .. N : ~(HK!Free \subseteq W[k])}
  <2> SUFFICES ASSUME T # {} PROVE FALSE
    OBVIOUS
  <2>1. T \in SUBSET Nat
    OBVIOUS
  <2>2. PICK n \in T : \A k \in T : n <= k
    <3> HIDE DEF T
    <3> QED BY <2>1, LeastElement
  <2>3. n # 0
    BY <1>3, <2>2
  <2>4. n - 1 \in 0 .. N /\ n - 1 < N /\ n - 1 \notin T /\ (n - 1) + 1 = n
    BY <2>2, <2>3
  <2>5. W[n] = W[n - 1] \cup Step(W[n - 1])
    BY <1>1, <2>4
  <2> QED BY <2>2, <2>4, <2>5
<1>7. ASSUME NEW k \in 0 .. N, k < N, W[k + 1] = W[k]
      PROVE  Step(W[N]) \subseteq W[N]
  <2> DEFINE T == {n \in 0 .. N : k <= n /\ W[n] # W[k]}
  <2>1. T = {}
    <3> SUFFICES ASSUME T # {} PROVE FALSE
      OBVIOUS
    <3>1. T \in SUBSET Nat
      OBVIOUS
    <3>2. PICK n \in T : \A m \in T : n <= m
      <4> HIDE DEF T
      <4> QED BY <3>1, LeastElement
    <3>3. n # k
      BY <3>2
    <3>4. n - 1 \in 0 .. N /\ n - 1 < N /\ n - 1 \notin T /\ k <= n - 1 /\ (n - 1) + 1 = n
      BY <3>2, <3>3
    <3>5. W[n - 1] = W[k]
      BY <3>4
    <3>6. W[n] = W[n - 1] \cup Step(W[n - 1])
      BY <1>1, <3>4
    <3>7. W[k + 1] = W[k] \cup Step(W[k])
      BY <1>1, <1>7
    <3> QED BY <1>7, <3>2, <3>5, <3>6, <3>7
  <2>2. W[N] = W[k]
    BY <1>7, <2>1
  <2>3. W[k + 1] = W[k] \cup Step(W[k])
    BY <1>1, <1>7
  <2> QED BY <1>7, <2>2, <2>3
<1>8. CASE \E k \in 0 .. N : k < N /\ W[k + 1] = W[k]
  BY <1>6, <1>7, <1>8 DEF HK!Reached
<1>9. CASE \A k \in 0 .. N : k < N => W[k + 1] # W[k]
  <2>1. W[0] # {}
    <3> SUFFICES ASSUME W[0] = {} PROVE FALSE
      OBVIOUS
    <3>1. Step({}) = {}
      BY DEF Step, HK!MatesOf, HK!Neighbours
    <3>2. W[0 + 1] = W[0] \cup Step(W[0]) /\ W[0 + 1] # W[0]
      <4>1. 0 \in 0 .. N /\ 0 < N
        OBVIOUS
      <4> HIDE DEF W
      <4> QED BY <1>1, <1>9, <4>1
    <3> QED BY <3>1, <3>2
  <2> DEFINE T == {k \in 0 .. N : ~(Cardinality(W[k]) > k)}
  <2>2. T = {}
    <3> SUFFICES ASSUME T # {} PROVE FALSE
      OBVIOUS
    <3>1. T \in SUBSET Nat
      OBVIOUS
    <3>2. PICK n \in T : \A m \in T : n <= m
      <4> HIDE DEF T
      <4> QED BY <3>1, LeastElement
    <3>3. n # 0
      <4>1. Cardinality(W[0]) # 0
        BY <1>5, <2>1, FS_EmptySet
      <4> QED BY <1>5, <3>2, <4>1
    <3>4. n - 1 \in 0 .. N /\ n - 1 < N /\ n - 1 \notin T /\ (n - 1) + 1 = n
      BY <3>2, <3>3
    <3>5. W[n - 1] \subseteq W[n] /\ W[n] # W[n - 1]
      BY <1>1, <1>9, <3>4
    <3>6. /\ IsFiniteSet(W[n]) /\ Cardinality(W[n]) \in Nat
          /\ Cardinality(W[n - 1]) \in Nat
      BY <1>5, <3>2, <3>4
    <3>7. Cardinality(W[n - 1]) <= Cardinality(W[n]) /\ Cardinality(W[n]) # Cardinality(W[n - 1])
      BY <3>5, <3>6, FS_Subset
    <3>8. Cardinality(W[n - 1]) > n - 1
      BY <3>4
    <3>9. Cardinality(W[n]) > n
      BY <3>2, <3>6, <3>7, <3>8
    <3> QED BY <3>2, <3>9
  <2>3. Cardinality(W[N]) > N
    BY <2>2
  <2> QED BY <1>5, <2>3
<1> QED BY <1>8, <1>9

-----------------------------------------------------------------------------
(* Folds: the pairs the loops find compatible, and the adjacency lists *)

\* g is the fold over the subsets of S that starts with start and takes
\* pick[A] as the last element of A.
FoldOf(g, S, start, pick, op) ==
  /\ g[{}] = start
  /\ \A A \in SUBSET S : A # {} => g[A] = op[<<pick[A], g[A \ {pick[A]}]>>]

\* A recursion over the subsets of a finite set, which takes one element away
\* at a time, has a solution.
LEMMA FoldExists ==
  ASSUME NEW S, IsFiniteSet(S), NEW V, NEW start \in V,
         NEW pick, \A A \in SUBSET S : A # {} => pick[A] \in A,
         NEW op \in [S \X V -> V]
  PROVE  \E g \in [SUBSET S -> V] : FoldOf(g, S, start, pick, op)
<1> DEFINE Small(n) == {A \in SUBSET S : Cardinality(A) <= n}
           Body(g, A) == IF A = {} THEN start ELSE op[<<pick[A], g[A \ {pick[A]}]>>]
           Solves(g, n) == g \in [Small(n) -> V] /\ \A A \in Small(n) : g[A] = Body(g, A)
           T == {n \in 0 .. Cardinality(S) : ~ \E g : Solves(g, n)}
<1>0. /\ Cardinality(S) \in Nat
      /\ \A A \in SUBSET S : /\ IsFiniteSet(A) /\ Cardinality(A) \in Nat
                             /\ Cardinality(A) <= Cardinality(S)
  BY FS_Subset, FS_CardinalityType
<1>1. T = {}
  <2> SUFFICES ASSUME T # {} PROVE FALSE
    OBVIOUS
  <2>1. T \in SUBSET Nat
    BY <1>0
  <2>2. PICK n \in T : \A k \in T : n <= k
    <3> HIDE DEF T
    <3> QED BY <2>1, LeastElement
  <2>3. n \in 0 .. Cardinality(S) /\ n \in Nat /\ ~ \E g : Solves(g, n)
    <3> HIDE DEF Solves
    <3> QED BY <1>0
  <2>4. CASE n = 0
    <3> DEFINE g == [A \in Small(n) |-> start]
    <3>1. \A A \in Small(n) : A = {}
      BY <1>0, <2>4, FS_EmptySet
    <3>2. Solves(g, n)
      BY <3>1
    <3> HIDE DEF Solves
    <3> QED BY <2>3, <3>2
  <2>5. CASE n # 0
    <3>1. n - 1 \in 0 .. Cardinality(S) /\ n - 1 \notin T
      <4>1. n - 1 \in 0 .. Cardinality(S)
        BY <1>0, <2>3, <2>5
      <4> HIDE DEF T
      <4> QED BY <2>1, <2>2, <2>3, <4>1
    <3>2. PICK g : Solves(g, n - 1)
      <4> HIDE DEF Solves
      <4> QED BY <3>1
    <3> DEFINE h == [A \in Small(n) |-> IF A \in Small(n - 1) THEN g[A] ELSE op[<<pick[A], g[A \ {pick[A]}]>>]]
    <3>3. \A A \in Small(n) : A # {} => /\ pick[A] \in S
                                        /\ A \ {pick[A]} \in Small(n - 1)
                                        /\ A \ {pick[A]} \in Small(n)
      <4> TAKE A \in Small(n)
      <4> HAVE A # {}
      <4>1. pick[A] \in A /\ A \in SUBSET S /\ Cardinality(A) <= n
        OBVIOUS
      <4>2. Cardinality(A \ {pick[A]}) = Cardinality(A) - 1
        BY <1>0, <4>1, FS_RemoveElement
      <4> QED BY <1>0, <2>3, <4>1, <4>2
    <3>4. {} \in Small(n - 1)
      BY <2>3, <2>5, FS_EmptySet
    <3>5. \A A \in Small(n - 1) : A \in Small(n)
      BY <1>0, <2>3
    <3> HIDE DEF Small
    <3>6. h \in [Small(n) -> V]
      BY <3>2, <3>3, <3>4
    <3>7. ASSUME NEW A \in Small(n) PROVE h[A] = Body(h, A)
      <4>1. CASE A = {}
        BY <3>2, <3>4, <4>1
      <4>2. CASE A # {}
        <5>1. h[A] = op[<<pick[A], g[A \ {pick[A]}]>>]
          BY <3>2, <4>2
        <5>2. h[A \ {pick[A]}] = g[A \ {pick[A]}]
          BY <3>3, <4>2
        <5> HIDE DEF h
        <5> QED BY <4>2, <5>1, <5>2
      <4> QED BY <4>1, <4>2
    <3> HIDE DEF h, Body
    <3>8. Solves(h, n)
      BY <3>6, <3>7
    <3> QED BY <2>3, <3>8
  <2> QED BY <2>4, <2>5
<1>2. PICK g : Solves(g, Cardinality(S))
  <2>1. Cardinality(S) \in 0 .. Cardinality(S)
    BY <1>0
  <2> HIDE DEF Solves
  <2> QED BY <1>1, <2>1
<1>3. Small(Cardinality(S)) = SUBSET S
  BY <1>0
<1>4. g \in [SUBSET S -> V] /\ FoldOf(g, S, start, pick, op)
  BY <1>2, <1>3 DEF FoldOf
<1> QED BY <1>4

LEMMA GreatestElement ==
  ASSUME NEW n \in Nat, NEW A \in SUBSET (0 .. n), A # {}
  PROVE  Max(A) \in A /\ \A k \in A : k <= Max(A)
<1> DEFINE T == {n - k : k \in A}
<1>1. T \in SUBSET Nat /\ T # {}
  <2>1. \A k \in A : n - k \in Nat
    OBVIOUS
  <2>2. T # {}
    OBVIOUS
  <2> QED BY <2>1, <2>2
<1>2. PICK t \in T : \A k \in T : t <= k
  <2> HIDE DEF T
  <2> QED BY <1>1, LeastElement
<1>3. PICK m \in A : t = n - m
  OBVIOUS
<1>4. \A k \in A : m >= k
  <2> TAKE k \in A
  <2>1. n - m <= n - k
    BY <1>2, <1>3
  <2> QED BY <2>1
<1>5. Max(A) \in A /\ \A k \in A : Max(A) >= k
  BY <1>4 DEF Max
<1> QED BY <1>5

LEMMA MaxOfInterval ==
  ASSUME NEW n \in Nat, NEW A \in SUBSET (1 .. n), A # {}
  PROVE  Max(A) \in A /\ \A k \in A : k <= Max(A)
<1>1. A \in SUBSET (0 .. n)
  OBVIOUS
<1> QED BY <1>1, GreatestElement

LEMMA MaxOfPrefix ==
  ASSUME NEW n \in Nat, NEW k \in 1 .. n
  PROVE  /\ 1 .. k \in SUBSET (1 .. n) /\ 1 .. k # {}
         /\ Max(1 .. k) = k /\ (1 .. k) \ {Max(1 .. k)} = 1 .. k - 1
<1>1. 1 .. k \in SUBSET (1 .. n) /\ k \in 1 .. k
  OBVIOUS
<1>2. Max(1 .. k) \in 1 .. k /\ k <= Max(1 .. k)
  <2>1. 1 .. k # {}
    BY <1>1
  <2> QED BY <1>1, <2>1, MaxOfInterval
<1>3. Max(1 .. k) = k
  BY <1>2
<1> QED BY <1>1, <1>3

RangeOf(list) == {list[k] : k \in 1 .. Len(list)}

Pair == Index \X Index

LEMMA DivMod ==
  ASSUME N \in Nat, NEW x \in 0 .. N - 1, NEW y \in 0 .. N - 1
  PROVE  (x * N + y) \div N = x /\ (x * N + y) % N = y
OBVIOUS

LEMMA AllPairsType ==
  ASSUME N \in Nat
  PROVE  /\ N * N \in Nat
         /\ AllPairs \in [1 .. N * N -> Pair]
         /\ \A e \in Pair : \E k \in 1 .. N * N : AllPairs[k] = e
<1>1. N * N \in Nat
  OBVIOUS
<1>2. ASSUME NEW k \in 1 .. N * N PROVE <<(k - 1) \div N, (k - 1) % N>> \in Pair
  <2>1. N > 0 /\ N # 0
    OBVIOUS
  <2> DEFINE d == (k - 1) \div N
             r == (k - 1) % N
  <2>2. k - 1 \in Nat /\ k - 1 < N * N
    BY <1>1
  <2>3. d \in Int /\ r \in 0 .. N - 1 /\ k - 1 = N * d + r
    BY <2>1, <2>2
  <2> HIDE DEF d, r
  <2>4. d >= 0
    <3> SUFFICES ASSUME d <= -1 PROVE FALSE
      BY <2>3
    <3>1. N * d <= N * (-1)
      BY <2>1, <2>3
    <3> QED BY <2>2, <2>3, <3>1
  <2>5. d < N
    <3> SUFFICES ASSUME d >= N PROVE FALSE
      BY <2>3
    <3>1. N * d >= N * N
      BY <2>1, <2>3
    <3> QED BY <1>1, <2>2, <2>3, <3>1
  <2>6. d \in Index /\ r \in Index
    BY <2>3, <2>4, <2>5 DEF Index
  <2> QED BY <2>6 DEF Pair, d, r
<1>3. AllPairs \in [1 .. N * N -> Pair]
  BY <1>2 DEF AllPairs
<1>4. ASSUME NEW x \in Index, NEW y \in Index
      PROVE  \E k \in 1 .. N * N : AllPairs[k] = <<x, y>>
  <2> DEFINE k == x * N + y + 1
  <2>1. x \in Nat /\ y \in Nat /\ x <= N - 1 /\ y <= N - 1
    BY DEF Index
  <2>2. x * N \in Nat /\ x * N <= (N - 1) * N /\ (N - 1) * N = N * N - N
    BY <2>1
  <2>3. k \in 1 .. N * N
    BY <1>1, <2>1, <2>2
  <2>4. (k - 1) \div N = x /\ (k - 1) % N = y
    <3>1. k - 1 = x * N + y
      BY <2>1, <2>2
    <3>2. (x * N + y) \div N = x /\ (x * N + y) % N = y
      BY DivMod DEF Index
    <3> QED BY <3>1, <3>2
  <2>5. AllPairs[k] = <<x, y>>
    BY <2>3, <2>4 DEF AllPairs
  <2> QED BY <2>3, <2>5
<1>5. ASSUME NEW e \in Pair PROVE \E k \in 1 .. N * N : AllPairs[k] = e
  <2>1. PICK x \in Index, y \in Index : e = <<x, y>>
    BY DEF Pair
  <2> QED BY <1>4, <2>1
<1> QED BY <1>1, <1>3, <1>5

LEMMA AppendRange ==
  ASSUME NEW S, NEW list \in Seq(S), NEW e \in S
  PROVE  /\ Append(list, e) \in Seq(S)
         /\ RangeOf(Append(list, e)) = RangeOf(list) \cup {e}
<1>1. /\ Append(list, e) \in Seq(S) /\ Len(Append(list, e)) = Len(list) + 1 /\ Len(list) \in Nat
      /\ \A k \in 1 .. Len(list) : Append(list, e)[k] = list[k]
      /\ Append(list, e)[Len(list) + 1] = e
  OBVIOUS
<1>2. RangeOf(Append(list, e)) \subseteq RangeOf(list) \cup {e}
  BY <1>1 DEF RangeOf
<1>3. RangeOf(list) \subseteq RangeOf(Append(list, e))
  <2> SUFFICES ASSUME NEW k \in 1 .. Len(list) PROVE list[k] \in RangeOf(Append(list, e))
    BY DEF RangeOf
  <2>1. k \in 1 .. Len(Append(list, e)) /\ Append(list, e)[k] = list[k]
    BY <1>1
  <2> QED BY <2>1 DEF RangeOf
<1>4. e \in RangeOf(Append(list, e))
  <2>1. Len(list) + 1 \in 1 .. Len(Append(list, e))
    BY <1>1
  <2> QED BY <1>1, <2>1 DEF RangeOf
<1> QED BY <1>1, <1>2, <1>3, <1>4

\* The loops of runHopcroftKarp (and of runBlossom) find the pairs whose
\* score reaches the threshold, and no others.
LEMMA PairsFound ==
  ASSUME N \in Nat
  PROVE  CompatiblePairs \in Seq(Pair) /\ RangeOf(CompatiblePairs) = Compatible
<1> DEFINE n == N * N
           V == Seq(Pair)
           pick == [A \in SUBSET (1 .. n) |-> Max(A)]
           op == [z \in (1 .. n) \X V |-> addIfCompatible(z[2], AllPairs[z[1]])]
           Solves(g) == g = [A \in SUBSET (1 .. n) |->
                               IF A = {} THEN <<>>
                               ELSE addIfCompatible(g[A \ {Max(A)}], AllPairs[Max(A)])]
           fold == CHOOSE g : Solves(g)
<1>0. n \in Nat /\ AllPairs \in [1 .. n -> Pair] /\ IsFiniteSet(1 .. n) /\ DOMAIN AllPairs = 1 .. n
  BY AllPairsType, FS_Interval
<1> HIDE DEF n
<1>1. \A k \in 1 .. n, list \in V : addIfCompatible(list, AllPairs[k]) \in V
  BY <1>0 DEF addIfCompatible
<1>2. \E g : Solves(g)
  <2>1. \A A \in SUBSET (1 .. n) : A # {} => pick[A] \in A
    BY <1>0, MaxOfInterval
  <2>2. op \in [(1 .. n) \X V -> V]
    BY <1>1
  <2>3. <<>> \in V
    OBVIOUS
  <2> DEFINE S == 1 .. n
             start == <<>>
  <2> HIDE DEF op, pick, V, S, start
  <2>4. PICK g \in [SUBSET S -> V] : FoldOf(g, S, start, pick, op)
    <3>0. start \in V
      BY <2>3 DEF start
    <3>1. IsFiniteSet(S) /\ op \in [S \X V -> V] /\ \A A \in SUBSET S : A # {} => pick[A] \in A
      BY <1>0, <2>1, <2>2 DEF S
    <3> QED BY ONLY <3>0, <3>1, FoldExists
  <2> USE DEF S, start
  <2>5. ASSUME NEW A \in SUBSET (1 .. n), A # {}
        PROVE  g[A] = addIfCompatible(g[A \ {Max(A)}], AllPairs[Max(A)])
    <3>1. pick[A] = Max(A) /\ Max(A) \in 1 .. n /\ A \ {Max(A)} \in SUBSET (1 .. n)
      BY <2>1, <2>5 DEF pick
    <3>2. g[A \ {Max(A)}] \in V
      BY <3>1
    <3>3. op[<<Max(A), g[A \ {Max(A)}]>>] = addIfCompatible(g[A \ {Max(A)}], AllPairs[Max(A)])
      BY <3>1, <3>2 DEF op
    <3> QED BY <2>4, <2>5, <3>1, <3>3 DEF FoldOf
  <2>6. g = [A \in SUBSET (1 .. n) |-> g[A]]
    OBVIOUS
  <2>7. Solves(g)
    <3> SUFFICES ASSUME NEW A \in SUBSET (1 .. n)
                 PROVE  g[A] = IF A = {} THEN <<>> ELSE addIfCompatible(g[A \ {Max(A)}], AllPairs[Max(A)])
      BY <2>6
    <3> QED BY <2>4, <2>5 DEF FoldOf
  <2> QED BY <2>7
<1>3. Solves(fold)
  <2> HIDE DEF Solves
  <2> QED BY <1>2
<1>4. CompatiblePairs = fold[1 .. n]
  BY <1>0 DEF CompatiblePairs, FoldLeft, MapThenFoldSet
<1> HIDE DEF fold
<1>5. fold[{}] = <<>>
  BY <1>3
<1>6. \A k \in 1 .. n : fold[1 .. k] = addIfCompatible(fold[1 .. k - 1], AllPairs[k])
  <2> TAKE k \in 1 .. n
  <2>1. /\ 1 .. k \in SUBSET (1 .. n) /\ 1 .. k # {}
        /\ Max(1 .. k) = k /\ (1 .. k) \ {Max(1 .. k)} = 1 .. k - 1
    BY <1>0, MaxOfPrefix
  <2> QED BY <1>3, <2>1
<1> DEFINE Good(k) == /\ fold[1 .. k] \in V
                      /\ RangeOf(fold[1 .. k]) = {AllPairs[l] : l \in 1 .. k} \cap Compatible
           T == {k \in 0 .. n : ~Good(k)}
<1>7. T = {}
  <2> SUFFICES ASSUME T # {} PROVE FALSE
    OBVIOUS
  <2>1. T \in SUBSET Nat
    OBVIOUS
  <2>2. PICK k \in T : \A l \in T : k <= l
    <3> HIDE DEF T
    <3> QED BY <2>1, LeastElement
  <2>3. k \in 0 .. n /\ ~Good(k)
    <3> HIDE DEF Good
    <3> QED OBVIOUS
  <2>4. CASE k = 0
    <3>1. 1 .. k = {}
      BY <2>4
    <3>2. fold[1 .. k] = <<>>
      BY <1>5, <3>1
    <3>3. RangeOf(<<>>) = {} /\ <<>> \in V
      BY DEF RangeOf
    <3>4. Good(k)
      BY <3>1, <3>2, <3>3
    <3> QED BY <2>3, <3>4
  <2>5. CASE k # 0
    <3>1. k - 1 \in 0 .. n /\ k \in 1 .. n
      BY <1>0, <2>3, <2>5
    <3>2. Good(k - 1)
      <4> HIDE DEF Good
      <4> QED BY <2>2, <2>3, <3>1
    <3>3. fold[1 .. k] = addIfCompatible(fold[1 .. k - 1], AllPairs[k])
      BY <1>6, <3>1
    <3>4. {AllPairs[l] : l \in 1 .. k} = {AllPairs[l] : l \in 1 .. k - 1} \cup {AllPairs[k]}
      <4>1. \A l : l \in 1 .. k <=> l \in 1 .. k - 1 \/ l = k
        BY <3>1
      <4> QED BY <4>1
    <3>5. AllPairs[k] \in Pair
      BY <1>0, <3>1
    <3>6. AllPairs[k] \in Compatible <=> COMPAT[AllPairs[k][1]][AllPairs[k][2]] >= THRESHOLD
      BY <3>5 DEF Compatible, Pair
    <3>7. /\ Append(fold[1 .. k - 1], AllPairs[k]) \in V
          /\ RangeOf(Append(fold[1 .. k - 1], AllPairs[k])) = RangeOf(fold[1 .. k - 1]) \cup {AllPairs[k]}
      BY <3>2, <3>5, AppendRange
    <3>8. Good(k)
      BY <3>2, <3>3, <3>4, <3>6, <3>7 DEF addIfCompatible
    <3> QED BY <2>3, <3>8
  <2> QED BY <2>4, <2>5
<1>8. Good(n)
  <2>1. n \in 0 .. n
    BY <1>0
  <2> HIDE DEF Good
  <2> QED BY <1>7, <2>1
<1>9. Compatible \subseteq {AllPairs[l] : l \in 1 .. n}
  <2> SUFFICES ASSUME NEW e \in Pair PROVE e \in {AllPairs[l] : l \in 1 .. n}
    BY DEF Compatible, Pair
  <2>1. \E k \in 1 .. n : AllPairs[k] = e
    BY AllPairsType DEF n
  <2> QED BY <2>1
<1> QED BY <1>4, <1>8, <1>9

\* addCompatiblePair puts every pair into the list of its left vertex.
LEMMA AdjacencyLists ==
  ASSUME N \in Nat, NEW pairs \in Seq(Pair), NEW lists,
         lists = HK!FoldLeft(HK!addCompatiblePair, [x \in HK!Left |-> <<>>], pairs)
  PROVE  /\ lists \in [Index -> Seq(Index)]
         /\ \A x \in Index : RangeOf(lists[x]) = {y \in Index : <<x, y>> \in RangeOf(pairs)}
<1> DEFINE n == Len(pairs)
           V == [Index -> Seq(Index)]
           empty == [x \in Index |-> <<>>]
           pick == [A \in SUBSET (1 .. n) |-> Max(A)]
           op == [z \in (1 .. n) \X V |-> HK!addCompatiblePair(z[2], pairs[z[1]])]
           Solves(g) == g = [A \in SUBSET (1 .. n) |->
                               IF A = {} THEN empty
                               ELSE HK!addCompatiblePair(g[A \ {Max(A)}], pairs[Max(A)])]
           fold == CHOOSE g : Solves(g)
<1>0. n \in Nat /\ pairs \in [1 .. n -> Pair] /\ IsFiniteSet(1 .. n) /\ DOMAIN pairs = 1 .. n
  BY FS_Interval
<1> HIDE DEF n
<1>1. \A k \in 1 .. n, list \in V : HK!addCompatiblePair(list, pairs[k]) \in V
  <2> TAKE k \in 1 .. n, list \in V
  <2>1. PICK x \in Index, y \in Index : pairs[k] = <<x, y>>
    BY <1>0 DEF Pair
  <2>2. Append(list[x], y) \in Seq(Index)
    BY AppendRange
  <2>3. HK!addCompatiblePair(list, pairs[k]) = [list EXCEPT ![x] = Append(list[x], y)]
    <3>1. pairs[k][1] = x /\ pairs[k][2] = y
      BY <2>1
    <3> QED BY <3>1 DEF HK!addCompatiblePair
  <2> QED BY <2>2, <2>3
<1>2. \E g : Solves(g)
  <2>1. \A A \in SUBSET (1 .. n) : A # {} => pick[A] \in A
    BY <1>0, MaxOfInterval
  <2>2. op \in [(1 .. n) \X V -> V]
    BY <1>1
  <2>3. empty \in V
    OBVIOUS
  <2> DEFINE S == 1 .. n
             start == empty
  <2> HIDE DEF op, pick, V, S, start, empty
  <2>4. PICK g \in [SUBSET S -> V] : FoldOf(g, S, start, pick, op)
    <3>0. start \in V
      BY <2>3 DEF start
    <3>1. IsFiniteSet(S) /\ op \in [S \X V -> V] /\ \A A \in SUBSET S : A # {} => pick[A] \in A
      BY <1>0, <2>1, <2>2 DEF S
    <3> QED BY ONLY <3>0, <3>1, FoldExists
  <2> USE DEF S, start
  <2>5. ASSUME NEW A \in SUBSET (1 .. n), A # {}
        PROVE  g[A] = HK!addCompatiblePair(g[A \ {Max(A)}], pairs[Max(A)])
    <3>1. pick[A] = Max(A) /\ Max(A) \in 1 .. n /\ A \ {Max(A)} \in SUBSET (1 .. n)
      BY <2>1, <2>5 DEF pick
    <3>2. g[A \ {Max(A)}] \in V
      BY <3>1
    <3>3. op[<<Max(A), g[A \ {Max(A)}]>>] = HK!addCompatiblePair(g[A \ {Max(A)}], pairs[Max(A)])
      BY <3>1, <3>2 DEF op
    <3> QED BY <2>4, <2>5, <3>1, <3>3 DEF FoldOf
  <2>6. g = [A \in SUBSET (1 .. n) |-> g[A]]
    OBVIOUS
  <2>7. Solves(g)
    <3> SUFFICES ASSUME NEW A \in SUBSET (1 .. n)
                 PROVE  g[A] = IF A = {} THEN empty ELSE HK!addCompatiblePair(g[A \ {Max(A)}], pairs[Max(A)])
      BY <2>6
    <3> QED BY <2>4, <2>5 DEF FoldOf
  <2> QED BY <2>7
<1>3. Solves(fold)
  <2> HIDE DEF Solves
  <2> QED BY <1>2
<1>4. lists = fold[1 .. n]
  <2>1. HK!Left = Index /\ \A A : HK!Max(A) = Max(A)
    BY DEF HK!Left, Index, HK!Max, Max
  <2> QED BY <1>0, <2>1 DEF HK!FoldLeft, HK!MapThenFoldSet
<1> HIDE DEF fold, empty
<1>5. fold[{}] = empty
  BY <1>3
<1>6. \A k \in 1 .. n : fold[1 .. k] = HK!addCompatiblePair(fold[1 .. k - 1], pairs[k])
  <2> TAKE k \in 1 .. n
  <2>1. /\ 1 .. k \in SUBSET (1 .. n) /\ 1 .. k # {}
        /\ Max(1 .. k) = k /\ (1 .. k) \ {Max(1 .. k)} = 1 .. k - 1
    BY <1>0, MaxOfPrefix
  <2> QED BY <1>3, <2>1
<1> DEFINE Edges(k) == {pairs[l] : l \in 1 .. k}
           Good(k) == /\ fold[1 .. k] \in V
                      /\ \A x \in Index : RangeOf(fold[1 .. k][x]) = {y \in Index : <<x, y>> \in Edges(k)}
           T == {k \in 0 .. n : ~Good(k)}
<1>7. T = {}
  <2> SUFFICES ASSUME T # {} PROVE FALSE
    OBVIOUS
  <2>1. T \in SUBSET Nat
    OBVIOUS
  <2>2. PICK k \in T : \A l \in T : k <= l
    <3> HIDE DEF T
    <3> QED BY <2>1, LeastElement
  <2>3. k \in 0 .. n /\ ~Good(k)
    <3> HIDE DEF Good
    <3> QED OBVIOUS
  <2>4. CASE k = 0
    <3>1. 1 .. k = {}
      BY <2>4
    <3>2. fold[1 .. k] = empty
      BY <1>5, <3>1
    <3>3. RangeOf(<<>>) = {} /\ empty \in V
      BY DEF RangeOf, empty
    <3>4. Good(k)
      BY <3>1, <3>2, <3>3 DEF empty
    <3> QED BY <2>3, <3>4
  <2>5. CASE k # 0
    <3>1. k - 1 \in 0 .. n /\ k \in 1 .. n
      BY <1>0, <2>3, <2>5
    <3>2. Good(k - 1)
      <4> HIDE DEF Good
      <4> QED BY <2>2, <2>3, <3>1
    <3>3. fold[1 .. k] = HK!addCompatiblePair(fold[1 .. k - 1], pairs[k])
      BY <1>6, <3>1
    <3>4. Edges(k) = Edges(k - 1) \cup {pairs[k]}
      <4>1. \A l : l \in 1 .. k <=> l \in 1 .. k - 1 \/ l = k
        BY <3>1
      <4> QED BY <4>1
    <3>5. PICK x \in Index, y \in Index : pairs[k] = <<x, y>>
      BY <1>0, <3>1 DEF Pair
    <3> DEFINE old == fold[1 .. k - 1]
    <3> HIDE DEF Edges
    <3>6. fold[1 .. k] = [old EXCEPT ![x] = Append(old[x], y)] /\ old \in V
      <4>1. pairs[k][1] = x /\ pairs[k][2] = y
        BY <3>5
      <4> QED BY <3>2, <3>3, <4>1 DEF HK!addCompatiblePair
    <3>7. /\ Append(old[x], y) \in Seq(Index)
          /\ RangeOf(Append(old[x], y)) = RangeOf(old[x]) \cup {y}
      BY <3>6, AppendRange
    <3>8. \A z \in Index : RangeOf(old[z]) = {w \in Index : <<z, w>> \in Edges(k - 1)}
      BY <3>2
    <3> HIDE DEF old
    <3>9. \A z, w : <<z, w>> \in Edges(k) <=> <<z, w>> \in Edges(k - 1) \/ (z = x /\ w = y)
      BY <3>4, <3>5
    <3>10. fold[1 .. k] \in V
      BY <3>6, <3>7
    <3>11. ASSUME NEW z \in Index
           PROVE  RangeOf(fold[1 .. k][z]) = {w \in Index : <<z, w>> \in Edges(k)}
      <4>1. CASE z = x
        <5>1. RangeOf(fold[1 .. k][z]) = RangeOf(old[x]) \cup {y}
          BY <3>6, <3>7, <4>1
        <5> QED BY <3>8, <3>9, <4>1, <5>1
      <4>2. CASE z # x
        <5>1. RangeOf(fold[1 .. k][z]) = RangeOf(old[z])
          BY <3>6, <4>2
        <5> QED BY <3>8, <3>9, <4>2, <5>1
      <4> QED BY <4>1, <4>2
    <3> QED BY <2>3, <3>10, <3>11
  <2> QED BY <2>4, <2>5
<1>8. Good(n)
  <2>1. n \in 0 .. n
    BY <1>0
  <2> HIDE DEF Good
  <2> QED BY <1>7, <2>1
<1>9. Edges(n) = RangeOf(pairs)
  BY DEF n, RangeOf
<1> QED BY <1>4, <1>8, <1>9

-----------------------------------------------------------------------------
(* Hopcroft-Karp: the arrays stay one matching *)

HKTypes == /\ ArraysTyped
           /\ distLeft \in [Index -> Int]
           /\ iter \in [Index -> Nat]
           /\ hkCount \in Nat
           /\ source \in 0 .. N
           /\ stack \in Seq(Index)
           /\ hkAt \in {"bfs", "sources", "dfs", "done"}

\* No edge list has been read past its end.
IterInBounds == \A x \in Index : iter[x] <= Len(hkAdj[x])

\* The two arrays describe one matching along edges.
ArraysAgree ==
  /\ \A x \in Index : matchLeft[x] # -1 => /\ matchLeft[x] \in HK!Range(hkAdj[x])
                                           /\ matchRight[matchLeft[x]] = x
  /\ \A y \in Index : matchRight[y] # -1 => matchLeft[matchRight[y]] = y

CountIsSize == hkCount = Cardinality({x \in Index : matchLeft[x] # -1})

\* The calls of dfs are an alternating path: it begins at the free source, and
\* each call is for the mate of the vertex at the end of its caller's edge, one
\* level further down.  The levels may be out of date, but they do increase.
AlternatingPath ==
  IF hkAt # "dfs" THEN stack = <<>>
  ELSE /\ stack # <<>> /\ stack[1] = source /\ matchLeft[source] = -1
       /\ \A k \in 1 .. Len(stack) - 1 : /\ iter[stack[k]] < Len(hkAdj[stack[k]])
                                         /\ matchRight[HK!b(stack[k])] = stack[k + 1]
       /\ \A k, l \in 1 .. Len(stack) : k < l => distLeft[stack[k]] < distLeft[stack[l]]

HKInv == HKTypes /\ IterInBounds /\ ArraysAgree /\ CountIsSize /\ AlternatingPath


\* The constructor and the loop of runHopcroftKarp: the edges are the
\* compatible pairs.
LEMMA EdgesAreCompatible ==
  ASSUME N \in Nat, HK!Init(CompatiblePairs)
  PROVE  hkAdj \in [Index -> Seq(Index)] /\ HK!Edges = Compatible
<1>1. CompatiblePairs \in Seq(Pair) /\ RangeOf(CompatiblePairs) = Compatible
  BY PairsFound
<1>2. hkAdj = HK!FoldLeft(HK!addCompatiblePair, [x \in HK!Left |-> <<>>], CompatiblePairs)
  BY DEF HK!Init
<1> DEFINE pairs == CompatiblePairs
<1> HIDE DEF pairs
<1>3. /\ hkAdj \in [Index -> Seq(Index)]
      /\ \A x \in Index : RangeOf(hkAdj[x]) = {y \in Index : <<x, y>> \in RangeOf(pairs)}
  <2>1. pairs \in Seq(Pair) /\ hkAdj = HK!FoldLeft(HK!addCompatiblePair, [x \in HK!Left |-> <<>>], pairs)
    BY <1>1, <1>2 DEF pairs
  <2> QED BY ONLY N \in Nat, <2>1, AdjacencyLists
<1>4. \A x \in Index : HK!Range(hkAdj[x]) = RangeOf(hkAdj[x])
  BY <1>3 DEF HK!Range, RangeOf
<1>5. HK!Edges = {e \in Index \X Index : e \in Compatible}
  <2>1. HK!Left = Index /\ HK!Right = Index
    BY DEF HK!Left, HK!Right, Index
  <2>2. \A x, y \in Index : y \in HK!Range(hkAdj[x]) <=> <<x, y>> \in Compatible
    <3> TAKE x, y \in Index
    <3>1. HK!Range(hkAdj[x]) = {z \in Index : <<x, z>> \in Compatible}
      BY <1>1, <1>3, <1>4 DEF pairs
    <3> QED BY <3>1
  <2>3. \A e \in Index \X Index : e[2] \in HK!Range(hkAdj[e[1]]) <=> e \in Compatible
    BY <2>2
  <2> QED BY <2>1, <2>3 DEF HK!Edges
<1> QED BY <1>3, <1>5 DEF Compatible

LEMMA HKStart ==
  ASSUME N \in Nat, HK!Init(CompatiblePairs)
  PROVE  HKInv
<1>1. hkAdj \in [Index -> Seq(Index)]
  BY EdgesAreCompatible
<1>2. HK!Left = Index /\ HK!Right = Index
  BY DEF HK!Left, HK!Right, Index
<1>3. /\ matchLeft = [x \in Index |-> -1] /\ matchRight = [y \in Index |-> -1]
      /\ distLeft = [x \in Index |-> 0] /\ iter = [x \in Index |-> 0]
      /\ hkCount = 0 /\ source = 0 /\ stack = <<>> /\ hkAt = "bfs"
  BY <1>2 DEF HK!Init, HK!None
<1>4. HKTypes /\ IterInBounds
  <2>1. \A x \in Index : Len(hkAdj[x]) \in Nat
    BY <1>1
  <2> QED BY <1>1, <1>3, <2>1 DEF HKTypes, IterInBounds, ArraysTyped
<1>5. ArraysAgree
  BY <1>3 DEF ArraysAgree
<1>6. CountIsSize /\ AlternatingPath
  <2>1. {x \in Index : matchLeft[x] # -1} = {}
    BY <1>3
  <2> QED BY <1>3, <2>1, FS_EmptySet DEF CountIsSize, AlternatingPath
<1> QED BY <1>4, <1>5, <1>6 DEF HKInv

\* The calls under way.
LEMMA Path ==
  ASSUME N \in Nat, HKInv, hkAt = "dfs"
  PROVE  /\ Len(stack) \in Nat /\ Len(stack) > 0
         /\ \A k \in 1 .. Len(stack) : stack[k] \in Index
         /\ HK!Top = stack[Len(stack)] /\ HK!Top \in Index
         /\ \A k, l \in 1 .. Len(stack) : stack[k] = stack[l] => k = l
         /\ source \in Index
<1>1. stack \in Seq(Index) /\ stack # <<>> /\ distLeft \in [Index -> Int]
  BY DEF HKInv, HKTypes, AlternatingPath
<1>2. Len(stack) \in Nat /\ Len(stack) > 0 /\ \A k \in 1 .. Len(stack) : stack[k] \in Index
  BY <1>1
<1>3. HK!Top = stack[Len(stack)]
  BY DEF HK!Top, HK!Last
<1>4. \A k, l \in 1 .. Len(stack) : k < l => distLeft[stack[k]] < distLeft[stack[l]]
  BY DEF HKInv, AlternatingPath
<1>5. \A k, l \in 1 .. Len(stack) : stack[k] = stack[l] => k = l
  <2> SUFFICES ASSUME NEW k \in 1 .. Len(stack), NEW l \in 1 .. Len(stack), stack[k] = stack[l], k < l
               PROVE  FALSE
    OBVIOUS
  <2> QED BY <1>1, <1>2, <1>4
<1>6. source \in Index
  BY <1>2 DEF HKInv, AlternatingPath
<1> QED BY <1>2, <1>3, <1>5, <1>6

\* The edge a call is looking at.
LEMMA EdgeInReach ==
  ASSUME N \in Nat, HKInv, NEW x \in Index, iter[x] < Len(hkAdj[x])
  PROVE  HK!b(x) \in Index /\ HK!b(x) \in HK!Range(hkAdj[x])
<1>1. hkAdj[x] \in Seq(Index) /\ iter[x] \in Nat
  BY DEF HKInv, HKTypes, ArraysTyped
<1>2. iter[x] + 1 \in 1 .. Len(hkAdj[x]) /\ DOMAIN hkAdj[x] = 1 .. Len(hkAdj[x])
  BY <1>1
<1> QED BY <1>1, <1>2 DEF HK!b, HK!Range

\* The steps that write neither of the two arrays.
LEMMA KeepsMatching ==
  ASSUME HKInv, UNCHANGED <<hkAdj, matchLeft, matchRight, hkCount>>
  PROVE  ArraysAgree' /\ CountIsSize'
BY DEF HKInv, ArraysAgree, CountIsSize, HK!Range

LEMMA SearchSteps ==
  ASSUME N \in Nat, N > 0, HKInv, HK!bfs \/ HK!SkipSource \/ HK!EndPhase
  PROVE  HKInv'
<1>0. HK!Left = Index
  BY DEF HK!Left, Index
<1>1. HKTypes' /\ IterInBounds'
  <2>1. CASE HK!bfs
    <3>1. \A x \in HK!Reached : HK!Level(x) \in 0 .. N
      BY LevelType
    <3>2. distLeft' \in [Index -> Int]
      BY <1>0, <2>1, <3>1 DEF HK!bfs, HK!INF
    <3>3. \A x \in Index : Len(hkAdj[x]) \in Nat
      BY DEF HKInv, HKTypes, ArraysTyped
    <3>4. iter' \in [Index -> Nat] /\ \A x \in Index : iter'[x] <= Len(hkAdj[x])
      BY <1>0, <2>1, <3>3 DEF HK!bfs, HKInv, HKTypes, IterInBounds
    <3>5. /\ UNCHANGED <<hkAdj, matchLeft, matchRight, hkCount, stack>>
          /\ source' \in 0 .. N /\ hkAt' \in {"bfs", "sources", "dfs", "done"}
      BY <2>1 DEF HK!bfs, HKInv, HKTypes
    <3> QED BY <3>2, <3>4, <3>5 DEF HKInv, HKTypes, ArraysTyped, IterInBounds
  <2>2. CASE HK!SkipSource
    BY <2>2 DEF HK!SkipSource, HKInv, HKTypes, ArraysTyped, IterInBounds
  <2>3. CASE HK!EndPhase
    BY <2>3 DEF HK!EndPhase, HKInv, HKTypes, ArraysTyped, IterInBounds
  <2> QED BY <2>1, <2>2, <2>3
<1>2. UNCHANGED <<hkAdj, matchLeft, matchRight, hkCount, stack>> /\ hkAt # "dfs" /\ hkAt' # "dfs"
  BY DEF HK!bfs, HK!SkipSource, HK!EndPhase
<1>3. AlternatingPath'
  BY <1>2 DEF HKInv, AlternatingPath
<1> QED BY <1>1, <1>2, <1>3, KeepsMatching DEF HKInv

LEMMA StartDfsStep ==
  ASSUME N \in Nat, HKInv, HK!StartDfs
  PROVE  HKInv'
<1>1. source \in Index /\ matchLeft[source] = -1 /\ stack' = <<source>> /\ hkAt' = "dfs"
  BY DEF HK!StartDfs, HKInv, HKTypes, HK!None, Index
<1>2. UNCHANGED <<hkAdj, matchLeft, matchRight, distLeft, iter, hkCount, source>>
  BY DEF HK!StartDfs
<1>3. HKTypes' /\ IterInBounds'
  BY <1>1, <1>2 DEF HKInv, HKTypes, ArraysTyped, IterInBounds
<1>4. AlternatingPath'
  <2>1. Len(stack') = 1 /\ stack' # <<>> /\ stack'[1] = source
    BY <1>1
  <2> QED BY <1>1, <1>2, <2>1 DEF AlternatingPath
<1> QED BY <1>2, <1>3, <1>4, KeepsMatching DEF HKInv

LEMMA NextEdgeStep ==
  ASSUME N \in Nat, HKInv, HK!NextEdge
  PROVE  HKInv'
<1> DEFINE n == Len(stack)
<1>1. /\ n \in Nat /\ n > 0 /\ \A k \in 1 .. n : stack[k] \in Index
      /\ HK!Top = stack[n] /\ HK!Top \in Index
      /\ \A k, l \in 1 .. n : stack[k] = stack[l] => k = l
  BY Path DEF HK!NextEdge, HK!Scanning
<1>2. /\ UNCHANGED <<hkAdj, matchLeft, matchRight, distLeft, hkCount, source, stack, hkAt>>
      /\ hkAt = "dfs" /\ iter[HK!Top] < Len(hkAdj[HK!Top])
      /\ iter' = [iter EXCEPT ![HK!Top] = @ + 1]
  BY DEF HK!NextEdge, HK!Scanning
<1>3. HKTypes' /\ IterInBounds'
  <2>1. iter \in [Index -> Nat] /\ Len(hkAdj[HK!Top]) \in Nat
    BY <1>1 DEF HKInv, HKTypes, ArraysTyped
  <2>2. iter' \in [Index -> Nat] /\ \A x \in Index : iter'[x] <= Len(hkAdj[x])
    BY <1>1, <1>2, <2>1 DEF HKInv, IterInBounds
  <2> QED BY <1>2, <2>2 DEF HKInv, HKTypes, ArraysTyped, IterInBounds
<1>4. AlternatingPath'
  <2>1. ASSUME NEW k \in 1 .. n - 1
        PROVE  iter'[stack[k]] = iter[stack[k]]
    <3>1. k \in 1 .. n /\ n \in 1 .. n /\ k # n
      BY <1>1
    <3>2. stack[k] # HK!Top /\ stack[k] \in Index
      BY <1>1, <3>1
    <3> QED BY <1>2, <3>2 DEF HKInv, HKTypes
  <2> QED BY <1>2, <2>1 DEF HKInv, AlternatingPath, HK!b
<1> QED BY <1>2, <1>3, <1>4, KeepsMatching DEF HKInv

LEMMA RecurseStep ==
  ASSUME N \in Nat, HKInv, HK!Recurse
  PROVE  HKInv'
<1> DEFINE n == Len(stack)
           x == HK!a2
<1>1. /\ n \in Nat /\ n > 0 /\ \A k \in 1 .. n : stack[k] \in Index
      /\ HK!Top = stack[n] /\ HK!Top \in Index
  BY Path DEF HK!Recurse, HK!Scanning
<1>2. /\ UNCHANGED <<hkAdj, matchLeft, matchRight, distLeft, iter, hkCount, source, hkAt>>
      /\ hkAt = "dfs" /\ iter[HK!Top] < Len(hkAdj[HK!Top])
      /\ x # -1 /\ distLeft[x] = distLeft[HK!Top] + 1
      /\ stack' = Append(stack, x)
  BY DEF HK!Recurse, HK!Scanning, HK!None
<1>3. x = matchRight[HK!b(HK!Top)] /\ x \in Index
  BY <1>1, <1>2, EdgeInReach DEF HK!a2, HKInv, HKTypes, ArraysTyped
<1> HIDE DEF x
<1>4. stack \in Seq(Index) /\ distLeft \in [Index -> Int]
  BY DEF HKInv, HKTypes
<1>5. /\ stack' \in Seq(Index) /\ Len(stack') = n + 1 /\ stack' # <<>>
      /\ \A k \in 1 .. n : stack'[k] = stack[k]
      /\ stack'[n + 1] = x
  BY <1>2, <1>3, <1>4
<1>6. HKTypes' /\ IterInBounds'
  BY <1>2, <1>5 DEF HKInv, HKTypes, ArraysTyped, IterInBounds
<1>7. AlternatingPath'
  <2>1. stack'[1] = source /\ matchLeft[source] = -1
    BY <1>1, <1>2, <1>5 DEF HKInv, AlternatingPath
  <2>2. ASSUME NEW k \in 1 .. n
        PROVE  iter[stack'[k]] < Len(hkAdj[stack'[k]]) /\ matchRight[HK!b(stack'[k])] = stack'[k + 1]
    <3>1. CASE k = n
      BY <1>1, <1>2, <1>3, <1>5, <3>1
    <3>2. CASE k # n
      <4>1. k \in 1 .. n - 1 /\ k + 1 \in 1 .. n
        BY <1>1, <3>2
      <4> QED BY <1>2, <1>5, <4>1 DEF HKInv, AlternatingPath
    <3> QED BY <3>1, <3>2
  <2>3. ASSUME NEW k \in 1 .. n + 1, NEW l \in 1 .. n + 1, k < l
        PROVE  distLeft[stack'[k]] < distLeft[stack'[l]]
    <3>1. \A i, j \in 1 .. n : i < j => distLeft[stack[i]] < distLeft[stack[j]]
      BY <1>2 DEF HKInv, AlternatingPath
    <3>2. k \in 1 .. n /\ stack'[k] = stack[k] /\ stack[k] \in Index
      BY <1>1, <1>5, <2>3
    <3>3. CASE l = n + 1
      <4>1. distLeft[stack[k]] <= distLeft[stack[n]]
        <5>1. CASE k = n
          BY <1>1, <1>4, <3>2, <5>1
        <5>2. CASE k # n
          <6>1. k < n /\ n \in 1 .. n
            BY <1>1, <3>2, <5>2
          <6> QED BY <1>1, <1>4, <3>1, <3>2, <6>1
        <5> QED BY <5>1, <5>2
      <4> QED BY <1>1, <1>2, <1>3, <1>4, <1>5, <3>2, <3>3, <4>1
    <3>4. CASE l # n + 1
      <4>1. l \in 1 .. n /\ stack'[l] = stack[l]
        BY <1>1, <1>5, <3>4
      <4> QED BY <2>3, <3>1, <3>2, <4>1
    <3> QED BY <3>3, <3>4
  <2>4. Len(stack') - 1 = n
    BY <1>1, <1>5
  <2> HIDE DEF n
  <2>5. /\ \A k \in 1 .. n : iter'[stack'[k]] < Len(hkAdj'[stack'[k]]) /\ (matchRight[HK!b(stack[k])])' = stack'[k + 1]
        /\ \A k, l \in 1 .. n + 1 : k < l => distLeft'[stack'[k]] < distLeft'[stack'[l]]
    BY <1>2, <2>2, <2>3 DEF HK!b
  <2> QED BY <1>2, <1>5, <2>1, <2>4, <2>5 DEF AlternatingPath
<1> QED BY <1>2, <1>6, <1>7, KeepsMatching DEF HKInv

LEMMA IndexFinite ==
  ASSUME N \in Nat
  PROVE  IsFiniteSet(Index) /\ Cardinality(Index) = N
BY FS_Interval DEF Index

LEMMA DeadEndStep ==
  ASSUME N \in Nat, HKInv, HK!DeadEnd
  PROVE  HKInv'
<1> DEFINE n == Len(stack)
           caller == stack[n - 1]
<1>1. /\ n \in Nat /\ n > 0 /\ \A k \in 1 .. n : stack[k] \in Index
      /\ HK!Top = stack[n] /\ HK!Top \in Index
      /\ \A k, l \in 1 .. n : stack[k] = stack[l] => k = l
      /\ source \in Index
  BY Path DEF HK!DeadEnd
<1>2. /\ UNCHANGED <<hkAdj, matchLeft, matchRight, hkCount>>
      /\ hkAt = "dfs" /\ distLeft' = [distLeft EXCEPT ![HK!Top] = HK!INF]
      /\ stack' = HK!Front(stack)
  BY DEF HK!DeadEnd
<1>3. stack \in Seq(Index) /\ distLeft \in [Index -> Int] /\ iter \in [Index -> Nat]
  BY DEF HKInv, HKTypes
<1>4. /\ stack' \in Seq(Index) /\ Len(stack') = n - 1
      /\ \A k \in 1 .. n - 1 : stack'[k] = stack[k]
  <2>1. stack' = SubSeq(stack, 1, n - 1) /\ n - 1 \in Nat /\ n - 1 <= n
    BY <1>1, <1>2 DEF HK!Front
  <2>2. /\ SubSeq(stack, 1, n - 1) \in Seq(Index)
        /\ Len(SubSeq(stack, 1, n - 1)) = IF 1 <= n - 1 THEN n - 1 - 1 + 1 ELSE 0
        /\ \A k \in 1 .. n - 1 - 1 + 1 : SubSeq(stack, 1, n - 1)[k] = stack[1 + k - 1]
    <3>1. 1 \in 1 .. n + 1 /\ n - 1 \in 0 .. n
      BY <1>1
    <3> QED BY <1>3, <3>1, SubSeqProperties
  <2> HIDE DEF n
  <2> QED BY <1>1, <2>1, <2>2
<1>5. distLeft' \in [Index -> Int]
  BY <1>1, <1>2, <1>3 DEF HK!INF
<1>6. CASE n = 1
  <2>1. stack' = <<>>
    BY <1>4, <1>6
  <2>2. hkAt' = "sources" /\ source' = source + 1 /\ iter' = iter
    BY <2>1 DEF HK!DeadEnd
  <2>3. source' \in 0 .. N
    BY <1>1, <2>2 DEF Index
  <2>4. HKTypes' /\ IterInBounds'
    BY <1>2, <1>4, <1>5, <2>2, <2>3 DEF HKInv, HKTypes, ArraysTyped, IterInBounds
  <2>5. AlternatingPath'
    BY <2>1, <2>2 DEF AlternatingPath
  <2> QED BY <1>2, <2>4, <2>5, KeepsMatching DEF HKInv
<1>7. CASE n # 1
  <2>0. n - 1 \in 1 .. n - 1 /\ n - 1 \in 1 .. n /\ 1 \in 1 .. n - 1 /\ n \in 1 .. n
    <3>1. n \in Nat /\ n > 1
      BY <1>1, <1>7
    <3> HIDE DEF n
    <3> QED BY <3>1
  <2>1. stack' # <<>>
    BY <1>1, <1>4, <1>7
  <2>2. HK!Last(stack') = caller
    BY <1>4, <2>0 DEF HK!Last
  <2>3. hkAt' = "dfs" /\ source' = source /\ iter' = [iter EXCEPT ![caller] = @ + 1]
    BY <1>2, <2>1, <2>2 DEF HK!DeadEnd
  <2>4. caller \in Index /\ iter[caller] < Len(hkAdj[caller])
    BY <1>1, <1>2, <2>0 DEF HKInv, AlternatingPath
  <2>5. HKTypes' /\ IterInBounds'
    <3>1. Len(hkAdj[caller]) \in Nat
      BY <2>4 DEF HKInv, HKTypes, ArraysTyped
    <3>2. iter' \in [Index -> Nat] /\ \A x \in Index : iter'[x] <= Len(hkAdj[x])
      BY <1>3, <2>3, <2>4, <3>1 DEF HKInv, IterInBounds
    <3>3. source' \in 0 .. N
      BY <2>3 DEF HKInv, HKTypes
    <3> QED BY <1>2, <1>4, <1>5, <2>3, <3>2, <3>3 DEF HKInv, HKTypes, ArraysTyped, IterInBounds
  <2>6. AlternatingPath'
    <3>1. stack'[1] = source /\ matchLeft[source] = -1
      BY <1>2, <1>4, <2>0 DEF HKInv, AlternatingPath
    <3>2. ASSUME NEW k \in 1 .. n - 2
          PROVE  /\ iter'[stack'[k]] < Len(hkAdj[stack'[k]])
                 /\ (matchRight[HK!b(stack[k])])' = stack'[k + 1]
      <4>1. k \in 1 .. n - 1 /\ k + 1 \in 1 .. n - 1 /\ k \in 1 .. n /\ k # n - 1
        BY <1>1
      <4>2. stack[k] # caller /\ stack[k] \in Index
        BY <1>1, <2>0, <4>1
      <4>3. iter'[stack[k]] = iter[stack[k]]
        BY <1>3, <2>3, <4>2
      <4>4. iter[stack[k]] < Len(hkAdj[stack[k]]) /\ matchRight[HK!b(stack[k])] = stack[k + 1]
        BY <1>2, <4>1 DEF HKInv, AlternatingPath
      <4> QED BY <1>2, <1>4, <4>1, <4>3, <4>4 DEF HK!b
    <3>3. ASSUME NEW k \in 1 .. n - 1, NEW l \in 1 .. n - 1, k < l
          PROVE  distLeft'[stack'[k]] < distLeft'[stack'[l]]
      <4>1. k \in 1 .. n /\ l \in 1 .. n /\ k # n /\ l # n
        BY <1>1
      <4>2. stack[k] # HK!Top /\ stack[l] # HK!Top /\ stack[k] \in Index /\ stack[l] \in Index
        BY <1>1, <2>0, <4>1
      <4>3. distLeft[stack[k]] < distLeft[stack[l]]
        BY <1>2, <3>3, <4>1 DEF HKInv, AlternatingPath
      <4> QED BY <1>2, <1>3, <1>4, <4>2, <4>3
    <3>4. Len(stack') - 1 = n - 2
      BY <1>1, <1>4
    <3> HIDE DEF n
    <3> QED BY <1>2, <1>4, <2>1, <2>3, <3>1, <3>2, <3>3, <3>4 DEF AlternatingPath
  <2> QED BY <1>2, <2>5, <2>6, KeepsMatching DEF HKInv
<1> QED BY <1>6, <1>7

\* All calls return true: the path's edges replace the matched ones on it.
LEMMA AugmentStep ==
  ASSUME N \in Nat, HKInv, HK!Augment
  PROVE  HKInv'
<1> DEFINE n == Len(stack)
           edge(k) == HK!b(stack[k])
<1>0. HK!Left = Index /\ HK!Right = Index
  BY DEF HK!Left, HK!Right, Index
<1>1. /\ n \in Nat /\ n > 0 /\ \A k \in 1 .. n : stack[k] \in Index
      /\ HK!Top = stack[n] /\ HK!Top \in Index
      /\ \A k, l \in 1 .. n : stack[k] = stack[l] => k = l
      /\ source \in Index
  BY Path DEF HK!Augment, HK!Scanning
<1>2. /\ UNCHANGED <<hkAdj, distLeft, iter>>
      /\ hkAt = "dfs" /\ iter[HK!Top] < Len(hkAdj[HK!Top])
      /\ matchRight[HK!b(HK!Top)] = -1
      /\ matchLeft' = [x \in Index |-> IF x \in HK!Calls THEN HK!b(x) ELSE matchLeft[x]]
      /\ matchRight' = [y \in Index |->
           IF \E x \in HK!Calls : HK!b(x) = y THEN CHOOSE x \in HK!Calls : HK!b(x) = y
                                              ELSE matchRight[y]]
      /\ hkCount' = hkCount + 1
      /\ stack' = <<>> /\ hkAt' = "sources" /\ source' = source + 1
  BY <1>0 DEF HK!Augment, HK!Scanning, HK!a2, HK!None
<1>3. /\ matchLeft \in [Index -> Index \cup {-1}] /\ matchRight \in [Index -> Index \cup {-1}]
      /\ \A x \in Index : matchLeft[x] # -1 => /\ matchLeft[x] \in HK!Range(hkAdj[x])
                                               /\ matchRight[matchLeft[x]] = x
      /\ \A y \in Index : matchRight[y] # -1 => matchLeft[matchRight[y]] = y
      /\ -1 \notin Index
  BY DEF HKInv, HKTypes, ArraysTyped, ArraysAgree, Index
<1>4. HK!Calls = {stack[k] : k \in 1 .. n}
  BY DEF HKInv, HKTypes, HK!Calls, HK!Range
<1>5. \A k \in 1 .. n : edge(k) \in Index /\ edge(k) \in HK!Range(hkAdj[stack[k]])
  <2> TAKE k \in 1 .. n
  <2>1. iter[stack[k]] < Len(hkAdj[stack[k]])
    <3>1. k # n => k \in 1 .. n - 1
      BY <1>1
    <3> QED BY <1>1, <1>2, <3>1 DEF HKInv, AlternatingPath
  <2> QED BY <1>1, <2>1, EdgeInReach
<1>6. /\ matchLeft[stack[1]] = -1 /\ stack[1] = source
      /\ matchRight[edge(n)] = -1
      /\ \A k \in 1 .. n - 1 : matchRight[edge(k)] = stack[k + 1]
  BY <1>1, <1>2 DEF HKInv, AlternatingPath
<1> HIDE DEF edge
<1>7. \A k \in 1 .. n - 1 : matchLeft[stack[k + 1]] = edge(k)
  <2> TAKE k \in 1 .. n - 1
  <2>1. k \in 1 .. n /\ k + 1 \in 1 .. n
    BY <1>1
  <2> QED BY <1>1, <1>3, <1>5, <1>6, <2>1
<1>8. \A k, l \in 1 .. n : edge(k) = edge(l) => k = l
  <2> SUFFICES ASSUME NEW k \in 1 .. n, NEW l \in 1 .. n, edge(k) = edge(l), k # l
               PROVE  FALSE
    OBVIOUS
  <2>1. \A i \in 1 .. n : i # n => i \in 1 .. n - 1 /\ i + 1 \in 1 .. n /\ stack[i + 1] # -1
    BY <1>1, <1>3
  <2>2. CASE k = n
    BY <1>6, <2>1, <2>2
  <2>3. CASE l = n
    BY <1>6, <2>1, <2>3
  <2>4. CASE k # n /\ l # n
    <3>1. stack[k + 1] = stack[l + 1] /\ k + 1 \in 1 .. n /\ l + 1 \in 1 .. n
      BY <1>6, <2>1, <2>4
    <3> QED BY <1>1, <3>1
  <2> QED BY <2>2, <2>3, <2>4
<1>9. /\ \A k \in 1 .. n : matchLeft'[stack[k]] = edge(k) /\ matchRight'[edge(k)] = stack[k]
      /\ \A x \in Index : x \notin HK!Calls => matchLeft'[x] = matchLeft[x]
      /\ \A y \in Index : (\A k \in 1 .. n : y # edge(k)) => matchRight'[y] = matchRight[y]
  <2>1. \A x \in HK!Calls : \E k \in 1 .. n : x = stack[k] /\ HK!b(x) = edge(k)
    BY <1>4 DEF edge
  <2>2. ASSUME NEW k \in 1 .. n
        PROVE  matchLeft'[stack[k]] = edge(k) /\ matchRight'[edge(k)] = stack[k]
    <3>1. stack[k] \in HK!Calls /\ HK!b(stack[k]) = edge(k)
      BY <1>4 DEF edge
    <3>2. \A x \in HK!Calls : HK!b(x) = edge(k) => x = stack[k]
      BY <1>8, <2>1
    <3> QED BY <1>1, <1>2, <1>5, <3>1, <3>2
  <2>3. \A x \in Index : x \notin HK!Calls => matchLeft'[x] = matchLeft[x]
    BY <1>2
  <2>4. ASSUME NEW y \in Index, \A k \in 1 .. n : y # edge(k)
        PROVE  matchRight'[y] = matchRight[y]
    <3>1. ~ \E x \in HK!Calls : HK!b(x) = y
      BY <2>1, <2>4
    <3> QED BY <1>2, <3>1
  <2> QED BY <2>2, <2>3, <2>4
<1>10. ASSUME NEW x \in Index, x \notin HK!Calls, matchLeft[x] # -1
       PROVE  \A k \in 1 .. n : matchLeft[x] # edge(k)
  <2> SUFFICES ASSUME NEW k \in 1 .. n, matchLeft[x] = edge(k) PROVE FALSE
    OBVIOUS
  <2>1. matchRight[edge(k)] = x
    BY <1>3, <1>10
  <2>2. k # n => k \in 1 .. n - 1 /\ k + 1 \in 1 .. n
    BY <1>1
  <2> QED BY <1>3, <1>4, <1>6, <1>10, <2>1, <2>2
<1>11. HKTypes' /\ IterInBounds'
  <2>1. /\ \A x \in HK!Calls : HK!b(x) \in Index
        /\ HK!Calls \subseteq Index
    BY <1>1, <1>4, <1>5 DEF edge
  <2>2. matchLeft' \in [Index -> Index \cup {-1}]
    BY <1>2, <1>3, <2>1
  <2>3. matchRight' \in [Index -> Index \cup {-1}]
    BY <1>2, <1>3, <2>1
  <2>4. source' \in 0 .. N
    BY <1>1, <1>2 DEF Index
  <2>5. hkCount' \in Nat /\ stack' \in Seq(Index)
    BY <1>2 DEF HKInv, HKTypes
  <2> QED BY <1>2, <2>2, <2>3, <2>4, <2>5 DEF HKInv, HKTypes, ArraysTyped, IterInBounds
<1>12. ArraysAgree'
  <2>1. ASSUME NEW x \in Index, matchLeft'[x] # -1
        PROVE  matchLeft'[x] \in HK!Range(hkAdj[x]) /\ matchRight'[matchLeft'[x]] = x
    <3>1. CASE x \in HK!Calls
      <4>1. PICK k \in 1 .. n : x = stack[k]
        BY <1>4, <3>1
      <4> QED BY <1>5, <1>9, <4>1
    <3>2. CASE x \notin HK!Calls
      <4>1. matchLeft'[x] = matchLeft[x] /\ matchLeft[x] \in Index
        BY <1>3, <1>9, <2>1, <3>2
      <4> QED BY <1>3, <1>9, <1>10, <2>1, <3>2, <4>1
    <3> QED BY <3>1, <3>2
  <2>2. ASSUME NEW y \in Index, matchRight'[y] # -1
        PROVE  matchLeft'[matchRight'[y]] = y
    <3>1. CASE \E k \in 1 .. n : y = edge(k)
      BY <1>9, <3>1
    <3>2. CASE \A k \in 1 .. n : y # edge(k)
      <4> DEFINE x == matchRight[y]
      <4>1. matchRight'[y] = x /\ x \in Index /\ matchLeft[x] = y
        BY <1>3, <1>9, <2>2, <3>2
      <4>2. x \notin HK!Calls
        <5> SUFFICES ASSUME NEW k \in 1 .. n, x = stack[k] PROVE FALSE
          BY <1>4
        <5>1. k # 1
          BY <1>3, <1>6, <4>1
        <5>2. k - 1 \in 1 .. n - 1 /\ k - 1 \in 1 .. n /\ (k - 1) + 1 = k
          BY <1>1, <5>1
        <5>3. matchLeft[stack[(k - 1) + 1]] = edge(k - 1)
          BY <1>7, <5>2
        <5> QED BY <3>2, <4>1, <5>2, <5>3
      <4> QED BY <1>9, <4>1, <4>2
    <3> QED BY <3>1, <3>2
  <2> QED BY <1>2, <2>1, <2>2 DEF ArraysAgree
<1>13. CountIsSize'
  <2> DEFINE before == {x \in Index : matchLeft[x] # -1}
             after == {x \in Index : matchLeft'[x] # -1}
  <2>1. source \notin before
    BY <1>6
  <2>2. IsFiniteSet(before)
    BY IndexFinite, FS_Subset
  <2>3. after = before \cup {source}
    <3>1. ASSUME NEW x \in Index
          PROVE  matchLeft'[x] # -1 <=> matchLeft[x] # -1 \/ x = source
      <4>1. CASE x \notin HK!Calls
        <5>1. source \in HK!Calls
          BY <1>1, <1>4, <1>6
        <5> QED BY <1>9, <4>1, <5>1
      <4>2. CASE x \in HK!Calls
        <5>1. PICK k \in 1 .. n : x = stack[k]
          BY <1>4, <4>2
        <5>2. matchLeft'[x] # -1
          BY <1>3, <1>5, <1>9, <5>1
        <5>3. k # 1 => matchLeft[x] # -1
          <6> HAVE k # 1
          <6>1. k - 1 \in 1 .. n - 1 /\ k - 1 \in 1 .. n /\ (k - 1) + 1 = k
            BY <1>1
          <6>2. matchLeft[stack[(k - 1) + 1]] = edge(k - 1)
            BY <1>7, <6>1
          <6> QED BY <1>3, <1>5, <5>1, <6>1, <6>2
        <5> QED BY <1>6, <5>1, <5>2, <5>3
      <4> QED BY <4>1, <4>2
    <3> QED BY <1>1, <3>1
  <2>4. Cardinality(after) = Cardinality(before) + 1
    BY <2>1, <2>2, <2>3, FS_AddElement
  <2> QED BY <1>2, <2>4 DEF HKInv, CountIsSize
<1>14. AlternatingPath'
  BY <1>2 DEF AlternatingPath
<1> QED BY <1>11, <1>12, <1>13, <1>14 DEF HKInv

LEMMA HKStep ==
  ASSUME N \in Nat, N > 0
  PROVE  HKInv /\ [HK!Next]_HK!vars => HKInv'
<1> SUFFICES ASSUME HKInv, [HK!Next]_HK!vars PROVE HKInv'
  OBVIOUS
<1>1. CASE HK!bfs \/ HK!SkipSource \/ HK!EndPhase
  BY <1>1, SearchSteps
<1>2. CASE HK!StartDfs
  BY <1>2, StartDfsStep
<1>3. CASE HK!NextEdge
  BY <1>3, NextEdgeStep
<1>4. CASE HK!Recurse
  BY <1>4, RecurseStep
<1>5. CASE HK!DeadEnd
  BY <1>5, DeadEndStep
<1>6. CASE HK!Augment
  BY <1>6, AugmentStep
<1>7. CASE UNCHANGED HK!vars
  <2>1. /\ UNCHANGED <<hkAdj, matchLeft, matchRight, distLeft, iter>>
        /\ UNCHANGED <<hkCount, source, stack, hkAt>>
    BY <1>7 DEF HK!vars
  <2>2. HKTypes' /\ IterInBounds'
    BY <2>1 DEF HKInv, HKTypes, ArraysTyped, IterInBounds
  <2>3. AlternatingPath'
    BY <2>1 DEF HKInv, AlternatingPath, HK!b
  <2> QED BY <2>1, <2>2, <2>3, KeepsMatching DEF HKInv
<1> QED BY <1>1, <1>2, <1>3, <1>4, <1>5, <1>6, <1>7 DEF HK!Next

\* Whatever else a route runs, it runs maxMatching on the compatible pairs and
\* changes nothing of its state but by its steps.
LEMMA RunsHopcroftKarp == Spec => HK!Init(CompatiblePairs) /\ [][HK!Next]_HK!vars
<1>1. Init => HK!Init(CompatiblePairs)
  BY DEF Init
<1>2. [Next]_vars => [HK!Next]_HK!vars
  BY DEF Next, runGaleShapley, runHopcroftKarp, runHungarian, runBlossom, vars, hk, HK!vars
<1> QED BY <1>1, <1>2, PTL DEF Spec

LEMMA HKInvariant == Spec => []HKInv
<1>1. HK!Init(CompatiblePairs) => HKInv
  BY NumberOfPeople, HKStart
<1>2. HKInv /\ [HK!Next]_HK!vars => HKInv'
  BY NumberOfPeople, HKStep
<1> QED BY <1>1, <1>2, RunsHopcroftKarp, PTL

\* Between two steps of a phase matchLeft_ and matchRight_ describe one
\* matching of compatible pairs, of the size maxMatching has counted, and dfs
\* never calls itself for a vertex that is being searched.
THEOREM ValidMatching == Spec => []MatchingIsValid
<1>1. HKInv => MatchingIsValid
  <2> SUFFICES ASSUME HKInv PROVE HK!MatchingIsValid
    BY DEF MatchingIsValid
  <2>1. HK!Left = Index /\ HK!Right = Index /\ HK!None = -1
    BY DEF HK!Left, HK!Right, HK!None, Index
  <2>2. ASSUME NEW x \in Index, matchLeft[x] # -1
        PROVE  <<x, matchLeft[x]>> \in HK!Edges /\ matchRight[matchLeft[x]] = x
    BY <2>1, <2>2 DEF HKInv, HKTypes, ArraysTyped, ArraysAgree, HK!Edges
  <2>3. HK!IsInjective(stack)
    <3>1. CASE hkAt = "dfs"
      <4>1. \A k, l \in 1 .. Len(stack) : stack[k] = stack[l] => k = l
        BY <3>1, NumberOfPeople, Path
      <4> QED BY <4>1 DEF HKInv, HKTypes, HK!IsInjective
    <3>2. CASE hkAt # "dfs"
      BY <3>2 DEF HKInv, AlternatingPath, HK!IsInjective
    <3> QED BY <3>1, <3>2
  <2>4. \A y \in Index : matchRight[y] # -1 => matchLeft[matchRight[y]] = y
    BY DEF HKInv, ArraysAgree
  <2>5. hkCount = Cardinality({x \in HK!Left : matchLeft[x] # HK!None})
    BY <2>1 DEF HKInv, CountIsSize
  <2>7. \A A : HK!Cardinality(A) = Cardinality(A)
    BY DEF HK!Cardinality, Cardinality
  <2>6. /\ \A x \in HK!Left : matchLeft[x] # HK!None =>
              <<x, matchLeft[x]>> \in HK!Edges /\ matchRight[matchLeft[x]] = x
        /\ \A y \in HK!Right : matchRight[y] # HK!None => matchLeft[matchRight[y]] = y
    BY <2>1, <2>2, <2>4
  <2> QED BY <2>3, <2>5, <2>6, <2>7 DEF HK!MatchingIsValid
<1> QED BY <1>1, HKInvariant, PTL

\* When the last bfs has failed, the left vertices X it reached hold every free
\* one, and the edges out of X lead to vertices whose mates are in X.
NoAugmentingPath ==
  hkAt = "done" =>
    \E X \in SUBSET Index : /\ \A x \in Index : matchLeft[x] = -1 => x \in X
                            /\ \A x \in X : \A y \in HK!Range(hkAdj[x]) :
                                 y \in Index /\ matchRight[y] \in X

LEMMA NoPathStep ==
  ASSUME N \in Nat, N > 0
  PROVE  HKInv /\ NoAugmentingPath /\ [HK!Next]_HK!vars => NoAugmentingPath'
<1> SUFFICES ASSUME HKInv, NoAugmentingPath, [HK!Next]_HK!vars PROVE NoAugmentingPath'
  OBVIOUS
<1>1. CASE HK!bfs /\ hkAt' = "done"
  <2> DEFINE X == HK!Reached
  <2>0. ArraysTyped
    BY DEF HKInv, HKTypes
  <2>1. X \in SUBSET Index
    BY <2>0, WaveType DEF HK!Reached
  <2>2. HK!Free \subseteq X /\ Step(X) \subseteq X
    BY <2>0, ReachedIsClosed
  <2>3. /\ ~HK!found
        /\ UNCHANGED <<hkAdj, matchLeft, matchRight>>
    BY <1>1 DEF HK!bfs
  <2>4. \A x \in Index : matchLeft[x] = -1 => x \in X
    BY <2>2 DEF HK!Free, HK!Left, HK!None, Index
  <2>5. ASSUME NEW x \in X, NEW y \in HK!Range(hkAdj[x])
        PROVE  y \in Index /\ matchRight[y] \in X
    <3>1. y \in HK!Neighbours(X)
      BY DEF HK!Neighbours
    <3>2. y \in Index
      BY <2>0, <2>1, <3>1, StepType
    <3>3. matchRight[y] # -1
      BY <2>3, <3>1 DEF HK!found, HK!None
    <3>4. matchRight[y] \in Step(X)
      BY <3>1, <3>3 DEF Step, HK!MatesOf, HK!None
    <3> QED BY <2>2, <3>2, <3>4
  <2> HIDE DEF X
  <2>6. \E Y \in SUBSET Index : /\ \A x \in Index : matchLeft[x] = -1 => x \in Y
                                /\ \A x \in Y : \A y \in HK!Range(hkAdj[x]) :
                                     y \in Index /\ matchRight[y] \in Y
    BY <2>1, <2>4, <2>5
  <2>7. /\ hkAdj' = hkAdj /\ matchLeft' = matchLeft /\ matchRight' = matchRight
    BY <2>3
  <2> QED BY <2>6, <2>7 DEF NoAugmentingPath, HK!Range
<1>2. CASE HK!Next /\ ~(HK!bfs /\ hkAt' = "done")
  <2>1. hkAt' # "done"
    BY <1>2 DEF HKInv, HKTypes, HK!Next, HK!bfs, HK!SkipSource, HK!StartDfs, HK!EndPhase,
                HK!NextEdge, HK!Recurse, HK!DeadEnd, HK!Augment, HK!Scanning
  <2> QED BY <2>1 DEF NoAugmentingPath
<1>3. CASE UNCHANGED HK!vars
  <2>1. hkAdj' = hkAdj /\ matchLeft' = matchLeft /\ matchRight' = matchRight /\ hkAt' = hkAt
    BY <1>3 DEF HK!vars
  <2> QED BY <2>1 DEF NoAugmentingPath, HK!Range
<1> QED BY <1>1, <1>2, <1>3

\* The vertex cover of X's neighbours and the other left vertices: each pair of
\* a matching is charged to a matched left vertex of its own.
LEMMA NoLargerMatching ==
  ASSUME N \in Nat, HKInv, NoAugmentingPath, hkAt = "done",
         NEW M \in SUBSET HK!Edges, OneToOne(M)
  PROVE  Cardinality(M) <= Cardinality({x \in Index : matchLeft[x] # -1})
<1> DEFINE Matched == {x \in Index : matchLeft[x] # -1}
<1>1. PICK X \in SUBSET Index : /\ \A x \in Index : matchLeft[x] = -1 => x \in X
                                /\ \A x \in X : \A y \in HK!Range(hkAdj[x]) :
                                     y \in Index /\ matchRight[y] \in X
  BY DEF NoAugmentingPath
<1>2. \A e \in M : e[1] \in Index /\ e[2] \in Index /\ e[2] \in HK!Range(hkAdj[e[1]])
                   /\ e = <<e[1], e[2]>>
  BY DEF HK!Edges, HK!Left, HK!Right, Index
<1>3. /\ matchLeft \in [Index -> Index \cup {-1}] /\ matchRight \in [Index -> Index \cup {-1}]
      /\ \A y \in Index : matchRight[y] # -1 => matchLeft[matchRight[y]] = y
      /\ -1 \notin Index
  BY DEF HKInv, HKTypes, ArraysTyped, ArraysAgree, Index
<1> DEFINE f == [e \in M |-> IF e[1] \in X THEN matchRight[e[2]] ELSE e[1]]
<1>4. \A e \in M : f[e] \in Matched
  <2> TAKE e \in M
  <2>1. CASE e[1] \in X
    <3>1. matchRight[e[2]] \in X
      BY <1>1, <1>2, <2>1
    <3>2. matchRight[e[2]] \in Index /\ matchLeft[matchRight[e[2]]] = e[2] /\ e[2] # -1
      BY <1>2, <1>3, <3>1
    <3> QED BY <2>1, <3>2
  <2>2. CASE e[1] \notin X
    BY <1>1, <1>2, <2>2
  <2> QED BY <2>1, <2>2
<1>5. ASSUME NEW e \in M, NEW d \in M, f[e] = f[d] PROVE e = d
  <2>1. OneToOne(M) => (e # d => e[1] # d[1] /\ e[2] # d[2])
    BY DEF OneToOne
  <2>2. CASE e[1] \in X /\ d[1] \in X
    <3>1. matchRight[e[2]] = matchRight[d[2]] /\ matchRight[e[2]] \in X /\ matchRight[d[2]] \in X
      BY <1>1, <1>2, <1>5, <2>2
    <3>2. e[2] = d[2]
      BY <1>2, <1>3, <3>1
    <3> QED BY <2>1, <3>2
  <2>3. CASE e[1] \notin X /\ d[1] \notin X
    BY <1>5, <2>1, <2>3
  <2>4. CASE e[1] \in X /\ d[1] \notin X
    BY <1>1, <1>2, <1>5, <2>4
  <2>5. CASE e[1] \notin X /\ d[1] \in X
    BY <1>1, <1>2, <1>5, <2>5
  <2> QED BY <2>2, <2>3, <2>4, <2>5
<1>6. f \in Injection(M, Matched)
  BY <1>4, <1>5 DEF Injection, IsInjective
<1>7. IsFiniteSet(Matched)
  BY IndexFinite, FS_Subset
<1> QED BY <1>6, <1>7, FS_Injection

\* The edges stay the compatible pairs, and what has been reported is the final
\* matching of the run.
HKReport ==
  /\ hkAdj \in [Index -> Seq(Index)] /\ HK!Edges = Compatible
  /\ Reported("Hopcroft-Karp") =>
       /\ hkAt = "done"
       /\ results["Hopcroft-Karp"].matchM = matchLeft
       /\ results["Hopcroft-Karp"].matchedCount = Cardinality({x \in Index : matchLeft[x] # -1})

LEMMA HKReportInvariant == Spec => []HKReport
<1>1. Init => HKReport
  BY EdgesAreCompatible, NumberOfPeople DEF Init, HKReport, Reported
<1>2. HKReport /\ [Next]_vars => HKReport'
  <2> SUFFICES ASSUME HKReport, [Next]_vars PROVE HKReport'
    OBVIOUS
  <2>1. COMPAT' = COMPAT /\ hkAdj' = hkAdj
    BY DEF Next, runGaleShapley, runHopcroftKarp, runHungarian, runBlossom, vars, hk,
           HK!Next, HK!bfs, HK!SkipSource, HK!StartDfs, HK!EndPhase,
           HK!NextEdge, HK!Recurse, HK!DeadEnd, HK!Augment
  <2>2. hkAdj' \in [Index -> Seq(Index)] /\ HK!Edges' = Compatible'
    BY <2>1 DEF HKReport, HK!Edges, HK!Range, Compatible
  <2>3. ASSUME NEW m, Calls("Hopcroft-Karp"), HK!Done, m = matchLeft, Report(m), UNCHANGED hk
        PROVE  HKReport'
    BY <2>2, <2>3 DEF HKReport, Reported, Report, Calls, matchesToJson, HK!Done, hk
  <2>4. ASSUME NEW m, NEW algorithm, algorithm # "Hopcroft-Karp", Calls(algorithm),
               Report(m), UNCHANGED hk
        PROVE  HKReport'
    BY <2>2, <2>4 DEF HKReport, Reported, Report, Calls, hk
  <2>5. CASE HK!Next /\ UNCHANGED results
    <3>1. hkAt # "done"
      BY <2>5 DEF HK!Next, HK!bfs, HK!SkipSource, HK!StartDfs, HK!EndPhase,
                  HK!NextEdge, HK!Recurse, HK!DeadEnd, HK!Augment, HK!Scanning
    <3> QED BY <2>2, <2>5, <3>1 DEF HKReport, Reported
  <2>6. CASE UNCHANGED <<results, hk>>
    BY <2>2, <2>6 DEF HKReport, Reported, hk
  <2> QED BY <2>3, <2>4, <2>5, <2>6 DEF Next, runGaleShapley, runHopcroftKarp, runHungarian, runBlossom, vars
<1> QED BY <1>1, <1>2, PTL DEF Spec

\* "Maximum cardinality matching on the compatible-pair graph": Hopcroft-Karp
\* reports compatible couples, one to one, and no matching of compatible pairs
\* is larger, for every table.
THEOREM HopcroftKarpIsMaximum == Spec => []Maximum("Hopcroft-Karp")
<1>1. HKInv /\ NoAugmentingPath /\ HKReport => Maximum("Hopcroft-Karp")
  <2> SUFFICES ASSUME HKInv, NoAugmentingPath, HKReport, Reported("Hopcroft-Karp")
               PROVE  Maximum("Hopcroft-Karp")
    BY DEF Maximum
  <2> DEFINE C == Couples("Hopcroft-Karp")
             Matched == {x \in Index : matchLeft[x] # -1}
  <2>0. N \in Nat
    BY NumberOfPeople
  <2>1. C = {<<x, matchLeft[x]>> : x \in Matched}
    BY DEF HKReport, Couples
  <2>2. /\ matchLeft \in [Index -> Index \cup {-1}]
        /\ \A x \in Matched : matchLeft[x] \in HK!Range(hkAdj[x]) /\ matchRight[matchLeft[x]] = x
    BY DEF HKInv, HKTypes, ArraysTyped, ArraysAgree
  <2>3. C \subseteq Compatible
    <3>1. \A x \in Matched : <<x, matchLeft[x]>> \in HK!Edges
      BY <2>2 DEF HK!Edges, HK!Left, HK!Right, Index
    <3> QED BY <2>1, <3>1 DEF HKReport
  <2>4. OneToOne(C)
    BY <2>1, <2>2 DEF OneToOne
  <2>5. Cardinality(C) = Cardinality(Matched)
    <3> DEFINE f == [x \in Matched |-> <<x, matchLeft[x]>>]
    <3>1. f \in Bijection(Matched, C)
      BY <2>1 DEF Bijection, Injection, Surjection, IsInjective
    <3>2. IsFiniteSet(Matched)
      BY <2>0, IndexFinite, FS_Subset
    <3> QED BY <3>1, <3>2, FS_Bijection DEF ExistsBijection
  <2>6. ASSUME NEW M \in SUBSET Compatible, OneToOne(M)
        PROVE  Cardinality(M) <= Cardinality(C)
    <3>1. M \in SUBSET HK!Edges /\ hkAt = "done"
      BY DEF HKReport
    <3>2. Cardinality(M) <= Cardinality(Matched)
      BY <2>0, <2>6, <3>1, NoLargerMatching
    <3> QED BY <2>5, <3>2
  <2>7. results["Hopcroft-Karp"].matchedCount = Cardinality(C)
    BY <2>5 DEF HKReport
  <2> HIDE DEF C
  <2> QED BY <2>3, <2>4, <2>6, <2>7 DEF Maximum, C
<1>2. HK!Init(CompatiblePairs) => NoAugmentingPath
  BY DEF HK!Init, NoAugmentingPath
<1>3. HKInv /\ NoAugmentingPath /\ [HK!Next]_HK!vars => NoAugmentingPath'
  BY NumberOfPeople, NoPathStep
<1> QED BY <1>1, <1>2, <1>3, RunsHopcroftKarp, HKInvariant, HKReportInvariant, PTL

-----------------------------------------------------------------------------
(* Hungarian: the rows so far are assigned optimally *)

Line == 1 .. N
Line0 == 0 .. N
Largest == Hung!Largest

\* The reduced cost of a pair.
Slack(r, j) == cost[r][j] - u[r] - v[j]

HungTypes == /\ cost \in [Line -> [Line -> -100 .. 0]]
             /\ u \in [Line0 -> Int] /\ v \in [Line0 -> Int]
             /\ p \in [Line0 -> Line0] /\ way \in [Line0 -> Line0]
             /\ row \in 1 .. N + 1 /\ j0 \in Line0
             /\ minv \in [Line0 -> Int]
             /\ used \in SUBSET Line0
             /\ hungAt \in {"rows", "search", "flip", "done"}

\* The columns of Columns have the rows 1 .. n, each of them one.
Assigned(Columns, n) ==
  /\ \A j \in Columns : p[j] <= n
  /\ \A r \in 1 .. n : \E j \in Columns : p[j] = r
  /\ \A j, k \in Columns : p[j] = p[k] /\ p[j] # 0 => j = k

\* What makes the assignment of Columns optimal: no negative reduced cost, that
\* of an assigned pair is zero, and a free column has potential zero.
Certified(Columns, rows) ==
  /\ \A r \in rows, j \in Line : Slack(r, j) >= 0
  /\ \A j \in Columns : p[j] # 0 => Slack(p[j], j) = 0
  /\ \A j \in Line : v[j] <= 0
  /\ \A j \in Columns : p[j] = 0 => v[j] = 0

\* The row in front of every column on the search's tree, and of j0.
OnTree(j) == way[j] \in used /\ p[way[j]] # 0 /\ Slack(p[way[j]], j) = 0

Bounded(n) == /\ \A r \in Line0 : u[r] \in -Largest .. 0
              /\ \A j \in Line : v[j] \in -Largest .. 0
              /\ v[0] \in 0 .. n * Largest

RowsSoFar ==
  hungAt = "rows" => /\ Assigned(Line, row - 1)
                     /\ Certified(Line, 1 .. row - 1)
                     /\ Bounded(row - 1)
                     /\ \A r \in Line0 : r = 0 \/ r >= row => u[r] = 0

\* The tree of used columns grows from the dummy column, which has row i.
Growing ==
  hungAt = "search" =>
    /\ row <= N /\ p[0] = row
    /\ Assigned(Line, row - 1)
    /\ Certified(Line, 1 .. row - 1)
    /\ \A r \in Line0 : r = 0 \/ r > row => u[r] = 0
    /\ v[0] + u[row] \in 0 .. (row - 1) * Largest
    /\ j0 \notin used /\ \A j \in used \cup {j0} : p[j] # 0
    /\ \/ used = {} /\ j0 = 0 /\ u[row] = 0 /\ \A j \in Line : minv[j] = Hung!INF
       \/ /\ 0 \in used /\ u[row] >= -Largest
          /\ \A j \in Line : Slack(row, j) >= 0
          /\ \A j \in Line \ used : /\ way[j] \in used /\ minv[j] = Slack(p[way[j]], j)
                                    /\ \A k \in used : minv[j] <= Slack(p[k], j)
          /\ \E ord \in [Line0 -> Nat] : \A j \in (used \cup {j0}) \ {0} :
               OnTree(j) /\ ord[way[j]] < ord[j]

\* Column j0 has given its row away or is the free one.
Flipping ==
  hungAt = "flip" =>
    /\ row <= N /\ j0 # 0
    /\ Assigned(Line0 \ {j0}, row)
    /\ Certified(Line \ {j0}, 1 .. row)
    /\ Bounded(row)
    /\ \A r \in Line0 : r = 0 \/ r > row => u[r] = 0
    /\ \E ord \in [Line0 -> Nat] : \A j \in (used \cup {j0}) \ {0} :
         ord[j] <= ord[j0] => OnTree(j) /\ ord[way[j]] < ord[j]

HungInv == HungTypes /\ RowsSoFar /\ Growing /\ Flipping

LEMMA Lines ==
  /\ Hung!Line = Line /\ Hung!Line0 = Line0
  /\ N \in Nat /\ N > 0
  /\ 0 \in Line0 /\ 0 \notin Line /\ \A j : j \in Line0 <=> j = 0 \/ j \in Line
BY NumberOfPeople DEF Hung!Line, Hung!Line0, Line, Line0

\* Largest bounds the costs, and is far below INF.
LEMMA LargestBounds ==
  ASSUME HungTypes
  PROVE  Largest \in 1 .. 100 /\ \A r, j \in Line : cost[r][j] \in -Largest .. 0
<1> DEFINE A == {-cost[r][c] : r, c \in Hung!Line} \cup {1}
<1>1. \A r, c \in Line : cost[r][c] \in -100 .. 0 /\ -cost[r][c] \in 0 .. 100
  <2> TAKE r \in Line, c \in Line
  <2>1. cost[r][c] \in -100 .. 0
    BY DEF HungTypes
  <2> QED BY <2>1
<1>2. A \in SUBSET (0 .. 100) /\ 1 \in A
  BY <1>1, Lines
<1> HIDE DEF A
<1>3. Hung!Max(A) \in A /\ \A k \in A : k <= Hung!Max(A)
  <2>1. Max(A) \in A /\ \A k \in A : k <= Max(A)
    BY <1>2, GreatestElement
  <2>2. Hung!Max(A) = Max(A)
    BY DEF Hung!Max, Max
  <2> QED BY <2>1, <2>2
<1>4. Largest = Hung!Max(A)
  BY DEF Largest, Hung!Largest, A
<1>5. Largest \in 1 .. 100
  <2>1. 1 \in A /\ Largest \in 0 .. 100
    BY <1>2, <1>3, <1>4
  <2> QED BY <1>3, <1>4, <2>1
<1>6. ASSUME NEW r \in Line, NEW j \in Line PROVE cost[r][j] \in -Largest .. 0
  <2>1. -cost[r][j] \in A
    BY Lines DEF A
  <2>2. -cost[r][j] <= Largest
    BY <1>3, <1>4, <2>1
  <2> QED BY <1>1, <1>5, <2>2
<1> QED BY <1>5, <1>6

LEMMA HungStart ==
  ASSUME COMPAT \in Tables, Hung!Init(COMPAT)
  PROVE  HungInv
<1>1. /\ cost = [r \in Line |-> [c \in Line |-> -COMPAT[r - 1][c - 1]]]
      /\ u = [r \in Line0 |-> 0] /\ v = [c \in Line0 |-> 0]
      /\ p = [c \in Line0 |-> 0] /\ way = [c \in Line0 |-> 0]
      /\ row = 1 /\ j0 = 0 /\ minv = [c \in Line0 |-> Hung!INF] /\ used = {}
      /\ hungAt = "rows"
  BY Lines DEF Hung!Init
<1>2. cost \in [Line -> [Line -> -100 .. 0]]
  <2>1. \A r, c \in Line : -COMPAT[r - 1][c - 1] \in -100 .. 0
    <3> TAKE r \in Line, c \in Line
    <3>1. r - 1 \in 0 .. N - 1 /\ c - 1 \in 0 .. N - 1
      BY Lines DEF Line
    <3>2. COMPAT[r - 1][c - 1] \in 0 .. 100
      BY <3>1, RunnersAssumption
    <3> QED BY <3>2
  <2> QED BY <1>1, <2>1
<1>3. HungTypes
  BY <1>1, <1>2, Lines DEF HungTypes, Hung!INF
<1>4. Largest \in 1 .. 100
  BY <1>3, LargestBounds
<1>5. RowsSoFar
  <2>1. 1 .. row - 1 = {} /\ row - 1 = 0
    BY <1>1
  <2>2. 0 .. 0 * Largest = {0} /\ 0 \in -Largest .. 0
    BY <1>4
  <2>3. Assigned(Line, row - 1)
    BY <1>1, <2>1, Lines DEF Assigned
  <2>4. Certified(Line, 1 .. row - 1)
    BY <1>1, <2>1, Lines DEF Certified
  <2>5. Bounded(row - 1)
    BY <1>1, <2>1, <2>2, Lines DEF Bounded
  <2> QED BY <1>1, <2>3, <2>4, <2>5 DEF RowsSoFar
<1> QED BY <1>1, <1>3, <1>5 DEF HungInv, Growing, Flipping

LEMMA StartRowStep ==
  ASSUME HungInv, Hung!StartRow
  PROVE  HungInv'
<1>1. /\ hungAt = "rows" /\ row <= N /\ p' = [p EXCEPT ![0] = row] /\ j0' = 0
      /\ minv' = [c \in Line0 |-> Hung!INF] /\ used' = {} /\ hungAt' = "search"
      /\ cost' = cost /\ u' = u /\ v' = v /\ way' = way /\ row' = row
  BY Lines DEF Hung!StartRow
<1>2. row \in 1 .. N /\ p \in [Line0 -> Line0] /\ v \in [Line0 -> Int]
  BY <1>1, Lines DEF HungInv, HungTypes
<1>3. p' \in [Line0 -> Line0] /\ p'[0] = row /\ \A j \in Line : p'[j] = p[j]
  BY <1>1, <1>2, Lines DEF Line0, Line
<1>4. HungTypes'
  BY <1>1, <1>3, Lines DEF HungInv, HungTypes, Hung!INF
<1>5. /\ Assigned(Line, row - 1) /\ Certified(Line, 1 .. row - 1) /\ Bounded(row - 1)
      /\ \A r \in Line0 : r = 0 \/ r >= row => u[r] = 0
  BY <1>1 DEF HungInv, RowsSoFar
<1>6. Assigned(Line, row - 1)'
  BY <1>1, <1>3, <1>5 DEF Assigned
<1>7. Certified(Line, 1 .. row - 1)'
  BY <1>1, <1>3, <1>5 DEF Certified, Slack
<1>8. Largest' = Largest
  BY <1>1 DEF Largest, Hung!Largest, Hung!Line
<1>9. v[0] + u[row] \in 0 .. (row - 1) * Largest /\ u[row] = 0
  <2>1. row \in Line0 /\ row >= row
    BY <1>2 DEF Line0
  <2>2. u[row] = 0 /\ v[0] \in 0 .. (row - 1) * Largest
    BY <1>5, <2>1 DEF Bounded
  <2> QED BY <1>2, <2>2, Lines
<1>10. Growing'
  <2>1. \A r \in Line0 : r = 0 \/ r > row => u[r] = 0
    BY <1>2, <1>5 DEF Line0
  <2>2. row # 0
    BY <1>2
  <2> QED BY <1>1, <1>3, <1>6, <1>7, <1>8, <1>9, <2>1, <2>2, Lines DEF Growing
<1> QED BY <1>1, <1>4, <1>10 DEF HungInv, RowsSoFar, Flipping

LEMMA FinishStep ==
  ASSUME HungInv, Hung!Finish
  PROVE  HungInv'
<1>1. hungAt' = "done" /\ UNCHANGED <<cost, u, v, p, way, row, j0, minv, used>>
  BY DEF Hung!Finish
<1>2. HungTypes'
  BY <1>1 DEF HungInv, HungTypes
<1> QED BY <1>1, <1>2 DEF HungInv, RowsSoFar, Growing, Flipping

\* j0 takes the row of the column before it, whose pair with j0 is tight; the
\* hole moves on towards the dummy column.
LEMMA FlipStep ==
  ASSUME HungInv, Hung!Flip
  PROVE  HungInv'
<1> DEFINE w == way[j0]
<1>1. /\ hungAt = "flip" /\ p' = [p EXCEPT ![j0] = p[w]] /\ j0' = w
      /\ \/ w = 0 /\ row' = row + 1 /\ hungAt' = "rows"
         \/ w # 0 /\ row' = row /\ hungAt' = "flip"
      /\ cost' = cost /\ u' = u /\ v' = v /\ way' = way /\ minv' = minv /\ used' = used
  BY DEF Hung!Flip
<1>2. /\ HungTypes /\ row <= N /\ j0 # 0
      /\ Assigned(Line0 \ {j0}, row)
      /\ Certified(Line \ {j0}, 1 .. row)
      /\ Bounded(row)
      /\ \A r \in Line0 : r = 0 \/ r > row => u[r] = 0
  BY <1>1 DEF HungInv, Flipping
<1>3. PICK ord \in [Line0 -> Nat] :
        \A j \in (used \cup {j0}) \ {0} : ord[j] <= ord[j0] => OnTree(j) /\ ord[way[j]] < ord[j]
  BY <1>1 DEF HungInv, Flipping
<1>4. j0 \in Line /\ w \in Line0 /\ row \in 1 .. N /\ used \in SUBSET Line0
  BY <1>2, Lines DEF HungTypes
<1>5. w \in used /\ p[w] # 0 /\ Slack(p[w], j0) = 0 /\ ord[w] < ord[j0] /\ w # j0
  <2>1. ord[j0] \in Nat /\ j0 \in (used \cup {j0}) \ {0}
    BY <1>2, <1>4, Lines
  <2>2. OnTree(j0) /\ ord[way[j0]] < ord[j0]
    BY <1>3, <2>1
  <2> QED BY <2>1, <2>2 DEF OnTree
<1>6. /\ p' \in [Line0 -> Line0] /\ p'[j0] = p[w] /\ w \in Line0 \ {j0}
      /\ \A j \in Line0 : j # j0 => p'[j] = p[j]
  BY <1>1, <1>2, <1>4, <1>5, Lines DEF HungTypes
<1> HIDE DEF w
<1>7. HungTypes'
  <2>1. row' \in 1 .. N + 1 /\ hungAt' \in {"rows", "search", "flip", "done"} /\ N \in Nat
    BY <1>1, <1>4, Lines
  <2> QED BY <1>1, <1>2, <1>4, <1>6, <2>1 DEF HungTypes
<1>8. /\ \A j \in Line0 \ {w} : p'[j] <= row
      /\ \A r \in 1 .. row : \E j \in Line0 \ {w} : p'[j] = r
      /\ \A j, k \in Line0 \ {w} : p'[j] = p'[k] /\ p'[j] # 0 => j = k
  <2> DEFINE R == row
  <2>1. \A j \in Line0 \ {w} : p'[j] <= R
    BY <1>2, <1>6 DEF Assigned
  <2>2. ASSUME NEW r \in 1 .. R PROVE \E j \in Line0 \ {w} : p'[j] = r
    <3>1. PICK k \in Line0 \ {j0} : p[k] = r
      BY <1>2 DEF Assigned
    <3>2. CASE k = w
      BY <1>4, <1>5, <1>6, <3>1, <3>2, Lines
    <3>3. CASE k # w
      BY <1>6, <3>1, <3>3
    <3> QED BY <3>2, <3>3
  <2>3. ASSUME NEW j \in Line0 \ {w}, NEW k \in Line0 \ {w}, p'[j] = p'[k], p'[j] # 0
        PROVE  j = k
    <3> DEFINE same(l) == IF l = j0 THEN w ELSE l
    <3>1. \A l \in Line0 \ {w} : same(l) \in Line0 \ {j0} /\ p'[l] = p[same(l)]
      BY <1>6
    <3>2. same(j) = same(k)
      BY <1>2, <2>3, <3>1 DEF Assigned
    <3> QED BY <3>2
  <2> QED BY <2>1, <2>2, <2>3
<1>9. /\ \A r \in 1 .. row, j \in Line : Slack(r, j)' >= 0
      /\ \A j \in Line \ {w} : p'[j] # 0 => cost'[p'[j]][j] - u'[p'[j]] - v'[j] = 0
      /\ \A j \in Line : v'[j] <= 0
      /\ \A j \in Line \ {w} : p'[j] = 0 => v'[j] = 0
  <2>1. \A r \in 1 .. row, j \in Line : Slack(r, j)' >= 0
    BY <1>1, <1>2 DEF Certified, Slack
  <2>2. ASSUME NEW j \in Line \ {w}, p'[j] # 0
        PROVE  cost'[p'[j]][j] - u'[p'[j]] - v'[j] = 0
    <3>1. CASE j = j0
      BY <1>1, <1>5, <1>6, <3>1 DEF Slack
    <3>2. CASE j # j0
      BY <1>1, <1>2, <1>6, <2>2, <3>2, Lines DEF Certified, Slack
    <3> QED BY <3>1, <3>2
  <2>3. ASSUME NEW j \in Line \ {w}, p'[j] = 0
        PROVE  v'[j] = 0
    BY <1>1, <1>2, <1>5, <1>6, <2>3, Lines DEF Certified
  <2>4. \A j \in Line : v'[j] <= 0
    BY <1>1, <1>2 DEF Certified
  <2> QED BY <2>1, <2>2, <2>3, <2>4
<1>10. Largest' = Largest
  BY <1>1 DEF Largest, Hung!Largest, Hung!Line
<1>11. CASE w = 0
  <2>1. row' = row + 1 /\ hungAt' = "rows" /\ row' - 1 = row /\ Line0 \ {w} = Line /\ Line \ {w} = Line
    BY <1>1, <1>4, <1>11, Lines
  <2>2. Assigned(Line, row - 1)'
    BY <1>8, <2>1 DEF Assigned
  <2>3. Certified(Line, 1 .. row - 1)'
    BY <1>9, <2>1 DEF Certified, Slack
  <2>4. Bounded(row - 1)'
    BY <1>1, <1>2, <1>10, <2>1 DEF Bounded
  <2>5. \A r \in Line0 : r = 0 \/ r >= row' => u'[r] = 0
    BY <1>1, <1>2, <1>4, <2>1 DEF Line0
  <2> QED BY <1>7, <2>1, <2>2, <2>3, <2>4, <2>5 DEF HungInv, RowsSoFar, Growing, Flipping
<1>12. CASE w # 0
  <2>1. row' = row /\ hungAt' = "flip" /\ j0' = w
    BY <1>1, <1>12
  <2>2. Assigned(Line0 \ {j0}, row)'
    BY <1>8, <2>1 DEF Assigned
  <2>3. Certified(Line \ {j0}, 1 .. row)'
    BY <1>9, <2>1 DEF Certified, Slack
  <2>4. Bounded(row)'
    BY <1>1, <1>2, <1>10, <2>1 DEF Bounded
  <2>5. \A r \in Line0 : r = 0 \/ r > row' => u'[r] = 0
    BY <1>1, <1>2, <2>1
  <2>6. ASSUME NEW j \in (used' \cup {j0'}) \ {0}, ord[j] <= ord[j0']
        PROVE  OnTree(j)' /\ ord[way'[j]] < ord[j]
    <3>1. j \in (used \cup {j0}) \ {0} /\ j \in Line0 /\ ord[j] \in Nat /\ ord[w] \in Nat /\ ord[j0] \in Nat
      BY <1>1, <1>4, <1>5, <2>1, Lines
    <3>2. ord[j] < ord[j0]
      BY <1>5, <2>1, <2>6, <3>1
    <3>3. OnTree(j) /\ ord[way[j]] < ord[j]
      BY <1>3, <3>1, <3>2
    <3>4. way[j] # j0 /\ way[j] \in Line0
      BY <1>4, <3>1, <3>2, <3>3 DEF OnTree
    <3>5. p'[way[j]] = p[way[j]]
      BY <1>6, <3>4
    <3> QED BY <1>1, <3>3, <3>5 DEF OnTree, Slack
  <2>7. Flipping'
    <3>1. \E o \in [Line0 -> Nat] :
            \A j \in (used' \cup {j0'}) \ {0} : o[j] <= o[j0'] => OnTree(j)' /\ o[way'[j]] < o[j]
      BY <2>6
    <3>2. row' <= N /\ j0' # 0
      BY <1>2, <1>12, <2>1
    <3> QED BY <2>1, <2>2, <2>3, <2>4, <2>5, <3>1, <3>2 DEF Flipping, OnTree
  <2> QED BY <1>7, <2>1, <2>7 DEF HungInv, RowsSoFar, Growing
<1> QED BY <1>11, <1>12

\* While a row is being searched for there is a column without a row.
LEMMA FreeColumn ==
  ASSUME HungTypes, row <= N, Assigned(Line, row - 1)
  PROVE  \E j \in Line : p[j] = 0
<1> SUFFICES ASSUME \A j \in Line : p[j] # 0 PROVE FALSE
  OBVIOUS
<1>1. row \in 1 .. N /\ N \in Nat
  BY Lines DEF HungTypes
<1>2. \A j \in Line : p[j] \in 1 .. row - 1
  <2>1. \A j \in Line : p[j] \in Line0 /\ p[j] <= row - 1
    BY Lines DEF HungTypes, Assigned
  <2> QED BY <2>1, Lines, <1>1 DEF Line0
<1> DEFINE f == [j \in Line |-> p[j]]
<1>3. f \in Injection(Line, 1 .. row - 1)
  <2>1. \A j, k \in Line : p[j] = p[k] => j = k
    BY <1>2 DEF Assigned
  <2> QED BY <1>2, <2>1 DEF Injection, IsInjective
<1>4. /\ IsFiniteSet(1 .. row - 1) /\ Cardinality(1 .. row - 1) = row - 1
      /\ Cardinality(Line) = N
  <2>1. \A n \in Nat : IsFiniteSet(1 .. n) /\ Cardinality(1 .. n) = n
    BY FS_Interval
  <2>2. row - 1 \in Nat /\ Line = 1 .. N
    BY <1>1 DEF Line
  <2> QED BY <1>1, <2>1, <2>2
<1>5. Cardinality(Line) <= Cardinality(1 .. row - 1)
  <2> HIDE DEF f
  <2> QED BY <1>3, <1>4, FS_Injection
<1> QED BY <1>1, <1>4, <1>5

\* A certificate for the rows 1 .. n with all the columns, of whatever potentials.
Certificate(rowOf, forRow, forColumn, n) ==
  /\ \A r \in 1 .. n : \E j \in Line : rowOf[j] = r
  /\ \A j \in Line : rowOf[j] <= n
  /\ \A r \in 1 .. n, j \in Line : cost[r][j] - forRow[r] - forColumn[j] >= 0
  /\ \A j \in Line : rowOf[j] # 0 => cost[rowOf[j]][j] - forRow[rowOf[j]] - forColumn[j] = 0
  /\ \A j \in Line : forColumn[j] <= 0
  /\ \A j \in Line : rowOf[j] = 0 => forColumn[j] = 0

\* A free column bounds the potentials of the rows, and these those of the columns.
LEMMA PotentialBounds ==
  ASSUME HungTypes, NEW n \in 0 .. N, NEW f \in Line, NEW rowOf \in [Line0 -> Line0],
         NEW forRow \in [Line0 -> Int], NEW forColumn \in [Line0 -> Int],
         Certificate(rowOf, forRow, forColumn, n), rowOf[f] = 0
  PROVE  /\ \A r \in 1 .. n : forRow[r] \in -Largest .. 0
         /\ \A j \in Line : forColumn[j] \in -Largest .. 0
<1> DEFINE L == Largest
<1>0. /\ L \in 1 .. 100 /\ \A r, j \in Line : cost[r][j] \in -L .. 0
      /\ \A r \in 1 .. n : \E j \in Line : rowOf[j] = r
      /\ \A j \in Line : rowOf[j] <= n
      /\ \A r \in 1 .. n, j \in Line : cost[r][j] - forRow[r] - forColumn[j] >= 0
      /\ \A j \in Line : rowOf[j] # 0 => cost[rowOf[j]][j] - forRow[rowOf[j]] - forColumn[j] = 0
      /\ \A j \in Line : forColumn[j] <= 0
      /\ \A j \in Line : rowOf[j] = 0 => forColumn[j] = 0
  BY LargestBounds DEF Certificate
<1> HIDE DEF L
<1>1. n \in Nat /\ n <= N /\ N \in Nat
  BY Lines
<1>2. \A r \in 1 .. n : r \in Line
  BY <1>1 DEF Line
<1>3. \A r \in 1 .. n, j \in Line : forRow[r] \in Int /\ forColumn[j] \in Int /\ cost[r][j] \in Int
  BY <1>0, <1>2, Lines
<1>4. ASSUME NEW r \in 1 .. n PROVE forRow[r] \in Int /\ forRow[r] <= 0
  <2>1. /\ cost[r][f] - forRow[r] - forColumn[f] >= 0 /\ forColumn[f] = 0
        /\ cost[r][f] \in Int /\ cost[r][f] <= 0 /\ forRow[r] \in Int
    BY <1>0, <1>2, <1>3
  <2> QED BY <2>1
<1>5. ASSUME NEW j \in Line, rowOf[j] # 0
      PROVE  rowOf[j] \in 1 .. n /\ rowOf[j] \in Line
  <2>1. rowOf[j] \in Line /\ rowOf[j] <= n
    BY <1>0, <1>5, Lines
  <2> QED BY <1>1, <2>1 DEF Line
<1>6. ASSUME NEW j \in Line, rowOf[j] # 0
      PROVE  forColumn[j] \in -L .. 0
  <2>1. /\ cost[rowOf[j]][j] - forRow[rowOf[j]] - forColumn[j] = 0
        /\ cost[rowOf[j]][j] \in -L .. 0 /\ forRow[rowOf[j]] \in Int /\ forRow[rowOf[j]] <= 0
        /\ forColumn[j] \in Int /\ forColumn[j] <= 0
    BY <1>0, <1>3, <1>4, <1>5, <1>6
  <2> QED BY <1>0, <2>1
<1>7. ASSUME NEW r \in 1 .. n PROVE forRow[r] \in -L .. 0
  <2>1. PICK j \in Line : rowOf[j] = r
    BY <1>0
  <2>2. rowOf[j] # 0
    BY <1>1, <2>1
  <2>3. /\ cost[r][j] - forRow[r] - forColumn[j] = 0 /\ cost[r][j] \in -L .. 0
        /\ forColumn[j] \in Int /\ forColumn[j] <= 0 /\ forRow[r] \in Int /\ forRow[r] <= 0
    BY <1>0, <1>3, <1>4, <1>5, <2>1, <2>2
  <2> QED BY <1>0, <2>3
<1>8. ASSUME NEW j \in Line, rowOf[j] = 0 PROVE forColumn[j] \in -L .. 0
  BY <1>0, <1>8
<1> QED BY <1>6, <1>7, <1>8 DEF L

\* What Search finds, whatever it then does with it.
Open == Line \ (used \cup {j0})
Nearest(j) == IF j \in Hung!Closer THEN j0 ELSE way[j]

\* The state of a search, with its free column.
LEMMA SearchState ==
  ASSUME HungInv, hungAt = "search"
  PROVE  /\ HungTypes /\ row \in 1 .. N /\ p[0] = row /\ j0 \notin used
         /\ Assigned(Line, row - 1) /\ Certified(Line, 1 .. row - 1)
         /\ \A j \in used \cup {j0} : j \in Line0 /\ p[j] \in 1 .. row
         /\ \A j, k \in Line0 : p[j] = p[k] /\ p[j] # 0 => j = k
         /\ \E f \in Open : p[f] = 0 /\ v[f] = 0
         /\ 0 \in used \cup {j0}
<1>1. /\ HungTypes /\ row <= N /\ p[0] = row
      /\ Assigned(Line, row - 1) /\ Certified(Line, 1 .. row - 1)
      /\ j0 \notin used /\ \A j \in used \cup {j0} : p[j] # 0
      /\ 0 \in used \cup {j0}
  BY DEF HungInv, Growing
<1>2. row \in 1 .. N /\ p \in [Line0 -> Line0] /\ used \in SUBSET Line0 /\ j0 \in Line0
  BY <1>1, Lines DEF HungTypes
<1>3. \A j \in Line : p[j] <= row - 1
  BY <1>1 DEF Assigned
<1>4. \A j \in used \cup {j0} : j \in Line0 /\ p[j] \in 1 .. row
  <2> TAKE j \in used \cup {j0}
  <2>1. j \in Line0 /\ p[j] \in Line0 /\ p[j] # 0
    BY <1>1, <1>2
  <2>2. p[j] <= row
    <3>1. p[j] \in Nat
      BY <2>1, Lines DEF Line0
    <3>2. CASE j = 0
      BY <1>1, <1>2, <3>2
    <3>3. CASE j \in Line
      BY <1>2, <1>3, <3>1, <3>3
    <3> QED BY <2>1, <3>2, <3>3, Lines
  <2> QED BY <1>2, <2>1, <2>2 DEF Line0
<1>5. ASSUME NEW j \in Line0, NEW k \in Line0, p[j] = p[k], p[j] # 0
      PROVE  j = k
  <2>1. CASE j \in Line /\ k \in Line
    BY <1>1, <1>5, <2>1 DEF Assigned
  <2>2. CASE j \in Line /\ k = 0
    BY <1>1, <1>2, <1>3, <1>5, <2>2
  <2>3. CASE j = 0 /\ k \in Line
    BY <1>1, <1>2, <1>3, <1>5, <2>3
  <2> QED BY <2>1, <2>2, <2>3, Lines
<1>6. \E f \in Open : p[f] = 0 /\ v[f] = 0
  <2>1. PICK f \in Line : p[f] = 0
    BY <1>1, FreeColumn
  <2>2. f \in Open
    BY <1>1, <2>1 DEF Open
  <2> QED BY <1>1, <2>1, <2>2 DEF Certified
<1> QED BY <1>1, <1>2, <1>4, <1>5, <1>6

\* The row of every used column has its reduced costs, once the first is used.
LEMMA UsedRows ==
  ASSUME HungInv, hungAt = "search", used # {}
  PROVE  /\ 0 \in used /\ u[row] >= -Largest
         /\ \A r \in 1 .. row, j \in Line : Slack(r, j) >= 0
         /\ \A j \in Line \ used : /\ way[j] \in used /\ minv[j] = Slack(p[way[j]], j)
                                   /\ \A k \in used : minv[j] <= Slack(p[k], j)
<1>1. /\ 0 \in used /\ u[row] >= -Largest
      /\ \A j \in Line : Slack(row, j) >= 0
      /\ \A j \in Line \ used : /\ way[j] \in used /\ minv[j] = Slack(p[way[j]], j)
                                /\ \A k \in used : minv[j] <= Slack(p[k], j)
  BY DEF HungInv, Growing
<1>2. row \in 1 .. N /\ \A r \in 1 .. row - 1, j \in Line : Slack(r, j) >= 0
  BY SearchState DEF Certified
<1>3. \A r \in 1 .. row : r = row \/ r \in 1 .. row - 1
  BY <1>2
<1> QED BY <1>1, <1>2, <1>3

LEMMA SlackType ==
  ASSUME HungTypes, NEW r \in Line, NEW j \in Line
  PROVE  Slack(r, j) \in Int
<1>1. r \in Line0 /\ j \in Line0 /\ cost[r][j] \in -100 .. 0
  BY Lines DEF HungTypes
<1>2. cost[r][j] \in Int /\ u[r] \in Int /\ v[j] \in Int
  BY <1>1 DEF HungTypes
<1> QED BY <1>2 DEF Slack

\* The first column's search: every column is closer than INF.
LEMMA FirstReduced ==
  ASSUME HungInv, hungAt = "search", used = {}, NEW j \in Line
  PROVE  /\ j0 = 0 /\ u[row] = 0 /\ minv[j] = Hung!INF
         /\ Slack(row, j) \in -Largest .. Largest
<1>1. j0 = 0 /\ u[row] = 0 /\ minv[j] = Hung!INF
  BY DEF HungInv, Growing
<1>2. /\ HungTypes /\ row \in 1 .. N /\ Assigned(Line, row - 1) /\ Certified(Line, 1 .. row - 1)
  BY SearchState
<1>3. PICK f \in Line : p[f] = 0
  BY SearchState DEF Open
<1>4. v[j] \in -Largest .. 0
  <2>1. row - 1 \in 0 .. N
    BY <1>2, Lines
  <2>2. Certificate(p, u, v, row - 1)
    BY <1>2 DEF Certificate, Assigned, Certified, Slack
  <2>3. p \in [Line0 -> Line0] /\ u \in [Line0 -> Int] /\ v \in [Line0 -> Int]
    BY <1>2 DEF HungTypes
  <2> QED BY <1>2, <1>3, <2>1, <2>2, <2>3, PotentialBounds
<1>5. Largest \in 1 .. 100 /\ cost[row][j] \in -Largest .. 0
  BY <1>2, LargestBounds DEF Line
<1>6. cost[row][j] - 0 - v[j] \in -Largest .. Largest
  BY <1>4, <1>5
<1> QED BY <1>1, <1>6 DEF Slack

\* minv_ after the loop over the columns: the least reduced cost of a column
\* over the used rows, j0's included, which way_ attains.
LEMMA NearestFound ==
  ASSUME HungInv, hungAt = "search", NEW j \in Open
  PROVE  /\ Nearest(j) \in used \cup {j0}
         /\ Hung!NewMin[j] = Slack(p[Nearest(j)], j)
         /\ \A k \in used \cup {j0} : Hung!NewMin[j] <= Slack(p[k], j)
         /\ Hung!NewMin[j] \in Int
         /\ Hung!NewMin[j] >= IF used = {} THEN -Largest ELSE 0
<1>1. /\ HungTypes /\ row \in 1 .. N /\ p[0] = row /\ j0 \notin used
      /\ \A k \in used \cup {j0} : k \in Line0 /\ p[k] \in 1 .. row
  BY SearchState
<1>2. j \in Line /\ j \in Line0 /\ j \notin used /\ j # j0
  BY Lines DEF Open
<1>3. /\ Hung!cur(j) = Slack(p[j0], j)
      /\ j \in Hung!Closer <=> Slack(p[j0], j) < minv[j]
      /\ Hung!NewMin[j] = IF j \in Hung!Closer THEN Slack(p[j0], j) ELSE minv[j]
  BY <1>2, Lines DEF Hung!cur, Slack, Hung!Closer, Hung!NewMin
<1>4. \A k \in used \cup {j0} : p[k] \in Line /\ Slack(p[k], j) \in Int
  <2> TAKE k \in used \cup {j0}
  <2>1. p[k] \in Line
    BY <1>1, Lines DEF Line
  <2> QED BY <1>1, <1>2, <2>1, SlackType
<1>5. minv[j] \in Int
  BY <1>1, <1>2 DEF HungTypes
<1>6. CASE used = {}
  <2>1. j0 = 0 /\ minv[j] = Hung!INF /\ Slack(row, j) \in -Largest .. Largest
    BY <1>2, <1>6, FirstReduced
  <2>2. Largest \in 1 .. 100
    BY <1>1, LargestBounds
  <2>3. Slack(p[j0], j) = Slack(row, j) /\ Slack(row, j) < minv[j]
    BY <1>1, <2>1, <2>2 DEF Hung!INF
  <2>4. Nearest(j) = j0 /\ Hung!NewMin[j] = Slack(row, j)
    BY <1>3, <2>3 DEF Nearest
  <2> QED BY <1>1, <1>6, <2>1, <2>2, <2>3, <2>4
<1>7. CASE used # {}
  <2>1. /\ way[j] \in used /\ minv[j] = Slack(p[way[j]], j)
        /\ \A k \in used : minv[j] <= Slack(p[k], j)
    BY <1>2, <1>7, UsedRows
  <2>2. Nearest(j) \in used \cup {j0} /\ Hung!NewMin[j] = Slack(p[Nearest(j)], j)
    BY <1>3, <2>1 DEF Nearest
  <2>3. \A k \in used \cup {j0} : Hung!NewMin[j] <= Slack(p[k], j)
    BY <1>3, <1>4, <1>5, <2>1
  <2>4. Hung!NewMin[j] \in Int /\ Hung!NewMin[j] >= 0
    <3>1. p[Nearest(j)] \in 1 .. row
      BY <1>1, <2>2
    <3> QED BY <1>2, <1>4, <1>7, <2>2, <3>1, UsedRows
  <2> QED BY <1>7, <2>2, <2>3, <2>4
<1> QED BY <1>6, <1>7

\* j1 is an unused column with the least minv_.
LEMMA ChosenColumn ==
  ASSUME HungInv, hungAt = "search"
  PROVE  /\ Hung!j1 \in Open
         /\ \A k \in Open : Hung!delta <= Hung!NewMin[k]
         /\ Hung!delta = Hung!NewMin[Hung!j1] /\ Hung!delta \in Int
         /\ Hung!delta >= IF used = {} THEN -Largest ELSE 0
<1>0. Largest \in 1 .. 100
  BY SearchState, LargestBounds
<1>1. \A k \in Open : Hung!NewMin[k] \in Int /\ Hung!NewMin[k] >= -Largest /\ k \in Nat
  <2> TAKE k \in Open
  <2>1. Hung!NewMin[k] \in Int /\ Hung!NewMin[k] >= IF used = {} THEN -Largest ELSE 0
    BY NearestFound
  <2>2. k \in Line
    BY DEF Open
  <2> QED BY <1>0, <2>1, <2>2, Lines DEF Line
<1> DEFINE m == Hung!NewMin
           A == {m[k] + Largest : k \in Open}
<1> HIDE DEF m
<1>2. A \in SUBSET Nat /\ A # {}
  <2>1. Open # {}
    BY SearchState
  <2> QED BY <1>0, <1>1, <2>1 DEF m
<1>3. PICK least \in A : \A n \in A : least <= n
  <2> HIDE DEF A
  <2> QED BY <1>2, LeastElement
<1>4. PICK a1 \in Open : least = m[a1] + Largest
  OBVIOUS
<1>5. \A k \in Open : m[a1] <= m[k]
  <2> TAKE k \in Open
  <2>1. m[k] + Largest \in A
    OBVIOUS
  <2>2. m[a1] + Largest <= m[k] + Largest
    BY <1>3, <1>4, <2>1
  <2> QED BY <1>0, <1>1, <2>2 DEF m
<1> DEFINE B == {k \in Open : m[k] = m[a1]}
<1>6. PICK first \in B : \A k \in B : first <= k
  <2>1. B \in SUBSET Nat /\ B # {}
    BY <1>1
  <2> HIDE DEF B
  <2> QED BY <2>1, LeastElement
<1>7. first \in Open /\ \A k \in Open : m[first] <= m[k] /\ (m[first] = m[k] => first <= k)
  BY <1>5, <1>6
<1>8. /\ Hung!j1 \in Open
      /\ \A k \in Open : m[Hung!j1] <= m[k] /\ (m[Hung!j1] = m[k] => Hung!j1 <= k)
  <2>1. Hung!j1 = CHOOSE j \in Open : \A k \in Open : m[j] <= m[k] /\ (m[j] = m[k] => j <= k)
    BY Lines DEF Hung!j1, Open, m
  <2> QED BY <1>7, <2>1
<1>9. Hung!delta = m[Hung!j1]
  BY DEF Hung!delta, m
<1> QED BY <1>8, <1>9, NearestFound DEF m

\* What Search does to the potentials: those of a used column and of its row
\* move against each other.
LEMMA ShiftEffect ==
  ASSUME HungInv, Hung!Search
  PROVE  /\ used' = used \cup {j0} /\ Hung!delta \in Int
         /\ cost' = cost /\ p' = p /\ row' = row /\ j0' = Hung!j1
         /\ hungAt' = IF p[Hung!j1] = 0 THEN "flip" ELSE "search"
         /\ way' = [j \in Line0 |-> Nearest(j)]
         /\ u' \in [Line0 -> Int] /\ v' \in [Line0 -> Int] /\ minv' \in [Line0 -> Int]
         /\ \A k \in used' : u'[p[k]] = u[p[k]] + Hung!delta
         /\ \A r \in Line0 : (\A k \in used' : p[k] # r) => u'[r] = u[r]
         /\ \A j \in Line0 : v'[j] = IF j \in used' THEN v[j] - Hung!delta ELSE v[j]
         /\ \A j \in Open : minv'[j] = Hung!NewMin[j] - Hung!delta
<1> DEFINE d == Hung!delta
           U == used \cup {j0}
           with(r) == {j \in U : p[j] = r}
<1>0. hungAt = "search"
  BY DEF Hung!Search
<1>1. /\ HungTypes /\ row \in 1 .. N
      /\ \A j \in U : j \in Line0 /\ p[j] \in 1 .. row
      /\ \A j, k \in Line0 : p[j] = p[k] /\ p[j] # 0 => j = k
  BY <1>0, SearchState
<1>2. \A A : Hung!Cardinality(A) = Cardinality(A)
  BY DEF Hung!Cardinality, Cardinality
<1>3. /\ used' = U /\ cost' = cost /\ p' = p /\ row' = row /\ j0' = Hung!j1
      /\ hungAt' = IF p[Hung!j1] = 0 THEN "flip" ELSE "search"
      /\ way' = [j \in Line0 |-> Nearest(j)]
      /\ u' = [r \in Line0 |-> u[r] + d * Cardinality(with(r))]
      /\ v' = [j \in Line0 |-> IF j \in U THEN v[j] - d ELSE v[j]]
      /\ minv' = [j \in Line0 |-> IF j \in U THEN Hung!NewMin[j] ELSE Hung!NewMin[j] - d]
  BY <1>2, Lines DEF Hung!Search, Hung!Shift, Nearest
<1>4. d \in Int
  BY <1>0, ChosenColumn
<1> HIDE DEF d
<1>5. \A k \in U : with(p[k]) = {k} /\ Cardinality(with(p[k])) = 1
  <2> TAKE k \in U
  <2>1. with(p[k]) = {k}
    BY <1>1
  <2> HIDE DEF with
  <2> QED BY <2>1, FS_Singleton
<1>6. \A r \in Line0 : (\A k \in U : p[k] # r) => with(r) = {} /\ Cardinality(with(r)) = 0
  <2> SUFFICES ASSUME NEW r \in Line0, \A k \in U : p[k] # r
               PROVE  with(r) = {} /\ Cardinality(with(r)) = 0
    OBVIOUS
  <2>1. with(r) = {}
    OBVIOUS
  <2> HIDE DEF with
  <2> QED BY <2>1, FS_EmptySet
<1>7. u \in [Line0 -> Int] /\ v \in [Line0 -> Int] /\ p \in [Line0 -> Line0] /\ minv \in [Line0 -> Int]
  BY <1>1 DEF HungTypes
<1>8. \A k \in U : u'[p[k]] = u[p[k]] + d
  <2> TAKE k \in U
  <2>1. p[k] \in Line0
    BY <1>1, <1>7
  <2> HIDE DEF with
  <2>2. u'[p[k]] = u[p[k]] + d * 1
    BY <1>3, <1>5, <2>1
  <2> QED BY <1>4, <2>2
<1>9. \A r \in Line0 : (\A k \in U : p[k] # r) => u'[r] = u[r]
  <2> SUFFICES ASSUME NEW r \in Line0, \A k \in U : p[k] # r PROVE u'[r] = u[r]
    OBVIOUS
  <2> HIDE DEF with
  <2>1. u'[r] = u[r] + d * 0 /\ u[r] \in Int
    BY <1>3, <1>6, <1>7
  <2> QED BY <1>4, <2>1
<1>10. u' \in [Line0 -> Int]
  <2>1. \A r \in Line0 : u'[r] \in Int
    <3> TAKE r \in Line0
    <3>1. CASE \E k \in U : p[k] = r
      BY <1>4, <1>7, <1>8, <3>1
    <3>2. CASE \A k \in U : p[k] # r
      BY <1>7, <1>9, <3>2
    <3> QED BY <3>1, <3>2
  <2>2. DOMAIN u' = Line0 /\ u' = [r \in Line0 |-> u'[r]]
    <3> HIDE DEF with
    <3> QED BY <1>3
  <2> QED BY <2>1, <2>2
<1>11. v' \in [Line0 -> Int]
  BY <1>3, <1>4, <1>7
<1>12. minv' \in [Line0 -> Int]
  <2>1. \A j \in Line0 : Hung!NewMin[j] \in Int
    <3> TAKE j \in Line0
    <3>1. CASE j \in Open
      BY <1>0, <3>1, NearestFound
    <3>2. CASE j \notin Open
      <4>1. Hung!NewMin[j] = minv[j]
        BY <3>2, Lines DEF Hung!NewMin, Hung!Closer, Open
      <4> QED BY <1>7, <4>1
    <3> QED BY <3>1, <3>2
  <2> QED BY <1>3, <1>4, <2>1
<1>13. \A j \in Line0 : v'[j] = IF j \in U THEN v[j] - d ELSE v[j]
  BY <1>3
<1>14. \A j \in Open : minv'[j] = Hung!NewMin[j] - d
  <2>1. \A j \in Open : j \in Line0 /\ j \notin U
    BY Lines DEF Open
  <2> QED BY <1>3, <2>1
<1> HIDE DEF U
<1> QED BY <1>3, <1>4, <1>8, <1>9, <1>10, <1>11, <1>12, <1>13, <1>14 DEF d, U

\* The reduced cost of a pair after the shift.
Shifted(r, j) == cost[r][j] - u'[r] - v'[j]

LEMMA SlackAfter ==
  ASSUME HungInv, Hung!Search, NEW j \in Line
  PROVE  /\ \A k \in used' : j \in used' => Shifted(p[k], j) = Slack(p[k], j)
         /\ \A k \in used' : j \notin used' => Shifted(p[k], j) = Slack(p[k], j) - Hung!delta
         /\ \A r \in Line : (\A k \in used' : p[k] # r) =>
              Shifted(r, j) = IF j \in used' THEN Slack(r, j) + Hung!delta ELSE Slack(r, j)
<1>0. hungAt = "search"
  BY DEF Hung!Search
<1>1. /\ HungTypes /\ row \in 1 .. N
      /\ \A k \in used' : k \in Line0 /\ p[k] \in 1 .. row
  BY <1>0, SearchState, ShiftEffect
<1>2. /\ \A k \in used' : u'[p[k]] = u[p[k]] + Hung!delta
      /\ \A r \in Line0 : (\A k \in used' : p[k] # r) => u'[r] = u[r]
      /\ v'[j] = IF j \in used' THEN v[j] - Hung!delta ELSE v[j]
      /\ Hung!delta \in Int
  BY ShiftEffect, Lines
<1>3. \A r \in Line : r \in Line0 /\ cost[r][j] \in Int /\ u[r] \in Int /\ v[j] \in Int
  <2> TAKE r \in Line
  <2>1. r \in Line0 /\ j \in Line0 /\ cost[r][j] \in -100 .. 0
    BY <1>1, Lines DEF HungTypes
  <2> QED BY <1>1, <2>1 DEF HungTypes
<1>4. \A k \in used' : p[k] \in Line
  BY <1>1, Lines DEF Line
<1> DEFINE d == Hung!delta
<1> HIDE DEF d
<1>5. ASSUME NEW k \in used'
      PROVE  /\ j \in used' => Shifted(p[k], j) = Slack(p[k], j)
             /\ j \notin used' => Shifted(p[k], j) = Slack(p[k], j) - d
  <2>1. /\ cost[p[k]][j] \in Int /\ u[p[k]] \in Int /\ v[j] \in Int /\ d \in Int
        /\ u'[p[k]] = u[p[k]] + d
        /\ v'[j] = IF j \in used' THEN v[j] - d ELSE v[j]
    BY <1>2, <1>3, <1>4 DEF d
  <2> QED BY <2>1 DEF Shifted, Slack
<1>6. ASSUME NEW r \in Line, \A k \in used' : p[k] # r
      PROVE  Shifted(r, j) = IF j \in used' THEN Slack(r, j) + d ELSE Slack(r, j)
  <2>1. /\ cost[r][j] \in Int /\ u[r] \in Int /\ v[j] \in Int /\ d \in Int
        /\ u'[r] = u[r]
        /\ v'[j] = IF j \in used' THEN v[j] - d ELSE v[j]
    BY <1>2, <1>3, <1>6 DEF d
  <2> QED BY <2>1 DEF Shifted, Slack
<1> QED BY <1>5, <1>6 DEF d

\* The shift keeps the certificate, and extends it to the row of the search.
LEMMA CertificateKept ==
  ASSUME HungInv, Hung!Search
  PROVE  /\ \A r \in 1 .. row, j \in Line : Shifted(r, j) >= 0
         /\ \A j \in Line : p[j] # 0 => Shifted(p[j], j) = 0
         /\ \A j \in Line : v'[j] <= 0
         /\ \A j \in Line : p[j] = 0 => v'[j] = 0
<1>0. hungAt = "search"
  BY DEF Hung!Search
<1>1. /\ HungTypes /\ row \in 1 .. N /\ p[0] = row
      /\ Assigned(Line, row - 1) /\ Certified(Line, 1 .. row - 1)
      /\ \A k \in used' : k \in Line0 /\ p[k] \in 1 .. row
      /\ 0 \in used'
      /\ \A j, k \in Line0 : p[j] = p[k] /\ p[j] # 0 => j = k
  BY <1>0, SearchState, ShiftEffect
<1>2. used' = used \cup {j0} /\ Hung!delta \in Int
  BY ShiftEffect
<1>3. \A j \in Line : j \in used' => Hung!delta >= 0 /\ used # {}
  <2> TAKE j \in Line
  <2> HAVE j \in used'
  <2>1. used # {}
    <3> SUFFICES ASSUME used = {} PROVE FALSE
      OBVIOUS
    <3>1. j0 = 0
      BY <1>0, FirstReduced
    <3> QED BY <1>2, <3>1, Lines
  <2> QED BY <1>0, <2>1, ChosenColumn
<1>4. \A j \in Line : j \notin used' => j \in Open
  BY <1>2 DEF Open
<1>5. ASSUME NEW r \in 1 .. row, NEW j \in Line PROVE Shifted(r, j) >= 0
  <2>0. r \in Line /\ Slack(r, j) \in Int
    <3>1. r \in Line
      BY <1>1, Lines DEF Line
    <3> QED BY <1>1, <3>1, SlackType
  <2>1. CASE \E k \in used' : p[k] = r
    <3>1. PICK k \in used' : p[k] = r
      BY <2>1
    <3>2. CASE j \in used'
      <4>1. Shifted(r, j) = Slack(r, j)
        BY <3>1, <3>2, SlackAfter
      <4>2. Slack(r, j) >= 0
        BY <1>0, <1>3, <3>2, UsedRows
      <4> QED BY <4>1, <4>2
    <3>3. CASE j \notin used'
      <4>1. Shifted(r, j) = Slack(r, j) - Hung!delta
        BY <3>1, <3>3, SlackAfter
      <4>2. Hung!delta <= Hung!NewMin[j] /\ Hung!NewMin[j] <= Slack(p[k], j) /\ Hung!NewMin[j] \in Int
        BY <1>0, <1>2, <1>4, <3>3, ChosenColumn, NearestFound
      <4> QED BY <1>2, <2>0, <3>1, <4>1, <4>2
    <3> QED BY <3>2, <3>3
  <2>2. CASE \A k \in used' : p[k] # r
    <3>1. Shifted(r, j) = IF j \in used' THEN Slack(r, j) + Hung!delta ELSE Slack(r, j)
      BY <2>0, <2>2, SlackAfter
    <3>2. r \in 1 .. row - 1
      BY <1>1, <2>2
    <3>3. Slack(r, j) >= 0
      BY <1>1, <3>2 DEF Certified
    <3> QED BY <1>2, <1>3, <2>0, <3>1, <3>3
  <2> QED BY <2>1, <2>2
<1>6. ASSUME NEW j \in Line, p[j] # 0 PROVE Shifted(p[j], j) = 0
  <2>1. Slack(p[j], j) = 0 /\ j \in Line0
    BY <1>1, <1>6, Lines DEF Certified
  <2>2. CASE j \in used'
    BY <2>1, <2>2, SlackAfter
  <2>3. CASE j \notin used'
    <3>1. \A k \in used' : p[k] # p[j]
      BY <1>1, <1>6, <2>1, <2>3
    <3>2. p[j] \in Line
      BY <1>1, <1>6, <2>1, Lines DEF HungTypes
    <3>3. Shifted(p[j], j) = Slack(p[j], j)
      BY <2>3, <3>1, <3>2, SlackAfter
    <3> QED BY <2>1, <3>3
  <2> QED BY <2>2, <2>3
<1>7. ASSUME NEW j \in Line PROVE v'[j] <= 0
  <2>1. v'[j] = (IF j \in used' THEN v[j] - Hung!delta ELSE v[j]) /\ v[j] \in Int /\ v[j] <= 0
    BY <1>1, ShiftEffect, Lines DEF HungTypes, Certified
  <2> QED BY <1>2, <1>3, <2>1
<1>8. ASSUME NEW j \in Line, p[j] = 0 PROVE v'[j] = 0
  <2>1. j \notin used'
    BY <1>1, <1>8
  <2>2. v'[j] = v[j]
    BY <2>1, ShiftEffect, Lines
  <2> QED BY <1>1, <1>8, <2>2 DEF Certified
<1> QED BY <1>5, <1>6, <1>7, <1>8

\* The tree of the used columns and j1, the next one.
LEMMA TreeGrows ==
  ASSUME HungInv, Hung!Search
  PROVE  /\ \A j \in Line \ used' : /\ way'[j] \in used' /\ minv'[j] = Shifted(p[way'[j]], j)
                                    /\ \A k \in used' : minv'[j] <= Shifted(p[k], j)
         /\ \E ord \in [Line0 -> Nat] : \A j \in (used' \cup {Hung!j1}) \ {0} :
              /\ way'[j] \in used' /\ p[way'[j]] # 0 /\ Shifted(p[way'[j]], j) = 0
              /\ ord[way'[j]] < ord[j]
<1>0. hungAt = "search"
  BY DEF Hung!Search
<1> DEFINE d == Hung!delta
           c1 == Hung!j1
<1>1. /\ HungTypes /\ row \in 1 .. N /\ j0 \notin used
      /\ \A k \in used' : k \in Line0 /\ p[k] \in 1 .. row
      /\ 0 \in used'
  BY <1>0, SearchState, ShiftEffect
<1>2. /\ used' = used \cup {j0} /\ d \in Int /\ way' = [j \in Line0 |-> Nearest(j)]
      /\ \A j \in Open : minv'[j] = Hung!NewMin[j] - d
  BY ShiftEffect
<1>3. c1 \in Open /\ d = Hung!NewMin[c1]
  BY <1>0, ChosenColumn
<1>4. \A j \in Line : (j \notin used' <=> j \in Open) /\ j \in Line0
  BY <1>2, Lines DEF Open
<1> HIDE DEF d, c1
<1>5. ASSUME NEW j \in Open
      PROVE  /\ way'[j] \in used' /\ minv'[j] = Shifted(p[way'[j]], j)
             /\ \A k \in used' : minv'[j] <= Shifted(p[k], j)
  <2>1. j \in Line /\ j \in Line0 /\ j \notin used'
    BY <1>4 DEF Open
  <2>2. /\ Nearest(j) \in used' /\ Hung!NewMin[j] = Slack(p[Nearest(j)], j)
        /\ \A k \in used' : Hung!NewMin[j] <= Slack(p[k], j)
        /\ Hung!NewMin[j] \in Int
    BY <1>0, <1>2, NearestFound
  <2>3. way'[j] = Nearest(j) /\ minv'[j] = Hung!NewMin[j] - d
    BY <1>2, <2>1
  <2>4. \A k \in used' : Shifted(p[k], j) = Slack(p[k], j) - d /\ Slack(p[k], j) \in Int
    <3> TAKE k \in used'
    <3>1. p[k] \in Line
      BY <1>1, Lines DEF Line
    <3> QED BY <1>1, <2>1, <3>1, SlackAfter, SlackType DEF d
  <2> QED BY <1>2, <2>2, <2>3, <2>4
<1>6. \A j \in used' : way'[j] = way[j]
  <2> TAKE j \in used'
  <2>1. j \in Line0 /\ j \notin Hung!Closer
    BY <1>1, <1>2 DEF Hung!Closer
  <2> QED BY <1>2, <2>1 DEF Nearest
<1>7. \E ord \in [Line0 -> Nat] : \A j \in used' \ {0} :
        /\ way[j] \in used /\ p[way[j]] # 0 /\ Slack(p[way[j]], j) = 0
        /\ ord[way[j]] < ord[j]
  <2>1. CASE used = {}
    <3>1. used' \ {0} = {}
      <4>1. 1 \in Line
        BY Lines DEF Line
      <4>2. j0 = 0
        BY <1>0, <2>1, <4>1, FirstReduced
      <4> QED BY <1>2, <2>1, <4>2
    <3>2. [j \in Line0 |-> 0] \in [Line0 -> Nat]
      OBVIOUS
    <3> QED BY <3>1, <3>2
  <2>2. CASE used # {}
    <3>1. PICK ord \in [Line0 -> Nat] :
            \A j \in (used \cup {j0}) \ {0} : OnTree(j) /\ ord[way[j]] < ord[j]
      BY <1>0, <2>2 DEF HungInv, Growing
    <3> QED BY <1>2, <3>1 DEF OnTree
  <2> QED BY <2>1, <2>2
<1>8. PICK ord \in [Line0 -> Nat] : \A j \in used' \ {0} :
        /\ way[j] \in used /\ p[way[j]] # 0 /\ Slack(p[way[j]], j) = 0
        /\ ord[way[j]] < ord[j]
  BY <1>7
<1> DEFINE new == [ord EXCEPT ![c1] = ord[way'[c1]] + 1]
<1>9. c1 \in Line /\ c1 \in Line0 /\ c1 \notin used' /\ way'[c1] \in used' /\ way'[c1] \in Line0
  <2>1. c1 \in Line
    BY <1>3 DEF Open
  <2> QED BY <1>1, <1>3, <1>4, <1>5, <2>1
<1>10. new \in [Line0 -> Nat] /\ new[c1] = ord[way'[c1]] + 1 /\ \A j \in Line0 : j # c1 => new[j] = ord[j]
  BY <1>9
<1> HIDE DEF new
<1>11. ASSUME NEW j \in (used' \cup {c1}) \ {0}
       PROVE  /\ way'[j] \in used' /\ p[way'[j]] # 0 /\ Shifted(p[way'[j]], j) = 0
              /\ new[way'[j]] < new[j]
  <2>1. CASE j = c1
    <3>1. p[way'[c1]] # 0
      BY <1>1, <1>9
    <3>2. Shifted(p[way'[c1]], c1) = 0
      BY <1>2, <1>3, <1>5
    <3>3. new[way'[c1]] < new[c1]
      BY <1>9, <1>10
    <3> QED BY <1>9, <2>1, <3>1, <3>2, <3>3
  <2>2. CASE j # c1
    <3>1. j \in used' \ {0} /\ j \in Line /\ j \in Line0
      BY <1>1, <2>2, Lines
    <3>2. /\ way'[j] \in used' /\ p[way'[j]] # 0 /\ Slack(p[way'[j]], j) = 0
          /\ ord[way'[j]] < ord[j]
      BY <1>2, <1>6, <1>8, <3>1
    <3>3. Shifted(p[way'[j]], j) = 0
      BY <3>1, <3>2, SlackAfter
    <3>4. way'[j] # c1 /\ way'[j] \in Line0
      BY <1>1, <1>9, <3>2
    <3> QED BY <1>10, <2>2, <3>1, <3>2, <3>3, <3>4
  <2> QED BY <2>1, <2>2
<1>12. \A j \in Line \ used' : j \in Open
  BY <1>4
<1> QED BY <1>5, <1>10, <1>11, <1>12 DEF c1

LEMMA SearchStep ==
  ASSUME HungInv, Hung!Search
  PROVE  HungInv'
<1> DEFINE d == Hung!delta
           c1 == Hung!j1
<1>0. hungAt = "search"
  BY DEF Hung!Search
<1>1. /\ HungTypes /\ row \in 1 .. N /\ p[0] = row
      /\ Assigned(Line, row - 1) /\ Certified(Line, 1 .. row - 1)
      /\ \A k \in used' : k \in Line0 /\ p[k] \in 1 .. row
      /\ 0 \in used'
      /\ \A j, k \in Line0 : p[j] = p[k] /\ p[j] # 0 => j = k
  BY <1>0, SearchState, ShiftEffect
<1>2. /\ used' = used \cup {j0} /\ d \in Int
      /\ cost' = cost /\ p' = p /\ row' = row /\ j0' = c1
      /\ hungAt' = IF p[c1] = 0 THEN "flip" ELSE "search"
      /\ way' = [j \in Line0 |-> Nearest(j)]
      /\ u' \in [Line0 -> Int] /\ v' \in [Line0 -> Int] /\ minv' \in [Line0 -> Int]
      /\ \A k \in used' : u'[p[k]] = u[p[k]] + d
      /\ \A r \in Line0 : (\A k \in used' : p[k] # r) => u'[r] = u[r]
      /\ v'[0] = v[0] - d
  BY <1>1, ShiftEffect, Lines
<1>3. c1 \in Line /\ c1 \in Line0 /\ c1 \notin used' /\ c1 # 0
      /\ d >= IF used = {} THEN -Largest ELSE 0
  <2>1. c1 \in Open
    BY <1>0, ChosenColumn
  <2> QED BY <1>0, <1>2, <2>1, ChosenColumn, Lines DEF Open
<1> HIDE DEF c1, d
<1>4. Largest \in 1 .. 100 /\ Largest' = Largest
  BY <1>1, <1>2, LargestBounds DEF Largest, Hung!Largest, Hung!Line
<1>5. HungTypes'
  <2>1. \A j \in Line0 : Nearest(j) \in Line0
    BY <1>1 DEF Nearest, HungTypes
  <2>2. way' \in [Line0 -> Line0]
    BY <1>2, <2>1
  <2>3. used' \in SUBSET Line0 /\ hungAt' \in {"rows", "search", "flip", "done"} /\ row' \in 1 .. N + 1
    BY <1>1, <1>2 DEF HungTypes
  <2> QED BY <1>1, <1>2, <1>3, <2>2, <2>3 DEF HungTypes
<1>6. /\ \A r \in 1 .. row, j \in Line : Shifted(r, j) >= 0
      /\ \A j \in Line : p[j] # 0 => Shifted(p[j], j) = 0
      /\ \A j \in Line : v'[j] <= 0
      /\ \A j \in Line : p[j] = 0 => v'[j] = 0
  BY CertificateKept
<1>7. \A r \in Line0 : r = 0 \/ r > row => u'[r] = 0
  <2> SUFFICES ASSUME NEW r \in Line0, r = 0 \/ r > row PROVE u'[r] = 0
    OBVIOUS
  <2>1. \A k \in used' : p[k] # r
    BY <1>1, Lines
  <2>2. u[r] = 0
    BY <1>0 DEF HungInv, Growing
  <2> QED BY <1>2, <2>1, <2>2
<1>8. /\ u[row] \in Int /\ u'[row] = u[row] + d
      /\ v[0] + u[row] \in 0 .. (row - 1) * Largest
      /\ v'[0] + u'[row] = v[0] + u[row] /\ v[0] \in Int
  <2>1. u'[p[0]] = u[p[0]] + d
    BY <1>1, <1>2
  <2>2. u[row] \in Int /\ v[0] \in Int
    <3>1. row \in Line0 /\ 0 \in Line0
      BY <1>1, Lines DEF Line0
    <3> QED BY <1>1, <3>1 DEF HungTypes
  <2>3. v[0] + u[row] \in 0 .. (row - 1) * Largest
    BY <1>0 DEF HungInv, Growing
  <2> QED BY <1>1, <1>2, <2>1, <2>2, <2>3
<1>9. u'[row] >= -Largest
  <2>1. CASE used = {}
    <3>1. u[row] = 0
      BY <1>0, <2>1, <1>3, FirstReduced
    <3> QED BY <1>2, <1>3, <1>4, <1>8, <2>1, <3>1
  <2>2. CASE used # {}
    <3>1. u[row] >= -Largest
      BY <1>0, <2>2, UsedRows
    <3> QED BY <1>2, <1>3, <1>4, <1>8, <2>2, <3>1
  <2> QED BY <2>1, <2>2
<1>10. PICK ord \in [Line0 -> Nat] : \A j \in (used' \cup {c1}) \ {0} :
         /\ way'[j] \in used' /\ p[way'[j]] # 0 /\ Shifted(p[way'[j]], j) = 0
         /\ ord[way'[j]] < ord[j]
  BY TreeGrows DEF c1
<1>11. \A j \in (used' \cup {j0'}) \ {0} : OnTree(j)' /\ ord[way'[j]] < ord[j]
  BY <1>2, <1>10 DEF OnTree, Slack, Shifted
<1>12. \A j \in Line : p[j] <= row - 1
  BY <1>1 DEF Assigned
<1>13. CASE p[c1] # 0
  <2>1. hungAt' = "search" /\ row' <= N /\ p'[0] = row'
    BY <1>1, <1>2, <1>13, Lines
  <2>2. Assigned(Line, row - 1)'
    BY <1>1, <1>2 DEF Assigned
  <2>3. Certified(Line, 1 .. row - 1)'
    <3>1. \A r \in 1 .. row - 1 : r \in 1 .. row
      BY <1>1
    <3> QED BY <1>2, <1>6, <3>1 DEF Certified, Slack, Shifted
  <2>4. v'[0] + u'[row'] \in 0 .. (row' - 1) * Largest'
    BY <1>2, <1>4, <1>8
  <2>5. j0' \notin used' /\ \A j \in used' \cup {j0'} : p'[j] # 0
    BY <1>1, <1>2, <1>3, <1>13
  <2>6. \A j \in Line : Slack(row, j)' >= 0
    <3>1. row \in 1 .. row
      BY <1>1
    <3> QED BY <1>2, <1>6, <3>1 DEF Slack, Shifted
  <2>7. \A j \in Line \ used' : /\ way'[j] \in used' /\ minv'[j] = Slack(p[way[j]], j)'
                                /\ \A k \in used' : minv'[j] <= Slack(p[k], j)'
    BY <1>2, TreeGrows DEF Slack, Shifted
  <2>8. \E o \in [Line0 -> Nat] : \A j \in (used' \cup {j0'}) \ {0} : OnTree(j)' /\ o[way'[j]] < o[j]
    BY <1>11
  <2>9. \A r \in Line0 : r = 0 \/ r > row' => u'[r] = 0
    BY <1>2, <1>7
  <2>10. 0 \in used' /\ u'[row'] >= -Largest'
    BY <1>1, <1>2, <1>4, <1>9
  <2>11. Growing'
    BY <2>1, <2>2, <2>3, <2>4, <2>5, <2>6, <2>7, <2>8, <2>9, <2>10 DEF Growing
  <2> QED BY <1>5, <2>1, <2>11 DEF HungInv, RowsSoFar, Flipping
<1>14. CASE p[c1] = 0
  <2>1. hungAt' = "flip" /\ row' <= N /\ j0' # 0
    BY <1>1, <1>2, <1>3, <1>14, Lines
  <2>2. Assigned(Line0 \ {j0}, row)'
    <3>1. \A j \in Line0 \ {c1} : p[j] <= row
      <4> TAKE j \in Line0 \ {c1}
      <4>1. CASE j = 0
        BY <1>1, <4>1
      <4>2. CASE j \in Line
        <5>1. p[j] \in Nat /\ p[j] <= row - 1
          BY <1>1, <1>12, <4>2, Lines DEF HungTypes, Line0
        <5> QED BY <1>1, <5>1
      <4> QED BY <4>1, <4>2, Lines
    <3>2. ASSUME NEW r \in 1 .. row PROVE \E j \in Line0 \ {c1} : p[j] = r
      <4>1. CASE r = row
        BY <1>1, <1>3, <4>1, Lines
      <4>2. CASE r # row
        <5>1. r \in 1 .. row - 1
          BY <1>1, <4>2
        <5>2. PICK j \in Line : p[j] = r
          BY <1>1, <5>1 DEF Assigned
        <5>3. j # c1
          BY <1>14, <5>1, <5>2
        <5> QED BY <5>2, <5>3, Lines
      <4> QED BY <4>1, <4>2
    <3> QED BY <1>1, <1>2, <3>1, <3>2 DEF Assigned
  <2>3. Certified(Line \ {j0}, 1 .. row)'
    BY <1>2, <1>6 DEF Certified, Slack, Shifted
  <2>4. /\ \A r \in 1 .. row - 1 : u'[r] \in -Largest .. 0
        /\ \A j \in Line : v'[j] \in -Largest .. 0
    <3> DEFINE forRow == u'
               forColumn == v'
    <3>1. row - 1 \in 0 .. N
      BY <1>1, Lines
    <3>2. \A r \in 1 .. row - 1 : r \in 1 .. row
      BY <1>1
    <3>3. Certificate(p, forRow, forColumn, row - 1)
      BY <1>1, <1>6, <3>2 DEF Certificate, Assigned, Shifted
    <3>4. p \in [Line0 -> Line0] /\ forRow \in [Line0 -> Int] /\ forColumn \in [Line0 -> Int]
      BY <1>1, <1>2 DEF HungTypes
    <3> HIDE DEF forRow, forColumn
    <3>5. /\ \A r \in 1 .. row - 1 : forRow[r] \in -Largest .. 0
          /\ \A j \in Line : forColumn[j] \in -Largest .. 0
      BY <1>1, <1>3, <1>14, <3>1, <3>3, <3>4, PotentialBounds
    <3> QED BY <3>5 DEF forRow, forColumn
  <2>5. u'[row] \in -Largest .. 0
    <3>1. row \in 1 .. row /\ row \in Line
      BY <1>1 DEF Line
    <3>2. cost[row][c1] - u'[row] - v'[c1] >= 0 /\ v'[c1] = 0
      BY <1>3, <1>6, <1>14, <3>1 DEF Shifted
    <3>3. cost[row][c1] \in -Largest .. 0
      BY <1>1, <1>3, <3>1, LargestBounds
    <3>4. u'[row] \in Int
      BY <1>2, <1>8
    <3> QED BY <1>4, <1>9, <3>2, <3>3, <3>4
  <2>6. \A r \in Line0 : u'[r] \in -Largest .. 0
    <3> TAKE r \in Line0
    <3>1. CASE r = 0 \/ r > row
      BY <1>4, <1>7, <3>1
    <3>2. CASE r = row
      BY <2>5, <3>2
    <3>3. CASE r # 0 /\ r < row
      <4>1. r \in 1 .. row - 1
        BY <1>1, <3>3 DEF Line0
      <4> QED BY <2>4, <4>1
    <3> QED BY <1>1, <3>1, <3>2, <3>3 DEF Line0
  <2>7. v'[0] \in 0 .. row * Largest
    <3>1. v'[0] \in Int /\ u'[row] \in Int /\ v'[0] + u'[row] \in 0 .. (row - 1) * Largest
      BY <1>2, <1>8, Lines
    <3>2. (row - 1) * Largest + Largest = row * Largest /\ (row - 1) * Largest \in Int /\ row * Largest \in Int
      BY <1>1, <1>4
    <3> QED BY <1>4, <2>5, <3>1, <3>2
  <2>8. Bounded(row)'
    BY <1>2, <1>4, <2>4, <2>6, <2>7 DEF Bounded
  <2>9. \A r \in Line0 : r = 0 \/ r > row' => u'[r] = 0
    BY <1>2, <1>7
  <2>10. \E o \in [Line0 -> Nat] : \A j \in (used' \cup {j0'}) \ {0} :
           o[j] <= o[j0'] => OnTree(j)' /\ o[way'[j]] < o[j]
    BY <1>11
  <2>11. Flipping'
    BY <2>1, <2>2, <2>3, <2>8, <2>9, <2>10 DEF Flipping
  <2> QED BY <1>5, <2>1, <2>11 DEF HungInv, RowsSoFar, Growing
<1> QED BY <1>13, <1>14

LEMMA Products ==
  ASSUME NEW n \in Nat, NEW k \in 0 .. n, n > 0, NEW m \in Nat
  PROVE  m <= n * m /\ k * m <= n * m /\ n * m \in Nat /\ k * m \in Nat
<1>1. n * m = m + (n - 1) * m /\ (n - 1) * m \in Nat
  <2>1. n - 1 \in Nat
    OBVIOUS
  <2> QED BY <2>1
<1>2. n * m = k * m + (n - k) * m /\ (n - k) * m \in Nat /\ k * m \in Nat
  <2>1. n - k \in Nat /\ k \in Nat
    OBVIOUS
  <2> QED BY <2>1
<1> QED BY <1>1, <1>2

LEMMA HungStep == HungInv /\ [Hung!Next]_Hung!vars => HungInv'
<1> SUFFICES ASSUME HungInv, [Hung!Next]_Hung!vars PROVE HungInv'
  OBVIOUS
<1>1. CASE Hung!StartRow
  BY <1>1, StartRowStep
<1>2. CASE Hung!Search
  BY <1>2, SearchStep
<1>3. CASE Hung!Flip
  BY <1>3, FlipStep
<1>4. CASE Hung!Finish
  BY <1>4, FinishStep
<1>5. CASE UNCHANGED Hung!vars
  <2>1. /\ cost' = cost /\ u' = u /\ v' = v /\ p' = p /\ way' = way /\ row' = row
        /\ j0' = j0 /\ minv' = minv /\ used' = used /\ hungAt' = hungAt
    BY <1>5 DEF Hung!vars
  <2>2. Largest' = Largest
    BY <2>1 DEF Largest, Hung!Largest, Hung!Line
  <2>3. HungTypes'
    BY <2>1 DEF HungInv, HungTypes
  <2>4. RowsSoFar'
    BY <2>1, <2>2 DEF HungInv, RowsSoFar, Assigned, Certified, Slack, Bounded
  <2>5. Growing'
    BY <2>1, <2>2 DEF HungInv, Growing, Assigned, Certified, Slack, OnTree
  <2>6. Flipping'
    BY <2>1, <2>2 DEF HungInv, Flipping, Assigned, Certified, Slack, Bounded, OnTree
  <2> QED BY <2>3, <2>4, <2>5, <2>6 DEF HungInv
<1> QED BY <1>1, <1>2, <1>3, <1>4, <1>5 DEF Hung!Next

LEMMA RunsHungarian == Spec => COMPAT \in Tables /\ Hung!Init(COMPAT) /\ [][Hung!Next]_Hung!vars
<1>1. Init => COMPAT \in Tables /\ Hung!Init(COMPAT)
  BY DEF Init
<1>2. [Next]_vars => [Hung!Next]_Hung!vars
  BY DEF Next, runGaleShapley, runHopcroftKarp, runHungarian, runBlossom, vars, hung, Hung!vars
<1> QED BY <1>1, <1>2, PTL DEF Spec

LEMMA HungInvariant == Spec => []HungInv
<1>1. COMPAT \in Tables /\ Hung!Init(COMPAT) => HungInv
  BY HungStart
<1> QED BY <1>1, HungStep, RunsHungarian, PTL

\* Between two rows of solve() the rows so far are assigned, each to a column
\* of its own, and the potentials prove that no assignment of them costs less;
\* the potentials stay far below numeric_limits<int>::max() / 2.
THEOREM PotentialsAreACertificate == Spec => []PotentialsProveOptimality
<1>1. HungInv => PotentialsProveOptimality
  <2> SUFFICES ASSUME HungInv, hungAt = "rows" PROVE PotentialsProveOptimality
    BY DEF PotentialsProveOptimality, Hung!PotentialsProveOptimality
  <2> DEFINE L == Largest
             n == row - 1
             B == 2 * N * L
  <2>1. /\ HungTypes /\ Assigned(Line, n) /\ Certified(Line, 1 .. n) /\ Bounded(n)
    BY DEF HungInv, RowsSoFar
  <2>2. L \in 1 .. 100 /\ N \in Nat /\ N > 0 /\ n \in 0 .. N
    <3>1. L \in 1 .. 100
      BY <2>1, LargestBounds
    <3>2. n \in 0 .. N
      BY <2>1, Lines DEF HungTypes
    <3> QED BY <3>1, <3>2, Lines
  <2>3. cost \in [Line -> [Line -> -100 .. 0]] /\ u \in [Line0 -> Int] /\ v \in [Line0 -> Int] /\ p \in [Line0 -> Line0]
    BY <2>1 DEF HungTypes
  <2> HIDE DEF n
  <2>4. \A r \in 1 .. n : \E j \in Line : p[j] = r
    BY <2>1 DEF Assigned
  <2>5. ASSUME NEW r \in 1 .. n, NEW j \in Line PROVE u[r] + v[j] <= cost[r][j]
    <3>1. r \in Line
      BY <2>2 DEF Line
    <3>2. r \in Line0 /\ j \in Line0 /\ cost[r][j] \in Int
      BY <2>3, <3>1, Lines
    <3>3. u[r] \in Int /\ v[j] \in Int /\ cost[r][j] - u[r] - v[j] >= 0
      BY <2>1, <2>3, <3>2 DEF Certified, Slack
    <3> QED BY <3>2, <3>3
  <2>6. ASSUME NEW j \in Line, p[j] # 0 PROVE u[p[j]] + v[j] = cost[p[j]][j]
    <3>1. p[j] \in Line /\ p[j] \in Line0 /\ j \in Line0
      BY <2>3, <2>6, Lines
    <3>2. cost[p[j]][j] \in Int
      <4>1. ASSUME NEW r \in Line PROVE cost[r][j] \in Int
        <5>1. cost[r] \in [Line -> -100 .. 0]
          BY <2>3
        <5>2. cost[r][j] \in -100 .. 0
          BY <2>6, <5>1
        <5> QED BY <5>2
      <4> QED BY <3>1, <4>1
    <3>3. u[p[j]] \in Int /\ v[j] \in Int /\ cost[p[j]][j] - u[p[j]] - v[j] = 0
      BY <2>1, <2>3, <2>6, <3>1 DEF Certified, Slack
    <3> QED BY <3>2, <3>3
  <2>7. \A j \in Line : v[j] <= 0 /\ (p[j] = 0 => v[j] = 0)
    BY <2>1 DEF Certified
  <2>8. ASSUME NEW k \in Line0 PROVE {u[k], v[k]} \subseteq -B .. B
    <3>1. u[k] \in -L .. 0
      BY <2>1 DEF Bounded
    <3>2. v[k] \in -L .. 0 \/ v[k] \in 0 .. n * L
      BY <2>1, Lines DEF Bounded
    <3> HIDE DEF L
    <3>3. L <= N * L /\ n * L <= N * L /\ N * L \in Nat /\ n * L \in Nat
      BY <2>2, Products
    <3>4. B = N * L + N * L
      BY <2>2
    <3> DEFINE X == N * L
               Y == n * L
    <3> HIDE DEF X, Y, B
    <3>5. L \in Nat /\ L <= X /\ Y <= X /\ X \in Nat /\ Y \in Nat /\ B = X + X /\ (v[k] \in -L .. 0 \/ v[k] \in 0 .. Y)
      BY <2>2, <3>2, <3>3, <3>4 DEF X, Y
    <3>6. u[k] \in -B .. B
      BY <3>1, <3>5
    <3>7. v[k] \in -B .. B
      BY <3>5
    <3> QED BY <3>6, <3>7
  <2>9. Hung!Line = Line /\ Hung!Line0 = Line0
    BY Lines
  <2> HIDE DEF L, B
  <2>10. /\ \A r \in 1 .. row - 1 : \E j \in Line : p[j] = r
         /\ \A r \in 1 .. row - 1, j \in Line : u[r] + v[j] <= cost[r][j]
         /\ \A j \in Line : p[j] # 0 => u[p[j]] + v[j] = cost[p[j]][j]
         /\ \A j \in Line : v[j] <= 0 /\ (p[j] = 0 => v[j] = 0)
         /\ \A k \in Line0 : {u[k], v[k]} \subseteq -B .. B
    BY <2>4, <2>5, <2>6, <2>7, <2>8 DEF n
  <2>11. B = 2 * N * Hung!Largest
    BY DEF B, L, Largest
  <2> QED BY <2>9, <2>10, <2>11 DEF PotentialsProveOptimality, Hung!PotentialsProveOptimality
<1> QED BY <1>1, HungInvariant, PTL

-----------------------------------------------------------------------------
(* Sums *)

\* g is what MapThenSumSet computes: it takes one element away at a time.
SumFold(g, f, S) ==
  g = [A \in SUBSET S |-> IF A = {} THEN 0
                          ELSE f[CHOOSE x \in A : TRUE] + g[A \ {CHOOSE x \in A : TRUE}]]

\* g[A] is the sum of f over A, in whatever order the elements are taken.
SumOn(g, f, S) ==
  /\ g \in [SUBSET S -> Int] /\ g[{}] = 0
  /\ \A A \in SUBSET S : \A x \in A : g[A] = f[x] + g[A \ {x}]

\* What takes the place of induction on finite sets.
LEMMA LeastSet ==
  ASSUME NEW S, IsFiniteSet(S), NEW T \in SUBSET (SUBSET S), T # {}
  PROVE  \E A \in T : \A B \in T : ~(B \subseteq A /\ B # A)
<1> DEFINE K == {Cardinality(A) : A \in T}
<1>1. \A A \in T : IsFiniteSet(A) /\ Cardinality(A) \in Nat
  BY FS_Subset, FS_CardinalityType
<1>2. K \in SUBSET Nat /\ K # {}
  BY <1>1
<1>3. PICK n \in K : \A k \in K : n <= k
  <2> HIDE DEF K
  <2> QED BY <1>2, LeastElement
<1>4. PICK A \in T : n = Cardinality(A)
  OBVIOUS
<1>5. ASSUME NEW B \in T, B \subseteq A, B # A PROVE FALSE
  <2>1. Cardinality(B) < Cardinality(A)
    BY <1>1, <1>5, FS_Subset
  <2>2. Cardinality(A) <= Cardinality(B)
    BY <1>3, <1>4
  <2> QED BY <1>1, <2>1, <2>2
<1> QED BY <1>5

LEMMA SumExists ==
  ASSUME NEW S, IsFiniteSet(S), NEW f \in [S -> Int]
  PROVE  \E g : SumFold(g, f, S)
<1> DEFINE pick == [A \in SUBSET S |-> CHOOSE x \in A : TRUE]
           op == [z \in S \X Int |-> f[z[1]] + z[2]]
<1>1. \A A \in SUBSET S : A # {} => pick[A] \in A
  OBVIOUS
<1>2. op \in [S \X Int -> Int] /\ 0 \in Int
  OBVIOUS
<1>3. \E g \in [SUBSET S -> Int] : FoldOf(g, S, 0, pick, op)
  <2> HIDE DEF op, pick
  <2> QED BY <1>1, <1>2, FoldExists
<1>4. PICK g \in [SUBSET S -> Int] : FoldOf(g, S, 0, pick, op)
  BY <1>3
<1>5. ASSUME NEW A \in SUBSET S
      PROVE  g[A] = IF A = {} THEN 0
                    ELSE f[CHOOSE x \in A : TRUE] + g[A \ {CHOOSE x \in A : TRUE}]
  <2>1. CASE A = {}
    BY <1>4, <2>1 DEF FoldOf
  <2>2. CASE A # {}
    <3>1. pick[A] \in S /\ g[A \ {pick[A]}] \in Int /\ pick[A] = CHOOSE x \in A : TRUE
      BY <1>1, <1>4, <2>2
    <3>2. g[A] = op[<<pick[A], g[A \ {pick[A]}]>>]
      BY <1>4, <2>2 DEF FoldOf
    <3>3. op[<<pick[A], g[A \ {pick[A]}]>>] = f[pick[A]] + g[A \ {pick[A]}]
      <4> HIDE DEF pick
      <4> QED BY <3>1
    <3> QED BY <2>2, <3>1, <3>2, <3>3
  <2> QED BY <2>1, <2>2
<1> QED BY <1>4, <1>5 DEF SumFold

\* The order does not matter.
LEMMA SumInAnyOrder ==
  ASSUME NEW S, IsFiniteSet(S), NEW f \in [S -> Int], NEW g, SumFold(g, f, S)
  PROVE  SumOn(g, f, S)
<1> DEFINE c(A) == CHOOSE x \in A : TRUE
           Typed == {A \in SUBSET S : g[A] \notin Int}
           Wrong == {A \in SUBSET S : \E x \in A : g[A] # f[x] + g[A \ {x}]}
<1>1. g[{}] = 0 /\ \A A \in SUBSET S : A # {} => g[A] = f[c(A)] + g[A \ {c(A)}]
  BY DEF SumFold
<1>2. \A A \in SUBSET S : A # {} => c(A) \in A /\ f[c(A)] \in Int
  OBVIOUS
<1> HIDE DEF c
<1>3. Typed = {}
  <2> SUFFICES ASSUME Typed # {} PROVE FALSE
    OBVIOUS
  <2>1. PICK A \in Typed : \A B \in Typed : ~(B \subseteq A /\ B # A)
    <3>1. Typed \in SUBSET (SUBSET S)
      OBVIOUS
    <3> HIDE DEF Typed
    <3> QED BY <3>1, LeastSet
  <2>2. A # {}
    <3> SUFFICES ASSUME A = {} PROVE FALSE
      OBVIOUS
    <3>1. g[A] = 0
      BY <1>1
    <3> QED BY <3>1
  <2>3. A \ {c(A)} \notin Typed /\ A \ {c(A)} \in SUBSET S
    BY <1>2, <2>1, <2>2
  <2> QED BY <1>1, <1>2, <2>2, <2>3
<1>4. \A A \in SUBSET S : g[A] \in Int
  BY <1>3
<1>5. Wrong = {}
  <2> SUFFICES ASSUME Wrong # {} PROVE FALSE
    OBVIOUS
  <2>1. PICK A \in Wrong : \A B \in Wrong : ~(B \subseteq A /\ B # A)
    <3>1. Wrong \in SUBSET (SUBSET S)
      OBVIOUS
    <3> HIDE DEF Wrong
    <3> QED BY <3>1, LeastSet
  <2>2. PICK x \in A : g[A] # f[x] + g[A \ {x}]
    OBVIOUS
  <2> DEFINE y == c(A)
  <2>3. /\ y \in A /\ x \in A /\ A \in SUBSET S /\ f[x] \in Int /\ f[y] \in Int
        /\ g[A] = f[y] + g[A \ {y}]
    BY <1>1, <1>2, <2>2
  <2> HIDE DEF y
  <2>4. x # y
    BY <2>2, <2>3
  <2>5. A \ {y} \notin Wrong /\ A \ {x} \notin Wrong
    BY <2>1, <2>3
  <2>6. g[A \ {y}] = f[x] + g[(A \ {y}) \ {x}]
    BY <2>3, <2>4, <2>5
  <2>7. g[A \ {x}] = f[y] + g[(A \ {x}) \ {y}]
    BY <2>3, <2>4, <2>5
  <2>8. (A \ {y}) \ {x} = (A \ {x}) \ {y} /\ g[(A \ {x}) \ {y}] \in Int
    BY <1>4, <2>3
  <2>9. ASSUME NEW z \in Int, z = g[(A \ {x}) \ {y}] PROVE FALSE
    <3>1. g[A] = f[y] + (f[x] + z) /\ g[A \ {x}] = f[y] + z
      BY <2>3, <2>6, <2>7, <2>8, <2>9
    <3>2. f[y] + (f[x] + z) = f[x] + (f[y] + z)
      BY <2>3
    <3> QED BY <2>2, <3>1, <3>2
  <2> QED BY <2>8, <2>9
<1>6. g \in [SUBSET S -> Int]
  BY <1>4 DEF SumFold
<1> QED BY <1>1, <1>5, <1>6 DEF SumOn

LEMMA SumsCompare ==
  ASSUME NEW S, IsFiniteSet(S), NEW f \in [S -> Int], NEW k \in [S -> Int],
         NEW g, SumOn(g, f, S), NEW h, SumOn(h, k, S), \A x \in S : f[x] <= k[x]
  PROVE  g[S] <= h[S]
<1> DEFINE Wrong == {A \in SUBSET S : ~(g[A] <= h[A])}
<1>1. Wrong = {}
  <2> SUFFICES ASSUME Wrong # {} PROVE FALSE
    OBVIOUS
  <2>1. PICK A \in Wrong : \A B \in Wrong : ~(B \subseteq A /\ B # A)
    <3>1. Wrong \in SUBSET (SUBSET S)
      OBVIOUS
    <3> HIDE DEF Wrong
    <3> QED BY <3>1, LeastSet
  <2>2. A # {}
    <3> SUFFICES ASSUME A = {} PROVE FALSE
      OBVIOUS
    <3>1. g[A] = 0 /\ h[A] = 0
      BY DEF SumOn
    <3> QED BY <3>1
  <2>3. PICK x \in A : TRUE
    BY <2>2
  <2>4. A \ {x} \notin Wrong /\ A \ {x} \in SUBSET S /\ x \in S
    BY <2>1, <2>3
  <2>5. g[A \ {x}] <= h[A \ {x}] /\ g[A \ {x}] \in Int /\ h[A \ {x}] \in Int
    BY <2>4 DEF SumOn
  <2>6. g[A] = f[x] + g[A \ {x}] /\ h[A] = k[x] + h[A \ {x}]
    BY <2>3, <2>4, Zenon DEF SumOn
  <2>7. f[x] \in Int /\ k[x] \in Int /\ f[x] <= k[x]
    BY <2>4
  <2> QED BY <2>5, <2>6, <2>7
<1> QED BY <1>1

\* both is the sum of f and k, k taken at m[x].
AddsUp(both, f, k, m, S) == \A x \in S : both[x] = f[x] + k[m[x]]

LEMMA SumsAdd ==
  ASSUME NEW S, NEW f \in [S -> Int], NEW k \in [S -> Int], NEW both \in [S -> Int],
         NEW g, SumOn(g, f, S), NEW h, SumOn(h, k, S), AddsUp(both, f, k, [x \in S |-> x], S)
  PROVE  \E e : SumOn(e, both, S) /\ e[S] = g[S] + h[S]
<1> DEFINE e == [A \in SUBSET S |-> g[A] + h[A]]
<1>1. \A A \in SUBSET S : g[A] \in Int /\ h[A] \in Int
  BY DEF SumOn
<1>2. e \in [SUBSET S -> Int] /\ e[{}] = 0
  BY <1>1 DEF SumOn
<1>3. ASSUME NEW A \in SUBSET S, NEW x \in A PROVE e[A] = both[x] + e[A \ {x}]
  <2>0. both[x] = f[x] + k[x]
    BY DEF AddsUp
  <2>1. g[A] = f[x] + g[A \ {x}] /\ h[A] = k[x] + h[A \ {x}]
    BY Zenon DEF SumOn
  <2>2. f[x] \in Int /\ k[x] \in Int /\ g[A \ {x}] \in Int /\ h[A \ {x}] \in Int
    BY <1>1
  <2> QED BY <2>0, <2>1, <2>2
<1>4. e[S] = g[S] + h[S]
  OBVIOUS
<1> HIDE DEF e
<1> QED BY <1>2, <1>3, <1>4 DEF SumOn

LEMMA SumReindexed ==
  ASSUME NEW S, NEW T, NEW b1 \in Bijection(S, T),
         NEW f, NEW g, SumOn(g, f, T), NEW k, \A x \in S : k[x] = f[b1[x]]
  PROVE  \E h : SumOn(h, k, S) /\ h[S] = g[T]
<1>0. b1 \in [S -> T] /\ (\A x, y \in S : b1[x] = b1[y] => x = y) /\ \A y \in T : \E x \in S : b1[x] = y
  BY DEF Bijection, Injection, Surjection, IsInjective
<1> DEFINE h == [A \in SUBSET S |-> g[{b1[x] : x \in A}]]
<1>1. \A A \in SUBSET S : {b1[x] : x \in A} \in SUBSET T
  BY <1>0
<1>2. h \in [SUBSET S -> Int] /\ h[{}] = 0
  <2>1. {b1[x] : x \in {}} = {}
    OBVIOUS
  <2> QED BY <1>1, <2>1 DEF SumOn
<1>3. ASSUME NEW A \in SUBSET S, NEW x \in A PROVE h[A] = k[x] + h[A \ {x}]
  <2>1. {b1[y] : y \in A \ {x}} = {b1[y] : y \in A} \ {b1[x]}
    BY <1>0
  <2>2. b1[x] \in {b1[y] : y \in A} /\ {b1[y] : y \in A} \in SUBSET T
    BY <1>0
  <2>3. g[{b1[y] : y \in A}] = f[b1[x]] + g[{b1[y] : y \in A} \ {b1[x]}]
    BY <2>2 DEF SumOn
  <2> QED BY <2>1, <2>3
<1>4. h[S] = g[T]
  <2>1. {b1[x] : x \in S} = T
    BY <1>0
  <2> QED BY <2>1
<1> HIDE DEF h
<1> QED BY <1>2, <1>3, <1>4 DEF SumOn

-----------------------------------------------------------------------------
(* Hungarian: the result *)

ScoreOf(m) == [x \in Index |-> COMPAT[x][m[x]]]
ColumnGains == [j \in Line |-> -cost[p[j]][j]]

CostsNegated == cost = [r \in Line |-> [c \in Line |-> -COMPAT[r - 1][c - 1]]]

\* assignment_ is read off the columns.
AssignmentRead ==
  assignment = [r \in Index |-> IF \E j \in Line : p[j] = r + 1
                                  THEN (CHOOSE j \in Line : p[j] = r + 1) - 1 ELSE -1]

MatchedScore ==
  MapThenSumSet(LAMBDA m : COMPAT[m][assignment[m]], {m \in Index : assignment[m] # -1})

\* What solve() computes from the last assignment, and what is reported of it.
HungResult ==
  /\ COMPAT \in Tables
  /\ CostsNegated
  /\ hungAt = "done" =>
       /\ Assigned(Line, N) /\ Certified(Line, Line)
       /\ AssignmentRead
       /\ \E g : SumOn(g, ColumnGains, Line) /\ maxScore = g[Line]
  /\ Reported("Hungarian") =>
       /\ hungAt = "done"
       /\ results["Hungarian"].matchM = assignment
       /\ results["Hungarian"].totalScore = MatchedScore

LEMMA LineFinite == IsFiniteSet(Line)
<1>1. N \in Int
  BY NumberOfPeople
<1> QED BY <1>1, FS_Interval DEF Line

LEMMA TotalIsSum ==
  ASSUME COMPAT \in Tables, NEW m \in [Index -> Index]
  PROVE  /\ ScoreOf(m) \in [Index -> Int]
         /\ \E g : SumOn(g, ScoreOf(m), Index) /\ Total(m) = g[Index]
<1>1. \A x \in Index : COMPAT[x][m[x]] \in Int
  <2> TAKE x \in Index
  <2>1. COMPAT \in [Index -> [Index -> 0 .. 100]] /\ m[x] \in Index
    BY RunnersAssumption DEF Index
  <2>2. COMPAT[x][m[x]] \in 0 .. 100
    BY <2>1
  <2> QED BY <2>2
<1>2. IsFiniteSet(Index) /\ ScoreOf(m) \in [Index -> Int]
  BY <1>1, NumberOfPeople, IndexFinite DEF ScoreOf
<1> DEFINE Solves(g) == g = [A \in SUBSET Index |->
                               IF A = {} THEN 0
                               ELSE COMPAT[CHOOSE x \in A : TRUE][m[CHOOSE x \in A : TRUE]]
                                      + g[A \ {CHOOSE x \in A : TRUE}]]
           sum == CHOOSE g : Solves(g)
<1>3. ASSUME NEW g PROVE Solves(g) <=> SumFold(g, ScoreOf(m), Index)
  <2>1. ASSUME NEW A \in SUBSET Index, A # {}
        PROVE  COMPAT[CHOOSE x \in A : TRUE][m[CHOOSE x \in A : TRUE]] = ScoreOf(m)[CHOOSE x \in A : TRUE]
    BY <2>1 DEF ScoreOf
  <2>2. [A \in SUBSET Index |->
           IF A = {} THEN 0
           ELSE COMPAT[CHOOSE x \in A : TRUE][m[CHOOSE x \in A : TRUE]]
                  + g[A \ {CHOOSE x \in A : TRUE}]]
        = [A \in SUBSET Index |->
             IF A = {} THEN 0
             ELSE ScoreOf(m)[CHOOSE x \in A : TRUE] + g[A \ {CHOOSE x \in A : TRUE}]]
    BY <2>1
  <2> QED BY <2>2 DEF SumFold
<1>4. Solves(sum)
  <2>1. \E g : Solves(g)
    <3> HIDE DEF Solves
    <3> QED BY <1>2, <1>3, SumExists
  <2> HIDE DEF Solves
  <2> QED BY <2>1
<1>5. Total(m) = sum[Index]
  BY DEF Total, MapThenSumSet, MapThenFoldSet
<1>6. SumOn(sum, ScoreOf(m), Index)
  <2> HIDE DEF Solves, sum
  <2> QED BY <1>2, <1>3, <1>4, SumInAnyOrder
<1> HIDE DEF sum
<1> QED BY <1>2, <1>5, <1>6

\* When every column has its own row, assignment_ is a permutation.
LEMMA AssignmentFound ==
  ASSUME HungTypes, Assigned(Line, N),
         AssignmentRead
  PROVE  /\ assignment \in Assignments
         /\ \A x \in Index : x + 1 \in Line /\ assignment[x] + 1 \in Line /\ p[assignment[x] + 1] = x + 1
         /\ \A y \in Index : \E x \in Index : assignment[x] = y
<1>1. N \in Nat /\ N > 0 /\ \A x \in Index : x + 1 \in 1 .. N /\ x \in Int
  BY NumberOfPeople DEF Index
<1>2. ASSUME NEW x \in Index
      PROVE  assignment[x] \in Index /\ assignment[x] + 1 \in Line /\ p[assignment[x] + 1] = x + 1
  <2> USE DEF AssignmentRead
  <2>1. \E j \in Line : p[j] = x + 1
    BY <1>1 DEF Assigned
  <2> DEFINE j == CHOOSE k \in Line : p[k] = x + 1
  <2>2. j \in Line /\ p[j] = x + 1
    BY <2>1
  <2>3. assignment[x] = j - 1
    BY <2>1
  <2> HIDE DEF j
  <2>4. j \in 1 .. N
    BY <2>2 DEF Line
  <2>5. j - 1 \in Index /\ (j - 1) + 1 = j
    BY <1>1, <2>4 DEF Index
  <2> QED BY <2>2, <2>3, <2>5
<1>3. \A x, y \in Index : assignment[x] = assignment[y] => x = y
  <2> TAKE x \in Index, y \in Index
  <2> HAVE assignment[x] = assignment[y]
  <2>1. x + 1 = y + 1
    BY <1>2
  <2> QED BY <1>1, <2>1
<1>4. assignment \in [Index -> Index]
  BY <1>2 DEF AssignmentRead
<1>5. \A y \in Index : \E x \in Index : assignment[x] = y
  BY <1>1, <1>3, <1>4, InjectiveIsOnto DEF GS!Person, Index
<1> QED BY <1>1, <1>2, <1>3, <1>4, <1>5 DEF Assignments, Line


\* The sum over an assignment of what its men and its women contribute.
LEMMA SumOfPotentials ==
  ASSUME NEW U \in [Index -> Int], NEW V \in [Index -> Int], NEW both \in [Index -> Int],
         NEW gU, SumOn(gU, U, Index), NEW gV, SumOn(gV, V, Index), NEW m \in Assignments,
         AddsUp(both, U, V, m, Index)
  PROVE  \E g : SumOn(g, both, Index) /\ g[Index] = gU[Index] + gV[Index]
<1>1. N \in Nat /\ m \in [Index -> Index] /\ \A x, y \in Index : m[x] = m[y] => x = y
  BY NumberOfPeople DEF Assignments
<1>2. \A y \in Index : \E x \in Index : m[x] = y
  BY <1>1, InjectiveIsOnto DEF GS!Person, Index
<1>0. m \in Bijection(Index, Index)
  BY <1>1, <1>2 DEF Bijection, Injection, Surjection, IsInjective
<1> DEFINE k == [x \in Index |-> V[m[x]]]
<1>3. k \in [Index -> Int] /\ \A x \in Index : k[x] = V[m[x]]
  BY <1>1
<1> HIDE DEF k
<1>4. PICK h : SumOn(h, k, Index) /\ h[Index] = gV[Index]
  BY <1>0, <1>3, SumReindexed
<1>5. AddsUp(both, U, k, [x \in Index |-> x], Index)
  BY <1>3 DEF AddsUp
<1>6. PICK g : SumOn(g, both, Index) /\ g[Index] = gU[Index] + h[Index]
  BY <1>3, <1>4, <1>5, SumsAdd
<1> QED BY <1>4, <1>6

\* No assignment scores more than the one the potentials certify.
LEMMA CertifiedIsGreatest ==
  ASSUME HungTypes, COMPAT \in Tables, Assigned(Line, N), Certified(Line, Line),
         CostsNegated,
         AssignmentRead,
         NEW m \in Assignments
  PROVE  Total(m) <= Total(assignment)
<1> DEFINE U == [x \in Index |-> -u[x + 1]]
           V == [x \in Index |-> -v[x + 1]]
<1>1. /\ assignment \in Assignments
      /\ \A x \in Index : x + 1 \in Line /\ assignment[x] + 1 \in Line /\ p[assignment[x] + 1] = x + 1
  BY AssignmentFound
<1>2. IsFiniteSet(Index) /\ \A x \in Index : x \in Int /\ x + 1 \in Line0
  BY <1>1, NumberOfPeople, IndexFinite, Lines DEF Index
<1>3. U \in [Index -> Int] /\ V \in [Index -> Int]
  BY <1>2 DEF HungTypes
<1>4. ASSUME NEW x \in Index, NEW y \in Index
      PROVE  /\ COMPAT[x][y] \in Int /\ u[x + 1] \in Int /\ v[y + 1] \in Int
             /\ Slack(x + 1, y + 1) = -COMPAT[x][y] - u[x + 1] - v[y + 1]
  <2>1. COMPAT \in [Index -> [Index -> 0 .. 100]]
    BY RunnersAssumption DEF Index
  <2>2. COMPAT[x][y] \in 0 .. 100
    BY <2>1
  <2>3. x + 1 \in Line /\ y + 1 \in Line /\ (x + 1) - 1 = x /\ (y + 1) - 1 = y
    BY <1>1, <1>2
  <2>4. cost[x + 1][y + 1] = -COMPAT[x][y]
    BY <2>3 DEF CostsNegated
  <2>5. u[x + 1] \in Int /\ v[y + 1] \in Int
    BY <1>2 DEF HungTypes
  <2> QED BY <2>2, <2>4, <2>5 DEF Slack
<1>5. ASSUME NEW x \in Index, NEW y \in Index PROVE COMPAT[x][y] <= U[x] + V[y]
  <2>1. Slack(x + 1, y + 1) >= 0
    BY <1>1 DEF Certified
  <2> QED BY <1>4, <2>1
<1>6. ASSUME NEW x \in Index PROVE COMPAT[x][assignment[x]] = U[x] + V[assignment[x]]
  <2>1. assignment[x] \in Index /\ x + 1 # 0
    BY <1>1, <1>2 DEF Assignments, Index
  <2>2. Slack(x + 1, assignment[x] + 1) = 0
    BY <1>1, <2>1 DEF Certified
  <2>3. -COMPAT[x][assignment[x]] - u[x + 1] - v[assignment[x] + 1] = 0
    BY <1>4, <2>1, <2>2
  <2>4. /\ COMPAT[x][assignment[x]] \in Int /\ u[x + 1] \in Int /\ v[assignment[x] + 1] \in Int
        /\ U[x] = -u[x + 1] /\ V[assignment[x]] = -v[assignment[x] + 1]
    BY <1>4, <2>1
  <2> HIDE DEF U, V
  <2> QED BY <2>3, <2>4
<1>7. PICK gU : SumOn(gU, U, Index)
  BY <1>2, <1>3, SumExists, SumInAnyOrder
<1>8. PICK gV : SumOn(gV, V, Index)
  BY <1>2, <1>3, SumExists, SumInAnyOrder
<1>9. m \in [Index -> Index] /\ assignment \in [Index -> Index]
  BY <1>1 DEF Assignments
<1>10. ASSUME NEW x \in Index PROVE U[x] + V[m[x]] \in Int /\ m[x] \in Index
  BY <1>3, <1>9
<1> DEFINE both == [x \in Index |-> U[x] + V[m[x]]]
<1>11. both \in [Index -> Int] /\ AddsUp(both, U, V, m, Index)
  <2> HIDE DEF U, V
  <2> QED BY <1>10 DEF AddsUp
<1> HIDE DEF U, V, both
<1>12. PICK gM : SumOn(gM, both, Index) /\ gM[Index] = gU[Index] + gV[Index]
  BY <1>3, <1>7, <1>8, <1>11, SumOfPotentials
<1>13. ScoreOf(m) \in [Index -> Int] /\ ScoreOf(assignment) \in [Index -> Int]
  BY <1>9, TotalIsSum
<1>14. PICK hM : SumOn(hM, ScoreOf(m), Index) /\ Total(m) = hM[Index]
  BY <1>9, TotalIsSum
<1>15. PICK hA : SumOn(hA, ScoreOf(assignment), Index) /\ Total(assignment) = hA[Index]
  BY <1>9, TotalIsSum
<1>16. PICK gA : SumOn(gA, ScoreOf(assignment), Index) /\ gA[Index] = gU[Index] + gV[Index]
  <2>1. AddsUp(ScoreOf(assignment), U, V, assignment, Index)
    BY <1>6 DEF ScoreOf, AddsUp
  <2> QED BY <1>1, <1>3, <1>7, <1>8, <1>13, <2>1, SumOfPotentials
<1>17. hM[Index] <= gM[Index]
  <2>1. \A x \in Index : ScoreOf(m)[x] <= both[x]
    BY <1>5, <1>10, <1>11 DEF ScoreOf, AddsUp
  <2> QED BY <1>2, <1>11, <1>12, <1>13, <1>14, <2>1, SumsCompare
<1>18. gA[Index] <= hA[Index]
  <2>1. \A x \in Index : ScoreOf(assignment)[x] <= ScoreOf(assignment)[x]
    BY <1>13
  <2> QED BY <1>2, <1>13, <1>15, <1>16, <2>1, SumsCompare
<1>19. hM[Index] \in Int /\ hA[Index] \in Int /\ gM[Index] \in Int
  BY <1>12, <1>14, <1>15 DEF SumOn
<1> QED BY <1>12, <1>14, <1>15, <1>16, <1>17, <1>18, <1>19

\* maxScore is the total of the assignment.
LEMMA ScoreIsTotal ==
  ASSUME HungTypes, COMPAT \in Tables, Assigned(Line, N),
         CostsNegated,
         AssignmentRead,
         NEW g, SumOn(g, ColumnGains, Line)
  PROVE  g[Line] = Total(assignment)
<1> DEFINE b1 == [x \in Index |-> assignment[x] + 1]
<1>1. /\ assignment \in Assignments
      /\ \A x \in Index : x + 1 \in Line /\ assignment[x] + 1 \in Line /\ p[assignment[x] + 1] = x + 1
      /\ \A y \in Index : \E x \in Index : assignment[x] = y
  BY AssignmentFound
<1>2. IsFiniteSet(Index) /\ \A x \in Index : x \in Int
  BY NumberOfPeople, IndexFinite DEF Index
<1>3. assignment \in [Index -> Index]
  BY <1>1 DEF Assignments
<1>4. b1 \in [Index -> Line] /\ \A x, y \in Index : b1[x] = b1[y] => x = y
  <2>1. \A x, y \in Index : b1[x] = b1[y] => x = y
    <3> TAKE x \in Index, y \in Index
    <3> HAVE b1[x] = b1[y]
    <3>1. x + 1 = y + 1
      BY <1>1
    <3> QED BY <1>2, <3>1
  <2> QED BY <1>1, <2>1
<1>5. ASSUME NEW j \in Line PROVE \E x \in Index : b1[x] = j
  <2>1. j - 1 \in Index /\ (j - 1) + 1 = j
    BY NumberOfPeople DEF Line, Index
  <2>2. PICK x \in Index : assignment[x] = j - 1
    BY <1>1, <2>1
  <2> QED BY <2>1, <2>2
<1>6. ASSUME NEW x \in Index PROVE ScoreOf(assignment)[x] = ColumnGains[b1[x]]
  <2> DEFINE j == assignment[x] + 1
  <2>1. j \in Line /\ p[j] = x + 1 /\ x + 1 \in Line /\ (x + 1) - 1 = x /\ j - 1 = assignment[x]
    BY <1>1, <1>2, <1>3
  <2>2. b1[x] = j
    OBVIOUS
  <2> HIDE DEF j, b1
  <2>3. cost[p[j]][j] = -COMPAT[x][assignment[x]]
    BY <2>1 DEF CostsNegated
  <2>4. COMPAT[x][assignment[x]] \in Int
    <3>1. ScoreOf(assignment) \in [Index -> Int]
      BY <1>3, TotalIsSum
    <3> QED BY <3>1 DEF ScoreOf
  <2>5. ColumnGains[j] = -cost[p[j]][j]
    BY <2>1 DEF ColumnGains
  <2> QED BY <2>2, <2>3, <2>4, <2>5 DEF ScoreOf
<1> HIDE DEF b1
<1>7. PICK h : SumOn(h, ScoreOf(assignment), Index) /\ h[Index] = g[Line]
  <2>1. b1 \in Bijection(Index, Line)
    BY <1>4, <1>5 DEF Bijection, Injection, Surjection, IsInjective
  <2> QED BY <1>6, <2>1, SumReindexed
<1>8. PICK k : SumOn(k, ScoreOf(assignment), Index) /\ Total(assignment) = k[Index]
  BY <1>3, TotalIsSum
<1>9. /\ ScoreOf(assignment) \in [Index -> Int]
      /\ \A x \in Index : ScoreOf(assignment)[x] <= ScoreOf(assignment)[x]
  <2>1. ScoreOf(assignment) \in [Index -> Int]
    BY <1>3, TotalIsSum
  <2> QED BY <2>1
<1>10. h[Index] <= k[Index] /\ k[Index] <= h[Index]
  BY <1>2, <1>7, <1>8, <1>9, SumsCompare
<1>11. h[Index] \in Int /\ k[Index] \in Int
  BY <1>7, <1>8 DEF SumOn
<1> QED BY <1>7, <1>8, <1>10, <1>11

\* solve() ends with everybody in a column, and reads its results off them.
LEMMA FinishResult ==
  ASSUME HungInv, HungResult, Hung!Finish
  PROVE  /\ Assigned(Line, N)' /\ Certified(Line, Line)' /\ AssignmentRead'
         /\ (\E g : SumOn(g, ColumnGains, Line) /\ maxScore = g[Line])'
<1>1. /\ hungAt = "rows" /\ row = N + 1 /\ UNCHANGED <<cost, u, v, p>>
      /\ assignment' = [r \in 0 .. N - 1 |-> IF \E j \in Line : p[j] = r + 1
                                               THEN (CHOOSE j \in Line : p[j] = r + 1) - 1 ELSE -1]
      /\ maxScore' = Hung!MapThenSumSet(LAMBDA j : -cost[p[j]][j], Line)
  BY Lines DEF Hung!Finish
<1>2. HungTypes /\ Assigned(Line, N) /\ Certified(Line, Line)
  <2>0. row = N + 1 /\ N \in Nat
    BY <1>1, NumberOfPeople
  <2>1. row - 1 = N /\ 1 .. row - 1 = Line
    <3>1. row - 1 = N
      BY <2>0
    <3> QED BY <3>1 DEF Line
  <2> QED BY <1>1, <2>1 DEF HungInv, RowsSoFar
<1>3. Assigned(Line, N)' /\ Certified(Line, Line)' /\ ColumnGains' = ColumnGains
  BY <1>1, <1>2 DEF Assigned, Certified, Slack, ColumnGains
<1>4. AssignmentRead'
  BY <1>1 DEF AssignmentRead, Index
<1>5. \A j \in Line : -cost[p[j]][j] \in Int
  <2> TAKE j \in Line
  <2>1. p[j] \in Line
    <3>1. CostsNegated /\ COMPAT \in Tables
      BY DEF HungResult
    <3>2. \E r \in 1 .. N : p[j] = r
      \* The columns are as many as the rows, so each has one.
      <4> DEFINE f == [r \in Index |-> (CHOOSE k \in Line : p[k] = r + 1) - 1]
      <4>1. \A r \in Index : r \in Int /\ r + 1 \in 1 .. N
        BY NumberOfPeople DEF Index
      <4>2. ASSUME NEW r \in Index PROVE f[r] \in Index /\ p[f[r] + 1] = r + 1
        <5> DEFINE k == CHOOSE i \in Line : p[i] = r + 1
        <5>1. k \in Line /\ p[k] = r + 1
          BY <1>2, <4>1 DEF Assigned
        <5>2. f[r] = k - 1
          OBVIOUS
        <5> HIDE DEF k, f
        <5>3. k - 1 \in Index /\ (k - 1) + 1 = k
          BY <5>1, NumberOfPeople DEF Line, Index
        <5> QED BY <5>1, <5>2, <5>3
      <4>3. f \in [Index -> Index]
        BY <4>2
      <4> HIDE DEF f
      <4>4. \A r, q1 \in Index : f[r] = f[q1] => r = q1
        <5> TAKE r \in Index, q1 \in Index
        <5> HAVE f[r] = f[q1]
        <5>1. r + 1 = q1 + 1
          BY <4>2
        <5> QED BY <4>1, <5>1
      <4>5. \A y \in Index : \E r \in Index : f[r] = y
        BY <4>3, <4>4, NumberOfPeople, InjectiveIsOnto DEF GS!Person, Index
      <4>6. j - 1 \in Index /\ (j - 1) + 1 = j
        BY NumberOfPeople DEF Line, Index
      <4>7. PICK r \in Index : f[r] = j - 1
        BY <4>5, <4>6
      <4>8. p[j] = r + 1
        BY <4>2, <4>6, <4>7
      <4> QED BY <4>1, <4>8
    <3> QED BY <3>2 DEF Line
  <2>2. cost[p[j]] \in [Line -> -100 .. 0]
    BY <1>2, <2>1 DEF HungTypes
  <2>3. cost[p[j]][j] \in -100 .. 0
    BY <2>2
  <2> QED BY <2>3
<1>6. IsFiniteSet(Line) /\ ColumnGains \in [Line -> Int]
  BY <1>5, LineFinite DEF ColumnGains
<1> DEFINE Solves(g) == g = [A \in SUBSET Line |->
                               IF A = {} THEN 0
                               ELSE -cost[p[CHOOSE x \in A : TRUE]][CHOOSE x \in A : TRUE]
                                      + g[A \ {CHOOSE x \in A : TRUE}]]
           sum == CHOOSE g : Solves(g)
<1>7. ASSUME NEW g PROVE Solves(g) <=> SumFold(g, ColumnGains, Line)
  <2>1. ASSUME NEW A \in SUBSET Line, A # {}
        PROVE  -cost[p[CHOOSE x \in A : TRUE]][CHOOSE x \in A : TRUE] = ColumnGains[CHOOSE x \in A : TRUE]
    BY <2>1 DEF ColumnGains
  <2>2. [A \in SUBSET Line |->
           IF A = {} THEN 0
           ELSE -cost[p[CHOOSE x \in A : TRUE]][CHOOSE x \in A : TRUE]
                  + g[A \ {CHOOSE x \in A : TRUE}]]
        = [A \in SUBSET Line |->
             IF A = {} THEN 0
             ELSE ColumnGains[CHOOSE x \in A : TRUE] + g[A \ {CHOOSE x \in A : TRUE}]]
    BY <2>1
  <2> QED BY <2>2 DEF SumFold
<1>8. Solves(sum)
  <2>1. \E g : Solves(g)
    <3> HIDE DEF Solves
    <3> QED BY <1>6, <1>7, SumExists
  <2> HIDE DEF Solves
  <2> QED BY <2>1
<1>9. maxScore' = sum[Line]
  BY <1>1 DEF Hung!MapThenSumSet, Hung!MapThenFoldSet
<1>10. SumOn(sum, ColumnGains, Line)
  <2> HIDE DEF Solves, sum
  <2> QED BY <1>6, <1>7, <1>8, SumInAnyOrder
<1> HIDE DEF Solves, sum
<1>11. (\E g : SumOn(g, ColumnGains, Line) /\ maxScore = g[Line])'
  <2>1. SumOn(sum, ColumnGains', Line) /\ maxScore' = sum[Line]
    BY <1>3, <1>9, <1>10
  <2>2. \E g : SumOn(g, ColumnGains', Line) /\ maxScore' = g[Line]
    BY <2>1
  <2> QED BY <2>2
<1> QED BY <1>3, <1>4, <1>11

LEMMA HungResultInvariant == Spec => []HungResult
<1>1. Init => HungResult
  <2> SUFFICES ASSUME Init PROVE HungResult
    OBVIOUS
  <2>1. COMPAT \in Tables /\ ~Reported("Hungarian") /\ hungAt = "rows"
    BY DEF Init, Reported, Hung!Init
  <2>2. CostsNegated
    BY Lines DEF Init, Hung!Init, CostsNegated
  <2> QED BY <2>1, <2>2 DEF HungResult
<1>2. HungInv /\ HungResult /\ [Next]_vars => HungResult'
  <2> SUFFICES ASSUME HungInv, HungResult, [Next]_vars PROVE HungResult'
    OBVIOUS
  <2>1. COMPAT' = COMPAT /\ cost' = cost
    BY DEF Next, runGaleShapley, runHopcroftKarp, runHungarian, runBlossom, vars, hung,
           Hung!Next, Hung!StartRow, Hung!Search, Hung!Flip, Hung!Finish
  <2>2. COMPAT' \in Tables /\ CostsNegated'
    BY <2>1 DEF HungResult, CostsNegated
  <2> DEFINE Result == /\ Assigned(Line, N) /\ Certified(Line, Line) /\ AssignmentRead
                       /\ \E g : SumOn(g, ColumnGains, Line) /\ maxScore = g[Line]
             Told == /\ hungAt = "done"
                     /\ results["Hungarian"].matchM = assignment
                     /\ results["Hungarian"].totalScore = MatchedScore
  <2>3. (hungAt = "done" => Result) /\ (Reported("Hungarian") => Told)
    BY DEF HungResult
  <2>3a. ASSUME assignment' = assignment PROVE MatchedScore' = MatchedScore
    BY <2>1, <2>3a DEF MatchedScore, MapThenSumSet, MapThenFoldSet
  <2>4. ASSUME hungAt' = "done" => Result', Reported("Hungarian")' => Told' PROVE HungResult'
    BY <2>2, <2>4 DEF HungResult
  <2>5. ASSUME UNCHANGED hung PROVE hungAt' = "done" => Result'
    <3>1. /\ cost' = cost /\ u' = u /\ v' = v /\ p' = p /\ assignment' = assignment
          /\ maxScore' = maxScore /\ hungAt' = hungAt
      BY <2>5 DEF hung
    <3>2. ColumnGains' = ColumnGains
      BY <3>1 DEF ColumnGains
    <3>3. AssignmentRead' <=> AssignmentRead
      BY <3>1 DEF AssignmentRead
    <3>4. Assigned(Line, N)' <=> Assigned(Line, N)
      BY <3>1 DEF Assigned
    <3>5. Certified(Line, Line)' <=> Certified(Line, Line)
      BY <3>1 DEF Certified, Slack
    <3>6. ASSUME \E g : SumOn(g, ColumnGains, Line) /\ maxScore = g[Line]
          PROVE  (\E g : SumOn(g, ColumnGains, Line) /\ maxScore = g[Line])'
      <4>1. PICK g : SumOn(g, ColumnGains, Line) /\ maxScore = g[Line]
        BY <3>6
      <4>2. SumOn(g, ColumnGains', Line) /\ maxScore' = g[Line]
        BY <3>1, <3>2, <4>1
      <4> QED BY <4>2
    <3> QED BY <2>3, <3>1, <3>3, <3>4, <3>5, <3>6
  <2>6. CASE Hung!Next /\ UNCHANGED results
    <3>1. hungAt # "done"
      BY <2>6 DEF Hung!Next, Hung!StartRow, Hung!Search, Hung!Flip, Hung!Finish
    <3>2. ~Reported("Hungarian")'
      BY <2>3, <2>6, <3>1 DEF Reported
    <3>3. CASE Hung!Finish
      BY <2>4, <3>2, <3>3, FinishResult
    <3>4. CASE Hung!StartRow \/ Hung!Search \/ Hung!Flip
      <4>1. hungAt' # "done"
        BY <3>1, <3>4 DEF Hung!StartRow, Hung!Search, Hung!Flip
      <4> HIDE DEF Result
      <4> QED BY <2>4, <3>2, <4>1
    <3> QED BY <2>6, <3>3, <3>4 DEF Hung!Next
  <2>7. ASSUME Calls("Hungarian"), Hung!Done, NEW m, m = assignment, Report(m), UNCHANGED hung
        PROVE  HungResult'
    <3>1. assignment' = assignment /\ hungAt' = hungAt /\ hungAt = "done"
      BY <2>7 DEF hung, Hung!Done
    <3>2. results'["Hungarian"] = matchesToJson(assignment)
      BY <2>7 DEF Report, Calls
    <3>3. Told'
      BY <2>3a, <3>1, <3>2 DEF matchesToJson, MatchedScore
    <3> HIDE DEF Result, Told
    <3> QED BY <2>4, <2>5, <2>7, <3>3
  <2>8. ASSUME NEW m, NEW algorithm, algorithm # "Hungarian", Calls(algorithm), Report(m), UNCHANGED hung
        PROVE  HungResult'
    <3>1. assignment' = assignment /\ hungAt' = hungAt
      BY <2>8 DEF hung
    <3>2. Reported("Hungarian")' => Reported("Hungarian") /\ results'["Hungarian"] = results["Hungarian"]
      BY <2>8 DEF Report, Calls, Reported
    <3>3. Reported("Hungarian")' => Told'
      BY <2>3, <2>3a, <3>1, <3>2
    <3> HIDE DEF Result, Told
    <3> QED BY <2>4, <2>5, <2>8, <3>3
  <2>9. CASE UNCHANGED <<results, hung>>
    <3>1. assignment' = assignment /\ hungAt' = hungAt /\ results' = results /\ UNCHANGED hung
      BY <2>9 DEF hung
    <3>2. Reported("Hungarian")' => Told'
      BY <2>3, <2>3a, <3>1 DEF Reported
    <3> HIDE DEF Result, Told
    <3> QED BY <2>4, <2>5, <3>1, <3>2
  <2> QED BY <2>6, <2>7, <2>8, <2>9 DEF Next, runGaleShapley, runHopcroftKarp, runHungarian, runBlossom, vars
<1> QED BY <1>1, <1>2, HungInvariant, PTL DEF Spec

\* "Globally optimal total compatibility score": what the Hungarian algorithm
\* reports is an assignment of everybody, its total is maxScore, and no
\* assignment scores more, for every table.
THEOREM HungarianIsOptimal == Spec => []GreatestTotal
<1>1. HungInv /\ HungResult => GreatestTotal
  <2> SUFFICES ASSUME HungInv, HungResult, Reported("Hungarian") PROVE GreatestTotal
    BY DEF GreatestTotal
  <2>1. /\ HungTypes /\ COMPAT \in Tables /\ CostsNegated
        /\ Assigned(Line, N) /\ Certified(Line, Line) /\ AssignmentRead
        /\ results["Hungarian"].matchM = assignment
    BY DEF HungInv, HungResult
  <2>2. PICK g : SumOn(g, ColumnGains, Line) /\ maxScore = g[Line]
    BY DEF HungResult
  <2>3. assignment \in Assignments
    BY <2>1, AssignmentFound
  <2>4. maxScore = Total(assignment)
    BY <2>1, <2>2, ScoreIsTotal
  <2>5. results["Hungarian"].totalScore = Total(assignment)
    <3>1. {m \in Index : assignment[m] # -1} = Index
      <4>1. \A x \in Index : assignment[x] \in 0 .. N - 1
        BY <2>3 DEF Assignments, Index
      <4>2. \A k \in 0 .. N - 1 : k # -1
        BY NumberOfPeople
      <4> QED BY <4>1, <4>2
    <3> QED BY <3>1 DEF HungResult, MatchedScore, Total
  <2>6. \A m \in Assignments : Total(m) <= Total(assignment)
    BY <2>1, CertifiedIsGreatest
  <2> QED BY <2>1, <2>3, <2>4, <2>5, <2>6 DEF GreatestTotal
<1> QED BY <1>1, HungInvariant, HungResultInvariant, PTL

-----------------------------------------------------------------------------
(* Blossom: the runner's graph has no odd cycle *)

Vertex == 0 .. 2 * N - 1
VertexPair == Vertex \X Vertex

\* The neighbours a list names for x: the other ends of x's pairs.
OtherEnds(pairs, x) == {y \in Vertex : <<x, y>> \in pairs \/ <<y, x>> \in pairs}

Adjacency == [Vertex -> Seq(Vertex)]

Linked(lists, x, y) ==
  [lists EXCEPT ![x] = Append(lists[x], y), ![y] = Append(lists[y], x)]

LEMMA LinkEnds ==
  ASSUME NEW lists \in Adjacency, NEW x \in Vertex, NEW y \in Vertex, x # y
  PROVE  /\ Linked(lists, x, y) \in Adjacency
         /\ RangeOf(Linked(lists, x, y)[x]) = RangeOf(lists[x]) \cup {y}
         /\ RangeOf(Linked(lists, x, y)[y]) = RangeOf(lists[y]) \cup {x}
         /\ \A z \in Vertex : z # x /\ z # y => Linked(lists, x, y)[z] = lists[z]
<1>1. /\ Append(lists[x], y) \in Seq(Vertex) /\ RangeOf(Append(lists[x], y)) = RangeOf(lists[x]) \cup {y}
      /\ Append(lists[y], x) \in Seq(Vertex) /\ RangeOf(Append(lists[y], x)) = RangeOf(lists[y]) \cup {x}
  BY AppendRange DEF Adjacency
<1> QED BY <1>1 DEF Linked, Adjacency

\* The constructor's loop: both ends of a pair learn of it.
LEMMA GeneralAdjacency ==
  ASSUME N \in Nat, NEW pairs \in Seq(VertexPair), NEW lists,
         \A k \in 1 .. Len(pairs) : pairs[k][1] # pairs[k][2],
         lists = Bl!FoldLeft(Bl!addCompatiblePair, [x \in Bl!Vertex |-> <<>>], pairs)
  PROVE  /\ lists \in [Vertex -> Seq(Vertex)]
         /\ \A x \in Vertex : RangeOf(lists[x]) = OtherEnds(RangeOf(pairs), x)
<1> DEFINE n == Len(pairs)
           V == [Vertex -> Seq(Vertex)]
           empty == [x \in Vertex |-> <<>>]
           pick == [A \in SUBSET (1 .. n) |-> Max(A)]
           op == [z \in (1 .. n) \X V |-> Bl!addCompatiblePair(z[2], pairs[z[1]])]
           Solves(g) == g = [A \in SUBSET (1 .. n) |->
                               IF A = {} THEN empty
                               ELSE Bl!addCompatiblePair(g[A \ {Max(A)}], pairs[Max(A)])]
           fold == CHOOSE g : Solves(g)
<1>0. n \in Nat /\ pairs \in [1 .. n -> VertexPair] /\ IsFiniteSet(1 .. n) /\ DOMAIN pairs = 1 .. n
  BY FS_Interval
<1>pair. \A k \in 1 .. n : \E x, y \in Vertex : pairs[k] = <<x, y>> /\ x # y
  <2> TAKE k \in 1 .. n
  <2>1. PICK x \in Vertex, y \in Vertex : pairs[k] = <<x, y>>
    BY <1>0 DEF VertexPair
  <2>2. x # y
    BY <2>1
  <2> QED BY <2>1, <2>2
<1> HIDE DEF n
<1>add. ASSUME NEW list \in V, NEW k \in 1 .. n, NEW x \in Vertex, NEW y \in Vertex,
               pairs[k] = <<x, y>>
        PROVE  Bl!addCompatiblePair(list, pairs[k]) = Linked(list, x, y)
  <2>1. pairs[k][1] = x /\ pairs[k][2] = y
    BY <1>add
  <2> QED BY <2>1 DEF Bl!addCompatiblePair, Linked
<1>1. \A k \in 1 .. n, list \in V : Bl!addCompatiblePair(list, pairs[k]) \in V
  <2> TAKE k \in 1 .. n, list \in V
  <2>1. PICK x \in Vertex, y \in Vertex : pairs[k] = <<x, y>> /\ x # y
    BY <1>pair
  <2>2. Bl!addCompatiblePair(list, pairs[k]) = Linked(list, x, y)
    BY <1>add, <2>1
  <2>3. Linked(list, x, y) \in V
    <3>1. list \in Adjacency
      BY DEF Adjacency
    <3>2. Linked(list, x, y) \in Adjacency
      BY <2>1, <3>1, LinkEnds
    <3> QED BY <3>2 DEF Adjacency
  <2> QED BY <2>2, <2>3
<1>2. \E g : Solves(g)
  <2>1. \A A \in SUBSET (1 .. n) : A # {} => pick[A] \in A
    BY <1>0, MaxOfInterval
  <2>2. op \in [(1 .. n) \X V -> V]
    BY <1>1
  <2>3. empty \in V
    OBVIOUS
  <2> DEFINE S == 1 .. n
             start == empty
  <2> HIDE DEF op, pick, V, S, start, empty
  <2>4. PICK g \in [SUBSET S -> V] : FoldOf(g, S, start, pick, op)
    <3>0. start \in V
      BY <2>3 DEF start
    <3>1. IsFiniteSet(S) /\ op \in [S \X V -> V] /\ \A A \in SUBSET S : A # {} => pick[A] \in A
      BY <1>0, <2>1, <2>2 DEF S
    <3> QED BY ONLY <3>0, <3>1, FoldExists
  <2> USE DEF S, start
  <2>5. ASSUME NEW A \in SUBSET (1 .. n), A # {}
        PROVE  g[A] = Bl!addCompatiblePair(g[A \ {Max(A)}], pairs[Max(A)])
    <3>1. pick[A] = Max(A) /\ Max(A) \in 1 .. n /\ A \ {Max(A)} \in SUBSET (1 .. n)
      BY <2>1, <2>5 DEF pick
    <3>2. g[A \ {Max(A)}] \in V
      BY <3>1
    <3>3. op[<<Max(A), g[A \ {Max(A)}]>>] = Bl!addCompatiblePair(g[A \ {Max(A)}], pairs[Max(A)])
      BY <3>1, <3>2 DEF op
    <3> QED BY <2>4, <2>5, <3>1, <3>3 DEF FoldOf
  <2>6. g = [A \in SUBSET (1 .. n) |-> g[A]]
    OBVIOUS
  <2>7. Solves(g)
    <3> SUFFICES ASSUME NEW A \in SUBSET (1 .. n)
                 PROVE  g[A] = IF A = {} THEN empty ELSE Bl!addCompatiblePair(g[A \ {Max(A)}], pairs[Max(A)])
      BY <2>6
    <3> QED BY <2>4, <2>5 DEF FoldOf
  <2> QED BY <2>7
<1>3. Solves(fold)
  <2> HIDE DEF Solves
  <2> QED BY <1>2
<1>4. lists = fold[1 .. n]
  <2>1. Bl!Vertex = Vertex /\ \A A : Bl!Max(A) = Max(A)
    BY DEF Bl!Vertex, Vertex, Bl!Max, Max
  <2> QED BY <1>0, <2>1 DEF Bl!FoldLeft, Bl!MapThenFoldSet
<1> HIDE DEF fold, empty
<1>5. fold[{}] = empty
  BY <1>3
<1>6. \A k \in 1 .. n : fold[1 .. k] = Bl!addCompatiblePair(fold[1 .. k - 1], pairs[k])
  <2> TAKE k \in 1 .. n
  <2>1. /\ 1 .. k \in SUBSET (1 .. n) /\ 1 .. k # {}
        /\ Max(1 .. k) = k /\ (1 .. k) \ {Max(1 .. k)} = 1 .. k - 1
    BY <1>0, MaxOfPrefix
  <2> QED BY <1>3, <2>1
<1> DEFINE Sofar(k) == {pairs[l] : l \in 1 .. k}
           Good(k) == /\ fold[1 .. k] \in V
                      /\ \A x \in Vertex : RangeOf(fold[1 .. k][x]) = OtherEnds(Sofar(k), x)
           T == {k \in 0 .. n : ~Good(k)}
<1>7. T = {}
  <2> SUFFICES ASSUME T # {} PROVE FALSE
    OBVIOUS
  <2>1. T \in SUBSET Nat
    OBVIOUS
  <2>2. PICK k \in T : \A l \in T : k <= l
    <3> HIDE DEF T
    <3> QED BY <2>1, LeastElement
  <2>3. k \in 0 .. n /\ ~Good(k)
    <3> HIDE DEF Good
    <3> QED OBVIOUS
  <2>4. CASE k = 0
    <3>1. 1 .. k = {}
      BY <2>4
    <3>2. fold[1 .. k] = empty
      BY <1>5, <3>1
    <3>3. RangeOf(<<>>) = {} /\ empty \in V
      BY DEF RangeOf, empty
    <3>4. Good(k)
      BY <3>1, <3>2, <3>3 DEF empty, OtherEnds
    <3> QED BY <2>3, <3>4
  <2>5. CASE k # 0
    <3>1. k - 1 \in 0 .. n /\ k \in 1 .. n
      BY <1>0, <2>3, <2>5
    <3>2. Good(k - 1)
      <4> HIDE DEF Good
      <4> QED BY <2>2, <2>3, <3>1
    <3>3. fold[1 .. k] = Bl!addCompatiblePair(fold[1 .. k - 1], pairs[k])
      BY <1>6, <3>1
    <3>4. Sofar(k) = Sofar(k - 1) \cup {pairs[k]}
      <4>1. \A l : l \in 1 .. k <=> l \in 1 .. k - 1 \/ l = k
        BY <3>1
      <4> QED BY <4>1
    <3>5. PICK x \in Vertex, y \in Vertex : pairs[k] = <<x, y>> /\ x # y
      BY <1>pair, <3>1
    <3> DEFINE old == fold[1 .. k - 1]
    <3> HIDE DEF Sofar
    <3>6. fold[1 .. k] = Linked(old, x, y) /\ old \in V
      BY <1>add, <3>1, <3>2, <3>3, <3>5
    <3>8. \A z \in Vertex : RangeOf(old[z]) = OtherEnds(Sofar(k - 1), z)
      BY <3>2
    <3> HIDE DEF old
    <3>7. /\ Linked(old, x, y) \in V
          /\ RangeOf(Linked(old, x, y)[x]) = RangeOf(old[x]) \cup {y}
          /\ RangeOf(Linked(old, x, y)[y]) = RangeOf(old[y]) \cup {x}
          /\ \A z \in Vertex : z # x /\ z # y => Linked(old, x, y)[z] = old[z]
      <4>1. old \in Adjacency /\ x # y
        BY <3>5, <3>6 DEF Adjacency
      <4>2. /\ Linked(old, x, y) \in Adjacency
            /\ RangeOf(Linked(old, x, y)[x]) = RangeOf(old[x]) \cup {y}
            /\ RangeOf(Linked(old, x, y)[y]) = RangeOf(old[y]) \cup {x}
            /\ \A z \in Vertex : z # x /\ z # y => Linked(old, x, y)[z] = old[z]
        BY <3>5, <4>1, LinkEnds
      <4> QED BY <4>2 DEF Adjacency
    <3>9. \A z, w : <<z, w>> \in Sofar(k) <=> <<z, w>> \in Sofar(k - 1) \/ (z = x /\ w = y)
      BY <3>4, <3>5
    <3>10. fold[1 .. k] \in V
      BY <3>6, <3>7
    <3>11. ASSUME NEW z \in Vertex
           PROVE  RangeOf(fold[1 .. k][z]) = OtherEnds(Sofar(k), z)
      <4>1. RangeOf(old[z]) = OtherEnds(Sofar(k - 1), z)
        BY <3>8
      <4>2. CASE z = x
        <5>1. RangeOf(fold[1 .. k][z]) = RangeOf(old[z]) \cup {y}
          BY <3>6, <3>7, <4>2
        <5> QED BY <3>5, <3>9, <4>1, <4>2, <5>1 DEF OtherEnds
      <4>3. CASE z = y
        <5>1. RangeOf(fold[1 .. k][z]) = RangeOf(old[z]) \cup {x}
          BY <3>6, <3>7, <4>3
        <5> QED BY <3>5, <3>9, <4>1, <4>3, <5>1 DEF OtherEnds
      <4>4. CASE z # x /\ z # y
        <5>1. RangeOf(fold[1 .. k][z]) = RangeOf(old[z])
          BY <3>6, <3>7, <4>4
        <5> QED BY <3>9, <4>1, <4>4, <5>1 DEF OtherEnds
      <4> QED BY <4>2, <4>3, <4>4
    <3> QED BY <2>3, <3>10, <3>11
  <2> QED BY <2>4, <2>5
<1>8. Good(n)
  <2>1. n \in 0 .. n
    BY <1>0
  <2> HIDE DEF Good
  <2> QED BY <1>7, <2>1
<1>9. Sofar(n) = RangeOf(pairs)
  BY DEF n, RangeOf
<1> QED BY <1>4, <1>8, <1>9

\* x and y are a compatible man and woman, of whom she is vertex N + her number.
Joined(x, y) == <<x, y - N>> \in Compatible \/ <<y, x - N>> \in Compatible

\* The loop of runBlossom: the edges are the compatible pairs, the women
\* numbered after the men.
LEMMA GraphIsCompatible ==
  ASSUME N \in Nat, Bl!Start(GeneralPairs)
  PROVE  /\ blAdj \in [Vertex -> Seq(Vertex)]
         /\ \A x, y \in Vertex : Bl!Edge(x, y) <=> Joined(x, y)
<1>1. CompatiblePairs \in Seq(Pair) /\ RangeOf(CompatiblePairs) = Compatible
  BY PairsFound
<1> DEFINE C == CompatiblePairs
           P == GeneralPairs
<1> HIDE DEF C
<1>2. /\ Len(C) \in Nat /\ DOMAIN C = 1 .. Len(C)
      /\ \A k \in 1 .. Len(C) : C[k] \in Pair
      /\ P = [k \in 1 .. Len(C) |-> <<C[k][1], N + C[k][2]>>]
  BY <1>1 DEF C, GeneralPairs
<1> HIDE DEF P
<1>3. ASSUME NEW k \in 1 .. Len(C)
      PROVE  P[k] \in VertexPair /\ P[k][1] # P[k][2]
  <2>1. PICK m \in Index, w \in Index : C[k] = <<m, w>>
    BY <1>2 DEF Pair
  <2>2. P[k] = <<m, N + w>>
    BY <1>2, <2>1
  <2>3. m \in Vertex /\ N + w \in Vertex /\ m # N + w
    BY DEF Index, Vertex
  <2> QED BY <2>2, <2>3 DEF VertexPair
<1>4. P \in Seq(VertexPair) /\ Len(P) = Len(C)
  BY <1>2, <1>3
<1>5. blAdj = Bl!FoldLeft(Bl!addCompatiblePair, [x \in Bl!Vertex |-> <<>>], P)
  BY DEF Bl!Start, P
<1>6. /\ blAdj \in [Vertex -> Seq(Vertex)]
      /\ \A x \in Vertex : RangeOf(blAdj[x]) = OtherEnds(RangeOf(P), x)
  <2>1. \A k \in 1 .. Len(P) : P[k][1] # P[k][2]
    BY <1>3, <1>4
  <2> QED BY ONLY N \in Nat, <1>4, <1>5, <2>1, GeneralAdjacency
<1>7. ASSUME NEW x \in Vertex, NEW y \in Vertex
      PROVE  <<x, y>> \in RangeOf(P) <=> <<x, y - N>> \in Compatible
  <2>1. ASSUME NEW k \in 1 .. Len(P), <<x, y>> = P[k]
        PROVE  <<x, y - N>> \in Compatible
    <3>1. PICK m \in Index, w \in Index : C[k] = <<m, w>>
      BY <1>2, <1>4 DEF Pair
    <3>2. x = m /\ y = N + w
      BY <1>2, <1>4, <2>1, <3>1
    <3>3. y - N = w
      BY <3>2 DEF Index
    <3>4. C[k] \in RangeOf(C)
      BY <1>4 DEF RangeOf
    <3> QED BY <1>1, <3>1, <3>2, <3>3, <3>4 DEF C
  <2>2. ASSUME <<x, y - N>> \in Compatible
        PROVE  <<x, y>> \in RangeOf(P)
    <3>1. PICK k \in 1 .. Len(C) : C[k] = <<x, y - N>>
      BY <1>1, <2>2 DEF C, RangeOf
    <3>2. N + (y - N) = y
      BY DEF Vertex
    <3>3. P[k] = <<x, y>>
      BY <1>2, <3>1, <3>2
    <3> QED BY <1>4, <3>3 DEF RangeOf
  <2> QED BY <2>1, <2>2 DEF RangeOf
<1>8. ASSUME NEW x \in Vertex, NEW y \in Vertex
      PROVE  Bl!Edge(x, y) <=> Joined(x, y)
  <2>1. Bl!Edge(x, y) <=> y \in RangeOf(blAdj[x])
    <3>1. blAdj[x] \in Seq(Vertex)
      BY <1>6
    <3>2. DOMAIN blAdj[x] = 1 .. Len(blAdj[x])
      BY <3>1
    <3> QED BY <3>2 DEF Bl!Edge, RangeOf
  <2>2. y \in RangeOf(blAdj[x]) <=> <<x, y>> \in RangeOf(P) \/ <<y, x>> \in RangeOf(P)
    BY <1>6 DEF OtherEnds
  <2> QED BY <1>7, <2>1, <2>2 DEF Joined
<1> QED BY <1>6, <1>8

\* What the searches use of that: an edge has two ends, a man and a woman.
Bipartite ==
  /\ blAdj \in [Vertex -> Seq(Vertex)]
  /\ \A x, y \in Vertex : Bl!Edge(x, y) => Bl!Edge(y, x) /\ (x \in Index <=> y \notin Index)

LEMMA GraphIsBipartite ==
  ASSUME N \in Nat, Bl!Start(GeneralPairs)
  PROVE  Bipartite
<1> SUFFICES ASSUME NEW x \in Vertex, NEW y \in Vertex, Joined(x, y)
             PROVE  Joined(y, x) /\ (x \in Index <=> y \notin Index)
  BY GraphIsCompatible DEF Bipartite
<1>1. Joined(y, x)
  BY DEF Joined
<1>2. (x \in Index /\ y - N \in Index) \/ (y \in Index /\ x - N \in Index)
  BY DEF Joined, Compatible
<1>3. \A z \in Vertex : z - N \in Index => z \notin Index
  BY DEF Vertex, Index
<1> QED BY <1>1, <1>2, <1>3

Coupled(x) == match[x] # -1 => Bl!Edge(x, match[x]) /\ match[match[x]] = x
Taken == {x \in Vertex : match[x] # -1}

BlTypes == /\ match \in [Vertex -> Vertex \cup {-1}]
           /\ label \in [Vertex -> {-1, 0, 1}]
           /\ pred \in [Vertex -> Vertex \cup {-1}]
           /\ base = [x \in Vertex |-> x]
           /\ q \in Seq(Vertex)
           /\ s \in 0 .. 2 * N
           /\ blCount \in Nat
           /\ blAt \in {"source", "pop", "scan", "flip"}
           /\ blAt # "source" => s \in Vertex

\* No couple is being remade: match_ is a matching, and the result counts it.
BetweenFlips == blAt # "flip" => /\ \A x \in Vertex : Coupled(x)
                                 /\ 2 * blCount = Cardinality(Taken)

\* The labelled vertices are a tree with the source at its root: the edges of
\* pred lead from inner to outer vertices and back, up an order ord.
Tree(ord) ==
  /\ label[s] = 1
  /\ \A x \in Vertex : label[x] = 1 => (x \in Index <=> s \in Index)
  /\ \A x \in Vertex : label[x] # 0 /\ x # s =>
       /\ pred[x] \in Vertex /\ Bl!Edge(x, pred[x])
       /\ label[pred[x]] = -label[x] /\ ord[pred[x]] < ord[x]

\* The search alternates: an outer vertex was reached from its mate.
Alternating ==
  /\ match[s] = -1
  /\ \A x \in Vertex : /\ label[x] = 1 /\ x # s => match[x] = pred[x]
                       /\ label[x] = -1 => match[x] # -1 /\ label[match[x]] = 1

\* An outer vertex waits in q, or its neighbours are inner.
Queued(x) == \E k \in 1 .. Len(q) : q[k] = x
AllInner(x) == \A k \in 1 .. Len(blAdj[x]) : label[blAdj[x][k]] = -1
Frontier ==
  /\ \A k \in 1 .. Len(q) : label[q[k]] = 1
  /\ \A x \in Vertex : label[x] = 1 =>
       Queued(x) \/ AllInner(x) \/ (blAt = "scan" /\ x = popped)
  /\ blAt = "scan" => /\ popped \in Vertex /\ label[popped] = 1
                      /\ scanned \in Nat \ {0}
                      /\ \A k \in 1 .. Len(blAdj[popped]) : k < scanned => label[blAdj[popped][k]] = -1

\* The path is flipped from its free end a up to the source: the tree's couples
\* above a still are as the search found them, and a is its old mate's no more.
FlipPath(ord) ==
  /\ label[a] # 1
  /\ pred[a] \in Vertex /\ Bl!Edge(a, pred[a]) /\ label[pred[a]] = 1 /\ ord[pred[a]] < ord[a]
  /\ \A x \in Vertex : x # a => Coupled(x) /\ match[x] # a
  /\ \A x \in Vertex : label[x] = 1 /\ ord[x] < ord[a] =>
       match[x] = IF x = s THEN -1 ELSE pred[x]
  /\ Cardinality(Taken) = IF match[a] = -1 THEN 2 * blCount ELSE 2 * blCount + 1

BlFlipping(ord) ==
  blAt = "flip" =>
    \/ a \in Vertex /\ FlipPath(ord)
    \/ /\ a = -1 /\ match[s] # -1
       /\ \A x \in Vertex : Coupled(x)
       /\ Cardinality(Taken) = 2 * blCount + 2

Search(ord) == (blAt # "source" => Tree(ord)) /\ BlFlipping(ord)

\* A set of men whose neighbours' husbands are in the set again, with all the
\* men for whom the search has failed: no path leads out of it to a single
\* woman, and no search for a woman's partner leads into it.
Closed(D) ==
  /\ \A x \in D, y \in Vertex : Bl!Edge(x, y) => match[y] \in D
  /\ \A x \in Index : x < s /\ match[x] = -1 => x \in D
  /\ s \notin Index => /\ blAt # "flip"
                       /\ blAt # "source" => \A x \in D : label[x] # -1
  /\ blAt = "flip" /\ a # -1 => \A x \in D : ~Bl!Edge(x, a)

BlInv == /\ BlTypes /\ Bipartite /\ BetweenFlips
         /\ \E ord \in [Vertex -> Nat] : Search(ord)
         /\ blAt \in {"pop", "scan"} => Alternating /\ Frontier
         /\ \E D \in SUBSET Index : Closed(D)

LEMMA BlStart ==
  ASSUME N \in Nat, N > 0, Bl!Start(GeneralPairs)
  PROVE  BlInv
<1>1. Bipartite
  BY GraphIsBipartite
<1>2. Bl!Vertex = Vertex /\ Bl!None = -1 /\ Bl!Unlabelled = 0
  BY DEF Bl!Vertex, Vertex, Bl!None, Bl!Unlabelled
<1>3. /\ match = [x \in Vertex |-> -1] /\ label = [x \in Vertex |-> 0]
      /\ pred = [x \in Vertex |-> -1] /\ base = [x \in Vertex |-> x]
      /\ q = <<>> /\ s = 0 /\ blCount = 0 /\ blAt = "source"
  BY <1>2 DEF Bl!Start
<1>4. BlTypes
  BY <1>3 DEF BlTypes
<1>5. BetweenFlips
  <2>1. Taken = {}
    BY <1>3 DEF Taken
  <2> QED BY <1>3, <2>1, FS_EmptySet DEF BetweenFlips, Coupled
<1>6. [x \in Vertex |-> 0] \in [Vertex -> Nat] /\ Search([x \in Vertex |-> 0])
  BY <1>3 DEF Search, BlFlipping
<1>7. {} \in SUBSET Index /\ Closed({})
  BY <1>3 DEF Closed, Index
<1>8. \E ord \in [Vertex -> Nat] : Search(ord)
  BY <1>6
<1>9. \E D \in SUBSET Index : Closed(D)
  BY <1>7
<1> QED BY <1>1, <1>3, <1>4, <1>5, <1>8, <1>9 DEF BlInv

LEMMA VertexFacts ==
  ASSUME N \in Nat
  PROVE  /\ Index \subseteq Vertex /\ IsFiniteSet(Vertex) /\ Bl!Vertex = Vertex
         /\ -1 \notin Vertex /\ -1 \notin Index
         /\ Bl!None = -1 /\ Bl!Outer = 1 /\ Bl!Inner = -1 /\ Bl!Unlabelled = 0
<1>1. IsFiniteSet(Vertex)
  BY FS_Interval DEF Vertex
<1> QED BY <1>1 DEF Vertex, Index, Bl!Vertex, Bl!None, Bl!Outer, Bl!Inner, Bl!Unlabelled

\* The neighbour u the scan is looking at: it is on the other side, so that
\* it is not outer, and not in the same blossom.
LEMMA ScanState ==
  ASSUME N \in Nat, BlInv, Bl!Scanning
  PROVE  /\ popped \in Vertex /\ label[popped] = 1 /\ s \in Vertex
         /\ Bl!u \in Vertex /\ Bl!Edge(popped, Bl!u) /\ Bl!Edge(Bl!u, popped)
         /\ scanned \in 1 .. Len(blAdj[popped]) /\ Bl!u = blAdj[popped][scanned]
         /\ Bl!u \in Index <=> s \notin Index
         /\ label[Bl!u] # 1
         /\ Bl!Ignored <=> label[Bl!u] = -1
<1>1. blAt = "scan" /\ scanned <= Len(blAdj[popped])
  BY DEF Bl!Scanning
<1>2. Alternating /\ Frontier /\ popped \in Vertex /\ label[popped] = 1 /\ s \in Vertex
  BY <1>1 DEF BlInv, Frontier, BlTypes
<1>3. blAdj[popped] \in Seq(Vertex) /\ scanned \in 1 .. Len(blAdj[popped]) /\ Bl!u = blAdj[popped][scanned]
  BY <1>1, <1>2 DEF BlInv, Bipartite, Frontier, Bl!u
<1>4. Bl!u \in Vertex /\ Bl!Edge(popped, Bl!u)
  BY <1>3 DEF Bl!Edge
<1>5. Bl!Edge(Bl!u, popped) /\ (popped \in Index <=> Bl!u \notin Index)
  BY <1>2, <1>4 DEF BlInv, Bipartite
<1>6. PICK ord : Tree(ord)
  BY <1>1 DEF BlInv, Search
<1>7. popped \in Index <=> s \in Index
  BY <1>2, <1>6 DEF Tree
<1>8. label[Bl!u] # 1
  BY <1>4, <1>5, <1>6, <1>7 DEF Tree
<1>9. base[popped] = popped /\ base[Bl!u] = Bl!u
  BY <1>2, <1>4 DEF BlInv, BlTypes
<1>10. Bl!Ignored <=> label[Bl!u] = -1
  BY <1>5, <1>9, VertexFacts DEF Bl!Ignored
<1> QED BY <1>2, <1>3, <1>4, <1>5, <1>7, <1>8, <1>10

LEMMA KeepsCouples ==
  ASSUME BlInv, UNCHANGED <<blAdj, match, blCount>>
  PROVE  /\ Bipartite' /\ \A x, y : Bl!Edge(x, y)' <=> Bl!Edge(x, y)
         /\ \A x : Coupled(x)' <=> Coupled(x)
         /\ Taken' = Taken
         /\ blAt # "flip" => BetweenFlips'
<1>1. \A x, y : Bl!Edge(x, y)' <=> Bl!Edge(x, y)
  BY DEF Bl!Edge
<1>2. Bipartite'
  BY <1>1 DEF BlInv, Bipartite
<1>3. \A x : Coupled(x)' <=> Coupled(x)
  BY <1>1 DEF Coupled
<1>4. Taken' = Taken
  BY DEF Taken
<1>5. blAt # "flip" => BetweenFlips'
  BY <1>3, <1>4 DEF BlInv, BetweenFlips
<1> QED BY <1>1, <1>2, <1>3, <1>4, <1>5

\* A source with a mate needs no search.
LEMMA SkipVertexStep ==
  ASSUME N \in Nat, N > 0, BlInv, Bl!SkipSource
  PROVE  BlInv'
<1>1. /\ UNCHANGED <<blAdj, match, blCount, label, pred, base, q, blAt>>
      /\ blAt = "source" /\ s < 2 * N /\ s' = s + 1 /\ match[s] # -1
  BY VertexFacts DEF Bl!SkipSource, Bl!graph, Bl!forest
<1>2. Bipartite' /\ BetweenFlips' /\ \A x, y : Bl!Edge(x, y)' <=> Bl!Edge(x, y)
  BY <1>1, KeepsCouples
<1>3. BlTypes'
  BY <1>1 DEF BlInv, BlTypes
<1>4. PICK ord \in [Vertex -> Nat] : Search(ord)
  BY DEF BlInv
<1>5. Search(ord)'
  BY <1>1 DEF Search, BlFlipping
<1>6. PICK D \in SUBSET Index : Closed(D)
  BY DEF BlInv
<1>7. Closed(D)'
  <2>1. ASSUME NEW x \in Index, x < s + 1, match[x] = -1 PROVE x \in D
    <3>1. x < s
      BY <1>1, <2>1 DEF Index, BlInv, BlTypes
    <3> QED BY <1>6, <2>1, <3>1 DEF Closed
  <2> QED BY <1>1, <1>2, <1>6, <2>1 DEF Closed
<1>8. (\E o \in [Vertex -> Nat] : Search(o)') /\ (\E C \in SUBSET Index : Closed(C)')
  BY <1>5, <1>7
<1> QED BY <1>1, <1>2, <1>3, <1>8 DEF BlInv, Vertex, Index

\* The tree of a new search is its source.
LEMMA StartAugmentStep ==
  ASSUME N \in Nat, N > 0, BlInv, Bl!StartAugment
  PROVE  BlInv'
<1>1. /\ UNCHANGED <<blAdj, match, blCount, s>>
      /\ blAt = "source" /\ blAt' = "pop" /\ s < 2 * N /\ match[s] = -1
      /\ label' = [x \in Vertex |-> IF x = s THEN 1 ELSE 0]
      /\ pred' = [x \in Vertex |-> -1] /\ base' = [x \in Vertex |-> x]
      /\ q' = <<s>>
  BY VertexFacts DEF Bl!StartAugment, Bl!graph
<1>2. Bipartite' /\ BetweenFlips' /\ \A x, y : Bl!Edge(x, y)' <=> Bl!Edge(x, y)
  BY <1>1, KeepsCouples
<1>3. s \in Vertex
  BY <1>1 DEF BlInv, BlTypes, Vertex
<1>4. BlTypes'
  BY <1>1, <1>3 DEF BlInv, BlTypes
<1>5. [x \in Vertex |-> 0] \in [Vertex -> Nat] /\ Search([x \in Vertex |-> 0])'
  <2>1. label'[s] = 1 /\ \A x \in Vertex : x # s => label'[x] = 0
    BY <1>1, <1>3
  <2> QED BY <1>1, <2>1 DEF Search, BlFlipping, Tree
<1>6. Alternating' /\ Frontier'
  <2>1. label'[s] = 1 /\ \A x \in Vertex : x # s => label'[x] = 0
    BY <1>1, <1>3
  <2>2. Len(q') = 1 /\ q'[1] = s
    BY <1>1
  <2>3. Queued(s)' /\ \A k \in 1 .. Len(q') : q'[k] = s
    BY <2>2, <1>1 DEF Queued
  <2>4. Alternating'
    BY <1>1, <2>1 DEF Alternating
  <2> QED BY <1>1, <2>1, <2>3, <2>4 DEF Frontier
<1>7. PICK D \in SUBSET Index : Closed(D)
  BY DEF BlInv
<1>8. Closed(D)'
  <2>1. \A x \in D : label'[x] # -1
    BY <1>1, VertexFacts
  <2> QED BY <1>1, <1>2, <1>7, <2>1 DEF Closed
<1>9. (\E o \in [Vertex -> Nat] : Search(o)') /\ (\E C \in SUBSET Index : Closed(C)')
  BY <1>5, <1>8
<1> QED BY <1>1, <1>2, <1>4, <1>6, <1>9 DEF BlInv

\* The queue is empty: the outer vertices' neighbours are all inner.  If they
\* are men, nothing leads out of them and the closed set any more.
LEMMA GiveUpStep ==
  ASSUME N \in Nat, N > 0, BlInv, Bl!GiveUp
  PROVE  BlInv'
<1>1. /\ UNCHANGED <<blAdj, match, blCount, label, pred, base, q>>
      /\ blAt = "pop" /\ blAt' = "source" /\ s' = s + 1 /\ q = <<>>
  BY DEF Bl!GiveUp, Bl!forest
<1>2. Bipartite' /\ BetweenFlips' /\ \A x, y : Bl!Edge(x, y)' <=> Bl!Edge(x, y)
  BY <1>1, KeepsCouples
<1>3. s \in Vertex /\ s + 1 \in 0 .. 2 * N
  BY <1>1 DEF BlInv, BlTypes, Vertex
<1>4. BlTypes'
  BY <1>1, <1>3 DEF BlInv, BlTypes
<1>5. PICK ord \in [Vertex -> Nat] : Search(ord)
  BY DEF BlInv
<1>6. Search(ord)'
  BY <1>1 DEF Search, BlFlipping
<1>7. PICK D \in SUBSET Index : Closed(D)
  BY DEF BlInv
<1>8. Tree(ord) /\ Alternating /\ Frontier
  BY <1>1, <1>5 DEF BlInv, Search
<1> DEFINE Found == {x \in Index : label[x] = 1}
<1>9. PICK E \in SUBSET Index : E = IF s \in Index THEN D \cup Found ELSE D
  OBVIOUS
<1>10. Closed(E)'
  <2>1. ASSUME NEW x \in Found, NEW y \in Vertex, Bl!Edge(x, y)
        PROVE  match[y] \in Vertex /\ label[match[y]] = 1
    <3>1. x \in Vertex /\ label[x] = 1
      BY VertexFacts
    <3>2. AllInner(x)
      BY <1>1, <1>8, <3>1 DEF Frontier, Queued
    <3>3. PICK k \in DOMAIN blAdj[x] : blAdj[x][k] = y
      BY <2>1 DEF Bl!Edge
    <3>4. blAdj[x] \in Seq(Vertex)
      BY <3>1 DEF BlInv, Bipartite
    <3>5. label[y] = -1
      BY <3>2, <3>3, <3>4 DEF AllInner
    <3> QED BY <1>8, <3>5 DEF Alternating, BlInv, BlTypes
  <2>2. s \in Index => \A z \in Vertex : label[z] = 1 => z \in Found
    BY <1>8 DEF Tree
  <2>3. \A x \in E, y \in Vertex : Bl!Edge(x, y) => match[y] \in E
    BY <1>7, <1>9, <2>1, <2>2 DEF Closed
  <2>4. ASSUME NEW x \in Index, x < s + 1, match[x] = -1 PROVE x \in E
    <3>1. CASE x = s
      BY <1>8, <1>9, <2>4, <3>1 DEF Tree
    <3>2. CASE x # s
      <4>1. x < s
        BY <1>3, <2>4, <3>2 DEF Index, Vertex
      <4> QED BY <1>7, <1>9, <2>4, <4>1 DEF Closed
    <3> QED BY <3>1, <3>2
  <2> QED BY <1>1, <1>2, <2>3, <2>4 DEF Closed
<1>11. (\E o \in [Vertex -> Nat] : Search(o)') /\ (\E C \in SUBSET Index : Closed(C)')
  BY <1>6, <1>10
<1> QED BY <1>1, <1>2, <1>4, <1>11 DEF BlInv

\* The path has been flipped: one couple more.
LEMMA AugmentedStep ==
  ASSUME N \in Nat, N > 0, BlInv, Bl!Augmented
  PROVE  BlInv'
<1>1. /\ UNCHANGED <<blAdj, match, label, pred, base, q>>
      /\ blAt = "flip" /\ blAt' = "source" /\ a = -1 /\ s' = s + 1 /\ blCount' = blCount + 1
  BY VertexFacts DEF Bl!Augmented, Bl!forest
<1>2. \A x, y : Bl!Edge(x, y)' <=> Bl!Edge(x, y)
  BY <1>1 DEF Bl!Edge
<1>3. Bipartite'
  BY <1>1, <1>2 DEF BlInv, Bipartite
<1>4. s \in Vertex /\ s + 1 \in 0 .. 2 * N /\ blCount \in Nat
  BY <1>1 DEF BlInv, BlTypes, Vertex
<1>5. BlTypes'
  BY <1>1, <1>4 DEF BlInv, BlTypes
<1>6. PICK ord \in [Vertex -> Nat] : Search(ord)
  BY DEF BlInv
<1>7. match[s] # -1 /\ (\A x \in Vertex : Coupled(x)) /\ Cardinality(Taken) = 2 * blCount + 2
  BY <1>1, <1>6, VertexFacts DEF Search, BlFlipping
<1>8. BetweenFlips'
  <2>1. \A x \in Vertex : Coupled(x)'
    BY <1>1, <1>2, <1>7 DEF Coupled
  <2>2. Taken' = Taken
    BY <1>1 DEF Taken
  <2>3. 2 * blCount' = 2 * blCount + 2
    BY <1>1, <1>4
  <2> QED BY <1>7, <2>1, <2>2, <2>3 DEF BetweenFlips
<1>9. Search(ord)'
  BY <1>1 DEF Search, BlFlipping
<1>10. PICK D \in SUBSET Index : Closed(D)
  BY DEF BlInv
<1>11. Closed(D)'
  <2>1. ASSUME NEW x \in Index, x < s + 1, match[x] = -1 PROVE x \in D
    <3>1. x < s
      BY <1>4, <1>7, <2>1 DEF Index, Vertex
    <3> QED BY <1>10, <2>1, <3>1 DEF Closed
  <2> QED BY <1>1, <1>2, <1>10, <2>1 DEF Closed
<1>12. (\E o \in [Vertex -> Nat] : Search(o)') /\ (\E C \in SUBSET Index : Closed(C)')
  BY <1>9, <1>11
<1> QED BY <1>1, <1>3, <1>5, <1>8, <1>12 DEF BlInv

\* The queue and the scan: label, pred and the couples stay.
LEMMA PopScanStep ==
  ASSUME N \in Nat, N > 0, BlInv, Bl!PopVertex \/ Bl!EndScan \/ Bl!SkipNeighbour
  PROVE  BlInv'
<1>1. /\ UNCHANGED <<blAdj, match, blCount, s, label, pred, base>>
      /\ blAt \in {"pop", "scan"} /\ blAt' \in {"pop", "scan"}
  BY DEF Bl!PopVertex, Bl!EndScan, Bl!SkipNeighbour, Bl!graph, Bl!forest, Bl!Scanning
<1>2. Bipartite' /\ BetweenFlips' /\ \A x, y : Bl!Edge(x, y)' <=> Bl!Edge(x, y)
  BY <1>1, KeepsCouples
<1>3. s \in Vertex /\ q \in Seq(Vertex) /\ Alternating /\ Frontier
  BY <1>1 DEF BlInv, BlTypes
<1>4. PICK ord \in [Vertex -> Nat] : Search(ord)
  BY DEF BlInv
<1>5. Search(ord)'
  BY <1>1, <1>2, <1>4 DEF Search, BlFlipping, Tree
<1>6. PICK D \in SUBSET Index : Closed(D)
  BY DEF BlInv
<1>7. Closed(D)'
  BY <1>1, <1>2, <1>6 DEF Closed
<1>8. Alternating'
  BY <1>1, <1>3 DEF Alternating
<1>9. q' \in Seq(Vertex) /\ Frontier'
  <2>1. CASE Bl!PopVertex
    <3>1. q # <<>> /\ popped' = Head(q) /\ scanned' = 1 /\ q' = Tail(q) /\ blAt = "pop" /\ blAt' = "scan"
      BY <2>1 DEF Bl!PopVertex
    <3>2. /\ Len(q') = Len(q) - 1 /\ Len(q) \in Nat /\ Len(q) > 0 /\ q' \in Seq(Vertex)
          /\ \A k \in 1 .. Len(q') : q'[k] = q[k + 1] /\ k + 1 \in 1 .. Len(q)
          /\ popped' = q[1]
      BY <1>3, <3>1
    <3>3. popped' \in Vertex /\ label[popped'] = 1
      BY <1>3, <3>2 DEF Frontier
    <3>4. ASSUME NEW x \in Vertex, label[x] = 1, x # popped'
          PROVE  Queued(x)' \/ AllInner(x)'
      <4>1. CASE Queued(x)
        <5>1. PICK k \in 1 .. Len(q) : q[k] = x
          BY <4>1 DEF Queued
        <5>2. k # 1
          BY <3>2, <3>4, <5>1
        <5>3. k - 1 \in 1 .. Len(q') /\ (k - 1) + 1 = k
          BY <3>2, <5>2
        <5> QED BY <3>2, <5>1, <5>3 DEF Queued
      <4>2. CASE AllInner(x)
        BY <1>1, <4>2 DEF AllInner
      <4> QED BY <1>3, <3>1, <3>4, <4>1, <4>2 DEF Frontier
    <3>5. \A k \in 1 .. Len(q') : label'[q'[k]] = 1
      BY <1>1, <1>3, <3>2 DEF Frontier
    <3>6. blAdj'[popped'] \in Seq(Vertex)
      BY <1>2, <3>3 DEF Bipartite
    <3>7. \A k \in 1 .. Len(blAdj'[popped']) : ~(k < scanned')
      BY <3>1, <3>6
    <3> QED BY <1>1, <3>1, <3>2, <3>3, <3>4, <3>5, <3>7 DEF Frontier
  <2>2. CASE Bl!EndScan
    <3>1. /\ q' = q /\ popped' = popped /\ scanned' = scanned /\ blAt = "scan" /\ blAt' = "pop"
          /\ scanned > Len(blAdj[popped])
      BY <2>2 DEF Bl!EndScan, Bl!forest, Bl!scan
    <3>2. popped \in Vertex /\ scanned \in Nat
      BY <1>3, <3>1 DEF Frontier
    <3>3. blAdj[popped] \in Seq(Vertex)
      BY <3>2 DEF BlInv, Bipartite
    <3>4. \A k \in 1 .. Len(blAdj[popped]) : k < scanned
      BY <3>1, <3>2, <3>3
    <3>5. AllInner(popped)
      BY <1>3, <3>1, <3>4 DEF Frontier, AllInner
    <3>6. \A x : (AllInner(x)' <=> AllInner(x)) /\ (Queued(x)' <=> Queued(x))
      BY <1>1, <3>1 DEF AllInner, Queued
    <3> QED BY <1>1, <1>3, <3>1, <3>5, <3>6 DEF Frontier
  <2>3. CASE Bl!SkipNeighbour
    <3>1. /\ q' = q /\ popped' = popped /\ scanned' = scanned + 1 /\ blAt = "scan" /\ blAt' = "scan"
          /\ Bl!Scanning /\ Bl!Ignored
      BY <2>3 DEF Bl!SkipNeighbour, Bl!forest, Bl!Scanning
    <3>2. /\ scanned \in 1 .. Len(blAdj[popped]) /\ label[blAdj[popped][scanned]] = -1
          /\ popped \in Vertex
      BY <3>1, ScanState
    <3>3. blAdj[popped] \in Seq(Vertex)
      BY <3>2 DEF BlInv, Bipartite
    <3>4. ASSUME NEW k \in 1 .. Len(blAdj[popped]), k < scanned + 1
          PROVE  label[blAdj[popped][k]] = -1
      <4>1. k = scanned \/ k < scanned
        BY <3>2, <3>3, <3>4
      <4> QED BY <1>3, <3>1, <3>2, <4>1 DEF Frontier
    <3>5. \A x : (AllInner(x)' <=> AllInner(x)) /\ (Queued(x)' <=> Queued(x))
      BY <1>1, <3>1 DEF AllInner, Queued
    <3>6. scanned + 1 \in Nat \ {0}
      BY <3>2, <3>3
    <3> QED BY <1>1, <1>3, <3>1, <3>4, <3>5, <3>6 DEF Frontier
  <2> QED BY <2>1, <2>2, <2>3
<1>10. BlTypes'
  BY <1>1, <1>9 DEF BlInv, BlTypes
<1>11. (\E o \in [Vertex -> Nat] : Search(o)') /\ (\E C \in SUBSET Index : Closed(C)')
  BY <1>5, <1>7
<1> QED BY <1>1, <1>2, <1>8, <1>9, <1>10, <1>11 DEF BlInv

\* A search for a woman's partner does not find a way into the closed set.
LEMMA NotIntoClosed ==
  ASSUME N \in Nat, BlInv, Bl!Scanning, NEW D \in SUBSET Index, Closed(D), s \notin Index
  PROVE  Bl!u \notin D
<1> SUFFICES ASSUME Bl!u \in D PROVE FALSE
  OBVIOUS
<1>1. /\ popped \in Vertex /\ label[popped] = 1 /\ Bl!Edge(Bl!u, popped) /\ blAt = "scan"
  BY ScanState DEF Bl!Scanning
<1>2. Alternating /\ \E ord : Tree(ord)
  BY <1>1 DEF BlInv, Search
<1>3. match[popped] \in D
  BY <1>1 DEF Closed
<1>4. popped # s
  BY <1>2, <1>3, VertexFacts DEF Alternating
<1>5. label[match[popped]] = -1
  BY <1>1, <1>2, <1>4 DEF Alternating, Tree
<1> QED BY <1>1, <1>3, <1>5 DEF Closed

\* u has no mate: the flip begins there.  The source is a man.
LEMMA PathFoundStep ==
  ASSUME N \in Nat, N > 0, BlInv, Bl!PathFound
  PROVE  BlInv'
<1> DEFINE x0 == Bl!u
<1>1. /\ UNCHANGED <<blAdj, match, blCount, s, label, base, q>>
      /\ blAt = "scan" /\ blAt' = "flip" /\ Bl!Scanning
      /\ label[x0] = 0 /\ match[x0] = -1
      /\ pred' = [pred EXCEPT ![x0] = popped] /\ a' = x0
  BY VertexFacts DEF Bl!PathFound, Bl!graph, Bl!Scanning
<1>2. /\ popped \in Vertex /\ label[popped] = 1 /\ s \in Vertex
      /\ x0 \in Vertex /\ Bl!Edge(popped, x0) /\ Bl!Edge(x0, popped)
      /\ x0 \in Index <=> s \notin Index
  BY <1>1, ScanState
<1>3. /\ Bipartite' /\ (\A x, y : Bl!Edge(x, y)' <=> Bl!Edge(x, y))
      /\ (\A x : Coupled(x)' <=> Coupled(x)) /\ Taken' = Taken
  BY <1>1, KeepsCouples
<1>u. PICK u0 : u0 = x0
  OBVIOUS
<1> HIDE DEF x0
<1>4. BlTypes' /\ BetweenFlips'
  BY <1>1, <1>2 DEF BlInv, BlTypes, BetweenFlips
<1>5. PICK ord \in [Vertex -> Nat] : Tree(ord)
  BY <1>1 DEF BlInv, Search
<1>6. PICK D \in SUBSET Index : Closed(D)
  BY DEF BlInv
<1>7. Alternating /\ (\A x \in Vertex : Coupled(x)) /\ Cardinality(Taken) = 2 * blCount
  BY <1>1 DEF BlInv, BetweenFlips
<1>8. s \in Index
  <2> SUFFICES ASSUME s \notin Index PROVE FALSE
    OBVIOUS
  <2>1. x0 \in Index /\ x0 < s
    BY <1>2 DEF Index, Vertex
  <2>2. x0 \in D
    BY <1>1, <1>6, <2>1 DEF Closed
  <2> QED BY <1>1, <1>6, <2>2, NotIntoClosed DEF x0
<1>9. PICK high \in [Vertex -> Nat] : high = [ord EXCEPT ![u0] = ord[popped] + 1]
  <2>1. ord[popped] + 1 \in Nat
    BY <1>2
  <2> QED BY <2>1
<1>10. /\ high[x0] = ord[popped] + 1 /\ pred'[x0] = popped /\ pred \in [Vertex -> Vertex \cup {-1}]
       /\ \A x \in Vertex : x # x0 => high[x] = ord[x] /\ pred'[x] = pred[x]
  BY <1>1, <1>2, <1>9, <1>u DEF BlInv, BlTypes
<1>11. Tree(high)'
  <2>1. ASSUME NEW x \in Vertex, label[x] # 0, x # s
        PROVE  /\ pred'[x] \in Vertex /\ Bl!Edge(x, pred'[x])
               /\ label[pred'[x]] = -label[x] /\ high[pred'[x]] < high[x]
    <3>1. /\ pred[x] \in Vertex /\ Bl!Edge(x, pred[x])
          /\ label[pred[x]] = -label[x] /\ ord[pred[x]] < ord[x]
      BY <1>5, <2>1 DEF Tree
    <3>2. label[x] \in {-1, 1}
      BY <2>1 DEF BlInv, BlTypes
    <3>3. x # x0 /\ pred[x] # x0
      BY <1>1, <3>1, <3>2
    <3> QED BY <1>10, <3>1, <3>3
  <2>2. label[s] = 1 /\ \A x \in Vertex : label[x] = 1 => (x \in Index <=> s \in Index)
    BY <1>5 DEF Tree
  <2> QED BY <1>1, <1>3, <2>1, <2>2 DEF Tree
<1>12. FlipPath(high)'
  <2>1. ASSUME NEW x \in Vertex PROVE match[x] # x0
    BY <1>1, <1>7, <2>1, <1>2, VertexFacts DEF Coupled
  <2>2. ASSUME NEW x \in Vertex, label[x] = 1
        PROVE  match[x] = IF x = s THEN -1 ELSE pred'[x]
    BY <1>1, <1>7, <1>10, <2>2 DEF Alternating
  <2>3. high[popped] < high[x0]
    BY <1>1, <1>2, <1>10
  <2> QED BY <1>1, <1>2, <1>3, <1>7, <1>10, <2>1, <2>2, <2>3 DEF FlipPath
<1>13. Search(high)'
  BY <1>1, <1>2, <1>11, <1>12 DEF Search, BlFlipping
<1>14. Closed(D)'
  <2>1. ASSUME NEW x \in D PROVE ~Bl!Edge(x, x0)
    BY <1>1, <1>2, <1>6, VertexFacts DEF Closed
  <2> QED BY <1>1, <1>3, <1>6, <1>8, <2>1 DEF Closed
<1>15. (\E o \in [Vertex -> Nat] : Search(o)') /\ (\E C \in SUBSET Index : Closed(C)')
  BY <1>13, <1>14
<1> QED BY <1>1, <1>3, <1>4, <1>15 DEF BlInv

\* u and its mate w join the tree, and w the queue.
LEMMA ExtendTreeStep ==
  ASSUME N \in Nat, N > 0, BlInv, Bl!ExtendTree
  PROVE  BlInv'
<1> DEFINE x0 == Bl!u
           w0 == match[x0]
<1>1. /\ UNCHANGED <<blAdj, match, blCount, s, base, popped>>
      /\ blAt = "scan" /\ blAt' = "scan" /\ Bl!Scanning
      /\ label[x0] = 0 /\ w0 # -1
      /\ label' = [label EXCEPT ![x0] = -1, ![w0] = 1]
      /\ pred' = [pred EXCEPT ![x0] = popped, ![w0] = x0]
      /\ q' = Append(q, w0) /\ scanned' = scanned + 1
  BY VertexFacts DEF Bl!ExtendTree, Bl!graph, Bl!Scanning
<1>2. /\ popped \in Vertex /\ label[popped] = 1 /\ s \in Vertex
      /\ x0 \in Vertex /\ Bl!Edge(popped, x0) /\ Bl!Edge(x0, popped)
      /\ x0 \in Index <=> s \notin Index
      /\ scanned \in 1 .. Len(blAdj[popped]) /\ x0 = blAdj[popped][scanned]
  BY <1>1, ScanState
<1>3. /\ Bipartite' /\ BetweenFlips' /\ (\A x, y : Bl!Edge(x, y)' <=> Bl!Edge(x, y))
  BY <1>1, KeepsCouples
<1>u. PICK u0 : u0 = x0
  OBVIOUS
<1>w. PICK w : w = w0
  OBVIOUS
<1>not. s \notin Index => \A D \in SUBSET Index : Closed(D) => x0 \notin D
  BY <1>1, NotIntoClosed
<1> HIDE DEF x0
<1>4. PICK ord \in [Vertex -> Nat] : Tree(ord)
  BY <1>1 DEF BlInv, Search
<1>5. PICK D \in SUBSET Index : Closed(D)
  BY DEF BlInv
<1>6. /\ Alternating /\ Frontier /\ \A x \in Vertex : Coupled(x)
      /\ match \in [Vertex -> Vertex \cup {-1}] /\ label \in [Vertex -> {-1, 0, 1}]
      /\ pred \in [Vertex -> Vertex \cup {-1}] /\ q \in Seq(Vertex)
  BY <1>1 DEF BlInv, BetweenFlips, BlTypes
<1>7. w \in Vertex /\ match[x0] = w /\ match[w] = x0 /\ Bl!Edge(x0, w) /\ Bl!Edge(w, x0)
      /\ (w \in Index <=> s \in Index) /\ w # x0
  <2>1. w \in Vertex /\ match[x0] = w /\ match[w] = x0 /\ Bl!Edge(x0, w)
    BY <1>1, <1>2, <1>6, <1>w DEF Coupled
  <2>2. Bl!Edge(w, x0) /\ (x0 \in Index <=> w \notin Index)
    BY <1>2, <2>1 DEF BlInv, Bipartite
  <2> QED BY <1>2, <2>1, <2>2
<1>8. x0 # s /\ w # s /\ label[w] = 0
  <2>1. x0 # s
    BY <1>2
  <2>2. w # s
    BY <1>6, <1>7, <1>2, VertexFacts DEF Alternating
  <2>3. label[w] # 1
    <3> SUFFICES ASSUME label[w] = 1 PROVE FALSE
      OBVIOUS
    <3>1. pred[w] = x0 /\ label[x0] = -1
      BY <1>4, <1>6, <1>7, <2>2 DEF Alternating, Tree
    <3> QED BY <1>1, <3>1
  <2>4. label[w] # -1
    BY <1>1, <1>6, <1>7 DEF Alternating
  <2> QED BY <1>6, <1>7, <2>1, <2>2, <2>3, <2>4
<1>9. /\ label'[x0] = -1 /\ label'[w] = 1 /\ pred'[x0] = popped /\ pred'[w] = x0
      /\ \A x \in Vertex : x # x0 /\ x # w => label'[x] = label[x] /\ pred'[x] = pred[x]
      /\ label' \in [Vertex -> {-1, 0, 1}] /\ pred' \in [Vertex -> Vertex \cup {-1}]
  BY <1>1, <1>2, <1>6, <1>7, <1>w
<1>10. q' \in Seq(Vertex) /\ Len(q') = Len(q) + 1 /\ Len(q) \in Nat
       /\ (\A k \in 1 .. Len(q) : q'[k] = q[k]) /\ q'[Len(q) + 1] = w
  BY <1>1, <1>6, <1>7, <1>w
<1> HIDE DEF w0
<1>11. BlTypes'
  BY <1>1, <1>9, <1>10 DEF BlInv, BlTypes
<1>12. PICK high \in [Vertex -> Nat] :
          high = [ord EXCEPT ![u0] = ord[popped] + 1, ![w] = ord[popped] + 2]
  <2>1. ord[popped] + 1 \in Nat /\ ord[popped] + 2 \in Nat
    BY <1>2
  <2> QED BY <2>1
<1>13. /\ high[x0] = ord[popped] + 1 /\ high[w] = ord[popped] + 2 /\ ord[popped] \in Nat
       /\ \A x \in Vertex : x # x0 /\ x # w => high[x] = ord[x]
  BY <1>2, <1>7, <1>12, <1>u
<1>14. popped # x0 /\ popped # w
  BY <1>1, <1>2, <1>8
<1>15. Tree(high)'
  <2>1. ASSUME NEW x \in Vertex, label'[x] # 0, x # s
        PROVE  /\ pred'[x] \in Vertex /\ Bl!Edge(x, pred'[x])
               /\ label'[pred'[x]] = -label'[x] /\ high[pred'[x]] < high[x]
    <3>1. CASE x = x0
      <4>1. label'[popped] = 1 /\ high[popped] = ord[popped]
        BY <1>2, <1>9, <1>13, <1>14
      <4> QED BY <1>2, <1>9, <1>13, <3>1, <4>1
    <3>2. CASE x = w
      BY <1>2, <1>7, <1>9, <1>13, <3>2
    <3>3. CASE x # x0 /\ x # w
      <4>1. label[x] # 0 /\ label[x] \in {-1, 1} /\ label'[x] = label[x] /\ pred'[x] = pred[x]
        BY <1>6, <1>9, <2>1, <3>3
      <4>2. /\ pred[x] \in Vertex /\ Bl!Edge(x, pred[x])
            /\ label[pred[x]] = -label[x] /\ ord[pred[x]] < ord[x]
        BY <1>4, <2>1, <4>1 DEF Tree
      <4>3. pred[x] # x0 /\ pred[x] # w
        BY <1>1, <1>8, <4>1, <4>2
      <4> QED BY <1>9, <1>13, <3>3, <4>1, <4>2, <4>3
    <3> QED BY <3>1, <3>2, <3>3
  <2>2. label'[s] = 1
    BY <1>2, <1>4, <1>8, <1>9 DEF Tree
  <2>3. \A x \in Vertex : label'[x] = 1 => (x \in Index <=> s \in Index)
    BY <1>4, <1>7, <1>9 DEF Tree
  <2> QED BY <1>1, <1>3, <2>1, <2>2, <2>3 DEF Tree
<1>16. Search(high)'
  BY <1>1, <1>15 DEF Search, BlFlipping
<1>17. Alternating'
  <2>1. ASSUME NEW x \in Vertex, label'[x] = 1, x # s PROVE match[x] = pred'[x]
    <3>1. CASE x = w
      BY <1>7, <1>9, <3>1
    <3>2. CASE x # w
      <4>1. x # x0
        BY <1>9, <2>1
      <4>2. label[x] = 1 /\ pred'[x] = pred[x]
        BY <1>9, <2>1, <3>2, <4>1
      <4> QED BY <1>6, <2>1, <4>2 DEF Alternating
    <3> QED BY <3>1, <3>2
  <2>2. ASSUME NEW x \in Vertex, label'[x] = -1 PROVE match[x] # -1 /\ label'[match[x]] = 1
    <3>1. CASE x = x0
      BY <1>7, <1>9, <3>1, VertexFacts
    <3>2. CASE x # x0
      <4>1. label[x] = -1
        BY <1>9, <2>2, <3>2
      <4>2. match[x] # -1 /\ match[x] \in Vertex /\ label[match[x]] = 1
        BY <1>6, <4>1 DEF Alternating
      <4>3. match[x] # x0 /\ match[x] # w
        BY <1>1, <1>8, <4>2
      <4> QED BY <1>9, <4>2, <4>3
    <3> QED BY <3>1, <3>2
  <2>3. match[s] = -1
    BY <1>6 DEF Alternating
  <2> QED BY <1>1, <2>1, <2>2, <2>3 DEF Alternating
<1>18. Frontier'
  <2>1. blAdj[popped] \in Seq(Vertex)
    BY <1>2 DEF BlInv, Bipartite
  <2>2. ASSUME NEW y \in Vertex, label[y] = -1 PROVE label'[y] = -1
    BY <1>1, <1>8, <1>9, <2>2
  <2>3. ASSUME NEW k \in 1 .. Len(blAdj[popped]), k < scanned + 1
        PROVE  label'[blAdj[popped][k]] = -1
    <3>1. CASE k = scanned
      BY <1>2, <1>9, <3>1
    <3>2. CASE k # scanned
      <4>1. k < scanned /\ blAdj[popped][k] \in Vertex
        BY <1>2, <2>1, <2>3, <3>2
      <4>2. label[blAdj[popped][k]] = -1
        BY <1>1, <1>6, <4>1 DEF Frontier
      <4> QED BY <2>2, <4>1, <4>2
    <3> QED BY <3>1, <3>2
  <2>4. ASSUME NEW k \in 1 .. Len(q') PROVE label'[q'[k]] = 1
    <3>1. CASE k = Len(q) + 1
      BY <1>9, <1>10, <3>1
    <3>2. CASE k # Len(q) + 1
      <4>1. k \in 1 .. Len(q) /\ q'[k] = q[k] /\ q[k] \in Vertex
        BY <1>6, <1>10, <3>2
      <4>2. label[q[k]] = 1
        BY <1>6, <4>1 DEF Frontier
      <4> QED BY <1>1, <1>8, <1>9, <4>1, <4>2
    <3> QED BY <3>1, <3>2
  <2>5. ASSUME NEW x \in Vertex, label'[x] = 1, x # popped
        PROVE  Queued(x)' \/ AllInner(x)'
    <3>1. CASE x = w
      <4>1. Len(q) + 1 \in 1 .. Len(q')
        BY <1>10
      <4> QED BY <1>10, <3>1, <4>1 DEF Queued
    <3>2. CASE x # w
      <4>1. label[x] = 1
        BY <1>9, <2>5, <3>2
      <4>2. CASE Queued(x)
        <5>1. PICK k \in 1 .. Len(q) : q[k] = x
          BY <4>2 DEF Queued
        <5>2. k \in 1 .. Len(q')
          BY <1>10
        <5> QED BY <1>10, <5>1, <5>2 DEF Queued
      <4>3. CASE AllInner(x)
        <5>1. \A k \in 1 .. Len(blAdj[x]) : blAdj[x][k] \in Vertex
          BY DEF BlInv, Bipartite
        <5> QED BY <1>1, <2>2, <4>3, <5>1 DEF AllInner
      <4> QED BY <1>6, <2>5, <4>1, <4>2, <4>3 DEF Frontier
    <3> QED BY <3>1, <3>2
  <2>6. scanned + 1 \in Nat \ {0} /\ label'[popped] = 1
    BY <1>2, <1>9, <1>14, <2>1
  <2> QED BY <1>1, <1>2, <2>3, <2>4, <2>5, <2>6 DEF Frontier
<1>19. Closed(D)'
  <2>1. ASSUME s \notin Index, NEW x \in D PROVE label'[x] # -1
    <3>1. x \in Vertex /\ x # x0 /\ label[x] # -1
      BY <1>1, <1>5, <1>not, <2>1, VertexFacts DEF Closed
    <3> QED BY <1>9, <3>1
  <2> QED BY <1>1, <1>3, <1>5, <2>1 DEF Closed
<1>20. (\E o \in [Vertex -> Nat] : Search(o)') /\ (\E C \in SUBSET Index : Closed(C)')
  BY <1>16, <1>19
<1> QED BY <1>1, <1>3, <1>11, <1>17, <1>18, <1>20 DEF BlInv

\* No neighbour of an outer vertex is outer: lca and markPath are never called.
LEMMA NoCycle ==
  ASSUME N \in Nat, BlInv
  PROVE  ~Bl!FoundCycle /\ ~Bl!Climb /\ ~Bl!Meet /\ ~Bl!Mark /\ ~Bl!EndMark
<1>1. ~Bl!FoundCycle
  BY ScanState, VertexFacts DEF Bl!FoundCycle
<1> QED BY <1>1 DEF BlInv, BlTypes, Bl!Climb, Bl!Meet, Bl!Mark, Bl!EndMark, Bl!Marking

\* One round of the flip: x and its predecessor p are a couple now, and p's old
\* mate, if p is not the source, is the next free end.
LEMMA BlFlipStep ==
  ASSUME N \in Nat, N > 0, BlInv, Bl!Flip
  PROVE  BlInv'
<1>x. PICK x0 : x0 = a
  OBVIOUS
<1>p. PICK p0 : p0 = pred[a]
  OBVIOUS
<1>n. PICK next0 : next0 = match[p0]
  OBVIOUS
<1>1. /\ UNCHANGED <<blAdj, blCount, s, label, pred, base, q, blAt>>
      /\ blAt = "flip" /\ x0 # -1
      /\ match' = [match EXCEPT ![x0] = p0, ![p0] = x0]
      /\ a' = next0
  BY <1>x, <1>p, <1>n, VertexFacts DEF Bl!Flip, Bl!forest
<1>2. PICK ord \in [Vertex -> Nat] : Tree(ord) /\ x0 \in Vertex /\ FlipPath(ord)
  BY <1>1, <1>x DEF BlInv, Search, BlFlipping
<1>3. PICK D \in SUBSET Index : Closed(D)
  BY DEF BlInv
<1>4. /\ match \in [Vertex -> Vertex \cup {-1}] /\ s \in Vertex /\ blCount \in Nat
      /\ label \in [Vertex -> {-1, 0, 1}]
  BY <1>1 DEF BlInv, BlTypes
<1>5. /\ label[x0] # 1 /\ p0 \in Vertex /\ label[p0] = 1
      /\ Bl!Edge(x0, p0) /\ ord[p0] < ord[x0] /\ p0 # x0
      /\ match[p0] = IF p0 = s THEN -1 ELSE pred[p0]
  BY <1>2, <1>x, <1>p DEF FlipPath
<1>6. /\ Bl!Edge(p0, x0) /\ s \in Index /\ p0 \in Index /\ x0 \notin Index
  BY <1>1, <1>2, <1>3, <1>5 DEF BlInv, Bipartite, Tree, Closed
<1>7. \A x \in Vertex : x # x0 => Coupled(x) /\ match[x] # x0
  BY <1>2, <1>x DEF FlipPath
<1>8. /\ match'[x0] = p0 /\ match'[p0] = x0 /\ match' \in [Vertex -> Vertex \cup {-1}]
      /\ \A x \in Vertex : x # x0 /\ x # p0 => match'[x] = match[x]
  BY <1>1, <1>2, <1>4, <1>5
<1>9. \A x, y : Bl!Edge(x, y)' <=> Bl!Edge(x, y)
  BY <1>1 DEF Bl!Edge
<1>10. BlTypes' /\ Bipartite' /\ BetweenFlips'
  BY <1>1, <1>8, <1>9 DEF BlInv, BlTypes, Bipartite, BetweenFlips
<1>11. ASSUME NEW x \in Vertex, x # next0
       PROVE  Coupled(x)'
  <2>1. CASE x = x0
    BY <1>5, <1>8, <1>9, <2>1 DEF Coupled
  <2>2. CASE x = p0
    BY <1>6, <1>8, <1>9, <2>2 DEF Coupled
  <2>3. CASE x # x0 /\ x # p0 /\ match[x] # -1
    <3>1. /\ match[x] \in Vertex /\ match[x] # x0 /\ Bl!Edge(x, match[x])
          /\ match[match[x]] = x
      BY <1>4, <1>7, <2>3 DEF Coupled
    <3>2. match[x] # p0
      BY <1>11, <1>n, <3>1
    <3> QED BY <1>8, <1>9, <2>3, <3>1, <3>2 DEF Coupled
  <2>4. CASE x # x0 /\ x # p0 /\ match[x] = -1
    BY <1>8, <2>4 DEF Coupled
  <2> QED BY <2>1, <2>2, <2>3, <2>4
<1>12. Cardinality(Taken') = IF p0 = s THEN 2 * blCount + 2 ELSE 2 * blCount + 1
  <2>1. IsFiniteSet(Taken)
    BY VertexFacts, FS_Subset DEF Taken
  <2>2. Cardinality(Taken) = IF match[x0] = -1 THEN 2 * blCount ELSE 2 * blCount + 1
    BY <1>2, <1>x DEF FlipPath
  <2>3. Taken' = (Taken \cup {x0}) \cup {p0}
    BY <1>2, <1>5, <1>8, VertexFacts DEF Taken
  <2>4. IsFiniteSet(Taken \cup {x0}) /\ Cardinality(Taken \cup {x0}) = 2 * blCount + 1
    <3>1. x0 \in Taken <=> match[x0] # -1
      BY <1>2 DEF Taken
    <3> QED BY <1>4, <2>1, <2>2, <3>1, FS_AddElement
  <2>5. p0 \in Taken \cup {x0} <=> p0 # s
    <3>1. p0 # s => pred[p0] # -1
      BY <1>2, <1>5, VertexFacts DEF Tree
    <3> QED BY <1>5, <3>1 DEF Taken
  <2>6. CASE p0 = s
    <3>1. Cardinality(Taken') = (2 * blCount + 1) + 1
      BY <2>3, <2>4, <2>5, <2>6, FS_AddElement
    <3> QED BY <1>4, <2>6, <3>1
  <2>7. CASE p0 # s
    <3>1. Taken' = Taken \cup {x0}
      BY <2>3, <2>5, <2>7
    <3> QED BY <2>4, <2>7, <3>1
  <2> QED BY <2>6, <2>7
<1>13. Tree(ord)'
  BY <1>1, <1>2, <1>9 DEF Tree
<1>14. CASE p0 = s
  <2>1. next0 = -1
    BY <1>5, <1>14, <1>n
  <2>2. match'[s] # -1 /\ \A x \in Vertex : Coupled(x)'
    BY <1>2, <1>8, <1>11, <1>14, <2>1, VertexFacts
  <2>3. Search(ord)'
    BY <1>1, <1>12, <1>13, <1>14, <2>1, <2>2 DEF Search, BlFlipping
  <2>4. Closed(D)'
    <3>1. ASSUME NEW x \in D, NEW y \in Vertex, Bl!Edge(x, y) PROVE match'[y] \in D
      <4>1. y # x0
        BY <1>1, <1>3, <1>x, <3>1 DEF Closed
      <4>2. y # p0
        BY <1>6, <3>1, VertexFacts DEF BlInv, Bipartite
      <4> QED BY <1>3, <1>8, <3>1, <4>1, <4>2 DEF Closed
    <3>2. \A x \in Index : x < s /\ match'[x] = -1 => x \in D
      BY <1>2, <1>3, <1>5, <1>8, VertexFacts DEF Closed
    <3> QED BY <1>1, <1>6, <1>9, <2>1, <3>1, <3>2 DEF Closed
  <2>5. (\E o \in [Vertex -> Nat] : Search(o)') /\ (\E C \in SUBSET Index : Closed(C)')
    BY <2>3, <2>4
  <2> QED BY <1>1, <1>10, <2>5 DEF BlInv
<1>15. CASE p0 # s
  <2>1. /\ next0 = pred[p0] /\ next0 \in Vertex /\ label[next0] = -1 /\ ord[next0] < ord[p0]
        /\ next0 # s
    BY <1>2, <1>5, <1>15, <1>n DEF Tree
  <2>2. next0 # x0 /\ next0 # p0 /\ match[next0] = p0
    <3>1. match[next0] = p0
      BY <1>5, <1>7, <1>n, <2>1, VertexFacts DEF Coupled
    <3> QED BY <1>2, <1>5, <2>1, <3>1
  <2>3. FlipPath(ord)'
    <3>1. /\ pred[next0] \in Vertex /\ Bl!Edge(next0, pred[next0])
          /\ label[pred[next0]] = 1 /\ ord[pred[next0]] < ord[next0]
      BY <1>2, <2>1 DEF Tree
    <3>2. ASSUME NEW x \in Vertex, x # next0 PROVE match'[x] # next0
      <4>1. CASE x = x0 \/ x = p0
        BY <1>8, <2>2, <4>1
      <4>2. CASE x # x0 /\ x # p0
        <5> SUFFICES ASSUME match[x] = next0 PROVE FALSE
          BY <1>8, <4>2
        <5>1. match[next0] = x
          BY <1>7, <2>1, <4>2, VertexFacts DEF Coupled
        <5> QED BY <2>2, <4>2, <5>1
      <4> QED BY <4>1, <4>2
    <3>3. ASSUME NEW x \in Vertex, label[x] = 1, ord[x] < ord[next0]
          PROVE  match'[x] = IF x = s THEN -1 ELSE pred[x]
      <4>1. ord[x] < ord[x0] /\ x # p0 /\ x # x0
        BY <1>2, <1>5, <2>1, <3>3
      <4>2. match[x] = IF x = s THEN -1 ELSE pred[x]
        BY <1>2, <1>x, <3>3, <4>1 DEF FlipPath
      <4> QED BY <1>8, <4>1, <4>2
    <3>4. match'[next0] # -1
      BY <1>5, <1>8, <2>1, <2>2, VertexFacts
    <3>5. \A x \in Vertex : x # a' => Coupled(x)' /\ match'[x] # a'
      BY <1>1, <1>11, <3>2
    <3>6. Cardinality(Taken') = IF match'[a'] = -1 THEN 2 * blCount' ELSE 2 * blCount' + 1
      BY <1>1, <1>12, <1>15, <3>4
    <3>7. /\ label'[a'] # 1
          /\ pred'[a'] \in Vertex /\ Bl!Edge(a', pred'[a']) /\ label'[pred'[a']] = 1
          /\ ord[pred'[a']] < ord[a']
      BY <1>1, <2>1, <3>1
    <3>8. Bl!Edge(a, pred[a])'
      BY <1>9, <3>7
    <3>9. \A x \in Vertex : label'[x] = 1 /\ ord[x] < ord[a'] =>
             match'[x] = IF x = s' THEN -1 ELSE pred'[x]
      BY <1>1, <3>3
    <3> QED BY <3>5, <3>6, <3>7, <3>8, <3>9 DEF FlipPath
  <2>4. Search(ord)'
    BY <1>1, <1>13, <2>1, <2>3 DEF Search, BlFlipping
  <2>5. Closed(D)'
    <3>1. ASSUME NEW x \in D, NEW y \in Vertex, Bl!Edge(x, y) PROVE match'[y] \in D
      <4>1. y # x0
        BY <1>1, <1>3, <1>x, <3>1 DEF Closed
      <4>2. y # p0
        BY <1>6, <3>1, VertexFacts DEF BlInv, Bipartite
      <4> QED BY <1>3, <1>8, <3>1, <4>1, <4>2 DEF Closed
    <3>2. \A x \in Index : x < s /\ match'[x] = -1 => x \in D
      BY <1>2, <1>3, <1>5, <1>8, VertexFacts DEF Closed
    <3>3. ASSUME NEW x \in D, Bl!Edge(x, next0) PROVE FALSE
      <4>1. p0 \in D
        BY <1>3, <2>1, <2>2, <3>3 DEF Closed
      <4> QED BY <1>1, <1>3, <1>6, <1>x, <4>1 DEF Closed
    <3> QED BY <1>1, <1>6, <1>9, <3>1, <3>2, <3>3 DEF Closed
  <2>6. (\E o \in [Vertex -> Nat] : Search(o)') /\ (\E C \in SUBSET Index : Closed(C)')
    BY <2>4, <2>5
  <2> QED BY <1>1, <1>10, <2>6 DEF BlInv
<1> QED BY <1>14, <1>15

LEMMA BlStep ==
  ASSUME N \in Nat, N > 0
  PROVE  BlInv /\ [Bl!Next]_Bl!vars => BlInv'
<1> SUFFICES ASSUME BlInv, [Bl!Next]_Bl!vars PROVE BlInv'
  OBVIOUS
<1>1. CASE Bl!SkipSource
  BY <1>1, SkipVertexStep
<1>2. CASE Bl!StartAugment
  BY <1>2, StartAugmentStep
<1>3. CASE Bl!GiveUp
  BY <1>3, GiveUpStep
<1>4. CASE Bl!PopVertex \/ Bl!EndScan \/ Bl!SkipNeighbour
  BY <1>4, PopScanStep
<1>5. CASE Bl!PathFound
  BY <1>5, PathFoundStep
<1>6. CASE Bl!ExtendTree
  BY <1>6, ExtendTreeStep
<1>7. CASE Bl!Flip
  BY <1>7, BlFlipStep
<1>8. CASE Bl!Augmented
  BY <1>8, AugmentedStep
<1>9. CASE UNCHANGED Bl!vars
  <2>1. /\ UNCHANGED <<blAdj, match, blCount, s, label, pred, base, q>>
        /\ UNCHANGED <<popped, scanned, a, blAt>>
    BY <1>9 DEF Bl!vars, Bl!graph, Bl!forest, Bl!scan, Bl!walk
  <2>2. /\ Bipartite' /\ (\A x, y : Bl!Edge(x, y)' <=> Bl!Edge(x, y))
        /\ (\A x : Coupled(x)' <=> Coupled(x)) /\ Taken' = Taken
    BY <2>1, KeepsCouples
  <2>3. BlTypes' /\ BetweenFlips'
    BY <2>1, <2>2 DEF BlInv, BlTypes, BetweenFlips
  <2>4. Alternating' <=> Alternating
    BY <2>1 DEF Alternating
  <2>5. Frontier' <=> Frontier
    BY <2>1 DEF Frontier, Queued, AllInner
  <2>6. ASSUME NEW ord, Search(ord) PROVE Search(ord)'
    BY <2>1, <2>2, <2>6 DEF Search, BlFlipping, Tree, FlipPath
  <2>7. ASSUME NEW D, Closed(D) PROVE Closed(D)'
    BY <2>1, <2>2, <2>7 DEF Closed
  <2>8. (\E o \in [Vertex -> Nat] : Search(o)') /\ (\E C \in SUBSET Index : Closed(C)')
    BY <2>6, <2>7 DEF BlInv
  <2> QED BY <2>1, <2>2, <2>3, <2>4, <2>5, <2>8 DEF BlInv
<1> QED BY <1>1, <1>2, <1>3, <1>4, <1>5, <1>6, <1>7, <1>8, <1>9, NoCycle DEF Bl!Next

LEMMA RunsBlossom == Spec => Bl!Start(GeneralPairs) /\ [][Bl!Next]_Bl!vars
<1>1. Init => Bl!Start(GeneralPairs)
  BY DEF Init
<1>2. [Next]_vars => [Bl!Next]_Bl!vars
  BY DEF Next, runGaleShapley, runHopcroftKarp, runHungarian, runBlossom, vars, bl,
         Bl!vars, Bl!graph, Bl!forest, Bl!scan, Bl!walk
<1> QED BY <1>1, <1>2, PTL DEF Spec

LEMMA BlInvariant == Spec => []BlInv
<1>1. Bl!Start(GeneralPairs) => BlInv
  BY NumberOfPeople, BlStart
<1>2. BlInv /\ [Bl!Next]_Bl!vars => BlInv'
  BY NumberOfPeople, BlStep
<1> QED BY <1>1, <1>2, RunsBlossom, PTL

\* On the graphs runBlossom builds, match_ is a matching of compatible pairs
\* between any two augmentations, and the result counts its couples.
THEOREM BlossomIsValid == Spec => []Bl!MatchingIsValid
<1>1. BlInv => Bl!MatchingIsValid
  <2>1. \A A : Bl!Cardinality(A) = Cardinality(A)
    BY DEF Bl!Cardinality, Cardinality
  <2>2. {x \in Bl!Vertex : match[x] # Bl!None} = Taken
    BY NumberOfPeople, VertexFacts DEF Taken
  <2> QED BY <2>1, <2>2, NumberOfPeople, VertexFacts DEF BlInv, BetweenFlips, Coupled, Bl!MatchingIsValid
<1> QED BY <1>1, BlInvariant, PTL

\* Flipping a path follows no predecessor that is not there, nor does a walk
\* through the tree: runBlossom never reads the vertex -1.
THEOREM BlossomWalksInBounds == Spec => []Bl!NoWildIndex
<1>1. BlInv => Bl!NoWildIndex
  <2> SUFFICES ASSUME BlInv PROVE Bl!NoWildIndex
    OBVIOUS
  <2>1. blAt = "flip" /\ a # -1 => pred[a] # -1
    BY NumberOfPeople, VertexFacts DEF BlInv, Search, BlFlipping, FlipPath
  <2> QED BY <2>1, NumberOfPeople, VertexFacts DEF BlInv, BlTypes, Bl!NoWildIndex, Bl!Marking
<1> QED BY <1>1, BlInvariant, PTL

\* Neither lca nor markPath is running.
NoBlossoms == blAt \notin {"climb", "meet", "mark v", "mark u"}

\* No edge joins two outer vertices of runBlossom's graphs: blossom.cpp's own
\* part, the contraction of odd cycles, is dead code there.
THEOREM NoBlossomsFound == Spec => []NoBlossoms
<1>1. BlInv => NoBlossoms
  BY DEF BlInv, BlTypes, NoBlossoms
<1> QED BY <1>1, BlInvariant, PTL

\* What runBlossom reports: a man's partner, by her number among the women.
Wives == [m \in Index |-> IF match[m] # -1 THEN match[m] - N ELSE -1]

BlReport ==
  /\ \A x, y \in Vertex : Bl!Edge(x, y) <=> Joined(x, y)
  /\ Reported("Blossom") =>
       /\ Bl!Done
       /\ results["Blossom"].matchM = Wives
       /\ results["Blossom"].matchedCount = Cardinality({x \in Index : Wives[x] # -1})

LEMMA BlReportInvariant == Spec => []BlReport
<1>1. Init => BlReport
  BY GraphIsCompatible, NumberOfPeople DEF Init, BlReport, Reported
<1>2. BlReport /\ [Next]_vars => BlReport'
  <2> SUFFICES ASSUME BlReport, [Next]_vars PROVE BlReport'
    OBVIOUS
  <2>1. COMPAT' = COMPAT /\ blAdj' = blAdj
    BY DEF Next, runGaleShapley, runHopcroftKarp, runHungarian, runBlossom, vars, bl,
           Bl!Next, Bl!SkipSource, Bl!StartAugment, Bl!GiveUp, Bl!PopVertex, Bl!EndScan,
           Bl!SkipNeighbour, Bl!PathFound, Bl!ExtendTree, Bl!FoundCycle, Bl!Flip, Bl!Augmented,
           Bl!Climb, Bl!Meet, Bl!Mark, Bl!EndMark, Bl!graph
  <2>2. \A x, y \in Vertex : Bl!Edge(x, y)' <=> Joined(x, y)'
    BY <2>1 DEF BlReport, Bl!Edge, Joined, Compatible
  <2>3. ASSUME NEW m, Calls("Blossom"), Bl!Done, m = Wives, Report(m), UNCHANGED bl
        PROVE  BlReport'
    <3>1. match' = match /\ s' = s /\ blAt' = blAt
      BY <2>3 DEF bl
    <3>2. Wives' = Wives
      BY <3>1 DEF Wives
    <3>3. results'["Blossom"].matchM = m /\ results'["Blossom"].matchedCount = Cardinality({x \in Index : m[x] # -1})
      BY <2>3 DEF Report, Calls, matchesToJson
    <3>4. Bl!Done'
      BY <2>3, <3>1 DEF Bl!Done
    <3> QED BY <2>2, <2>3, <3>2, <3>3, <3>4 DEF BlReport
  <2>4. ASSUME NEW m, NEW algorithm, algorithm # "Blossom", Calls(algorithm),
               Report(m), UNCHANGED bl
        PROVE  BlReport'
    <3>1. match' = match /\ s' = s /\ blAt' = blAt
      BY <2>4 DEF bl
    <3>2. Wives' = Wives /\ (Bl!Done' <=> Bl!Done)
      BY <3>1 DEF Wives, Bl!Done
    <3>3. Reported("Blossom")' => Reported("Blossom") /\ results'["Blossom"] = results["Blossom"]
      BY <2>4 DEF Reported, Report, Calls
    <3> QED BY <2>2, <3>2, <3>3 DEF BlReport
  <2>5. CASE Bl!Next /\ UNCHANGED results
    <3>1. ~Bl!Done
      <4>1. Bl!SkipSource \/ Bl!StartAugment => s < 2 * N
        BY DEF Bl!SkipSource, Bl!StartAugment
      <4>2. s < 2 * N => s # 2 * N
        BY NumberOfPeople
      <4>3. Bl!GiveUp \/ Bl!PopVertex \/ Bl!EndScan \/ Bl!SkipNeighbour => blAt # "source"
        BY DEF Bl!GiveUp, Bl!PopVertex, Bl!EndScan, Bl!SkipNeighbour, Bl!Scanning
      <4>4. Bl!PathFound \/ Bl!ExtendTree \/ Bl!FoundCycle \/ Bl!Flip \/ Bl!Augmented => blAt # "source"
        BY DEF Bl!PathFound, Bl!ExtendTree, Bl!FoundCycle, Bl!Flip, Bl!Augmented, Bl!Scanning
      <4>5. Bl!Climb \/ Bl!Meet \/ Bl!Mark \/ Bl!EndMark => blAt # "source"
        BY DEF Bl!Climb, Bl!Meet, Bl!Mark, Bl!EndMark, Bl!Marking
      <4> QED BY <2>5, <4>1, <4>2, <4>3, <4>4, <4>5 DEF Bl!Next, Bl!Done
    <3> QED BY <2>2, <2>5, <3>1 DEF BlReport, Reported
  <2>6. CASE UNCHANGED <<results, bl>>
    <3>1. match' = match /\ s' = s /\ blAt' = blAt /\ results' = results
      BY <2>6 DEF bl
    <3>2. Wives' = Wives /\ (Bl!Done' <=> Bl!Done)
      BY <3>1 DEF Wives, Bl!Done
    <3> QED BY <2>2, <3>1, <3>2 DEF BlReport, Reported
  <2> QED BY <2>3, <2>4, <2>5, <2>6 DEF Next, runGaleShapley, runHopcroftKarp, runHungarian, runBlossom, vars, Wives
<1> QED BY <1>1, <1>2, PTL DEF Spec

\* The couples at the end.
LEMMA WivesAreCompatible ==
  ASSUME N \in Nat, BlInv, BlReport, Bl!Done
  PROVE  /\ Wives \in [Index -> Index \cup {-1}]
         /\ \A x \in Index : Wives[x] # -1 <=> match[x] # -1
         /\ \A x \in Index : Wives[x] # -1 => <<x, Wives[x]>> \in Compatible
         /\ \A x, y \in Index : Wives[x] # -1 /\ Wives[x] = Wives[y] => x = y
<1>1. /\ match \in [Vertex -> Vertex \cup {-1}] /\ \A x \in Vertex : Coupled(x)
  BY DEF BlInv, BlTypes, BetweenFlips, Bl!Done
<1>2. ASSUME NEW x \in Index, match[x] # -1
      PROVE  /\ match[x] - N \in Index /\ Wives[x] = match[x] - N /\ <<x, match[x] - N>> \in Compatible
             /\ match[match[x]] = x /\ match[x] \in Vertex
  <2>1. x \in Vertex /\ match[x] \in Vertex
    BY <1>1, <1>2, VertexFacts
  <2>2. Joined(x, match[x]) /\ match[match[x]] = x
    BY <1>1, <1>2, <2>1 DEF Coupled, BlReport
  <2>3. x - N \notin Index
    BY DEF Index
  <2>4. <<x, match[x] - N>> \in Compatible
    BY <2>2, <2>3 DEF Joined, Compatible
  <2>5. match[x] - N \in Index
    BY <2>4 DEF Compatible
  <2> QED BY <1>2, <2>1, <2>2, <2>4, <2>5 DEF Wives
<1>3. \A x \in Index : match[x] = -1 => Wives[x] = -1
  BY DEF Wives
<1>4. \A x \in Index : Wives[x] # -1 <=> match[x] # -1
  BY <1>2, <1>3, VertexFacts
<1>5. Wives \in [Index -> Index \cup {-1}]
  <2>1. \A x \in Index : Wives[x] \in Index \cup {-1}
    BY <1>2, <1>3
  <2> QED BY <2>1 DEF Wives
<1>6. \A x \in Index : Wives[x] # -1 => <<x, Wives[x]>> \in Compatible
  BY <1>2, <1>4
<1>7. ASSUME NEW x \in Index, NEW y \in Index, Wives[x] # -1, Wives[x] = Wives[y]
      PROVE  x = y
  <2>1. match[x] - N = match[y] - N /\ match[x] \in Vertex /\ match[y] \in Vertex
        /\ match[match[x]] = x /\ match[match[y]] = y
    BY <1>2, <1>4, <1>7
  <2>2. match[x] = match[y]
    BY <2>1 DEF Vertex
  <2> QED BY <2>1, <2>2
<1> QED BY <1>4, <1>5, <1>6, <1>7

\* The cover of the closed set's neighbours and the other men, as in
\* NoLargerMatching.
LEMMA NoLargerThanBlossoms ==
  ASSUME N \in Nat, BlInv, BlReport, Bl!Done, NEW M \in SUBSET Compatible, OneToOne(M)
  PROVE  Cardinality(M) <= Cardinality({x \in Index : match[x] # -1})
<1> DEFINE Matched == {x \in Index : match[x] # -1}
<1>0. PICK D \in SUBSET Index : Closed(D)
  BY DEF BlInv
<1>1. /\ \A x \in D, y \in Vertex : Bl!Edge(x, y) => match[y] \in D
      /\ \A x \in Index : match[x] = -1 => x \in D
  <2>1. \A x \in Index : x < s
    BY DEF Bl!Done, Index
  <2> QED BY <1>0, <2>1 DEF Closed
<1>2. ASSUME NEW e \in M
      PROVE  /\ e[1] \in Index /\ e[2] \in Index /\ e = <<e[1], e[2]>>
             /\ N + e[2] \in Vertex /\ Bl!Edge(e[1], N + e[2])
  <2>1. e[1] \in Index /\ e[2] \in Index /\ e = <<e[1], e[2]>>
    BY DEF Compatible
  <2>2. N + e[2] \in Vertex /\ (N + e[2]) - N = e[2]
    BY <2>1 DEF Index, Vertex
  <2>3. Joined(e[1], N + e[2])
    BY <2>1, <2>2 DEF Joined
  <2> QED BY <2>1, <2>2, <2>3, VertexFacts DEF BlReport
<1>3. /\ match \in [Vertex -> Vertex \cup {-1}]
      /\ \A y \in Vertex : match[y] # -1 => match[match[y]] = y
      /\ -1 \notin Index /\ -1 \notin Vertex
  BY VertexFacts DEF BlInv, BlTypes, BetweenFlips, Coupled, Bl!Done
<1> DEFINE f == [e \in M |-> IF e[1] \in D THEN match[N + e[2]] ELSE e[1]]
<1>4. ASSUME NEW e \in M, e[1] \in D
      PROVE  f[e] \in D /\ match[f[e]] = N + e[2]
  <2>1. f[e] = match[N + e[2]] /\ match[N + e[2]] \in D
    BY <1>1, <1>2, <1>4
  <2>2. match[match[N + e[2]]] = N + e[2]
    BY <1>2, <1>3, <2>1
  <2> QED BY <2>1, <2>2
<1>5. \A e \in M : e[1] \notin D => f[e] = e[1]
  OBVIOUS
<1> HIDE DEF f
<1>6. \A e \in M : f[e] \in Matched
  BY <1>1, <1>2, <1>3, <1>4, <1>5
<1>7. ASSUME NEW e \in M, NEW d \in M, f[e] = f[d] PROVE e = d
  <2>1. OneToOne(M) => (e # d => e[1] # d[1] /\ e[2] # d[2])
    BY DEF OneToOne
  <2>2. CASE e[1] \in D /\ d[1] \in D
    <3>1. N + e[2] = N + d[2]
      BY <1>4, <1>7, <2>2
    <3>2. e[2] = d[2]
      BY <1>2, <3>1 DEF Index
    <3> QED BY <2>1, <3>2
  <2>3. CASE e[1] \notin D /\ d[1] \notin D
    BY <1>5, <1>7, <2>1, <2>3
  <2>4. CASE e[1] \in D /\ d[1] \notin D
    BY <1>4, <1>5, <1>7, <2>4
  <2>5. CASE e[1] \notin D /\ d[1] \in D
    BY <1>4, <1>5, <1>7, <2>5
  <2> QED BY <2>2, <2>3, <2>4, <2>5
<1>8. f \in Injection(M, Matched)
  <2>1. f \in [M -> Matched]
    BY <1>6 DEF f
  <2> QED BY <1>7, <2>1 DEF Injection, IsInjective
<1>9. IsFiniteSet(Matched)
  BY IndexFinite, FS_Subset
<1> QED BY <1>8, <1>9, FS_Injection

\* "Maximum cardinality matching on the compatible-pair graph", by Blossom:
\* what runBlossom reports is compatible, one to one and as large as any, for
\* every table.
THEOREM BlossomIsMaximum == Spec => []Maximum("Blossom")
<1>1. BlInv /\ BlReport => Maximum("Blossom")
  <2> SUFFICES ASSUME BlInv, BlReport, Reported("Blossom")
               PROVE  Maximum("Blossom")
    BY DEF Maximum
  <2> DEFINE C == Couples("Blossom")
             Matched == {x \in Index : match[x] # -1}
             Husbands == {x \in Index : Wives[x] # -1}
  <2>0. N \in Nat
    BY NumberOfPeople
  <2>1. /\ C = {<<x, Wives[x]>> : x \in Matched} /\ Husbands = Matched
        /\ \A x \in Matched : <<x, Wives[x]>> \in Compatible
        /\ \A x, y \in Matched : Wives[x] = Wives[y] => x = y
    <3>1. /\ \A x \in Index : Wives[x] # -1 <=> match[x] # -1
          /\ \A x \in Index : Wives[x] # -1 => <<x, Wives[x]>> \in Compatible
          /\ \A x, y \in Index : Wives[x] # -1 /\ Wives[x] = Wives[y] => x = y
      BY <2>0, WivesAreCompatible DEF BlReport
    <3>2. Husbands = Matched
      BY <3>1
    <3>3. C = {<<x, Wives[x]>> : x \in Husbands}
      BY DEF BlReport, Couples
    <3> QED BY <3>1, <3>2, <3>3
  <2>2. C \subseteq Compatible /\ OneToOne(C)
    BY <2>1 DEF OneToOne
  <2>3. Cardinality(C) = Cardinality(Matched)
    <3> DEFINE f == [x \in Matched |-> <<x, Wives[x]>>]
    <3>1. f \in Bijection(Matched, C)
      BY <2>1 DEF Bijection, Injection, Surjection, IsInjective
    <3>2. IsFiniteSet(Matched)
      BY <2>0, IndexFinite, FS_Subset
    <3> QED BY <3>1, <3>2, FS_Bijection DEF ExistsBijection
  <2>4. ASSUME NEW M \in SUBSET Compatible, OneToOne(M)
        PROVE  Cardinality(M) <= Cardinality(C)
    <3>1. Cardinality(M) <= Cardinality(Matched)
      BY <2>0, <2>4, NoLargerThanBlossoms DEF BlReport
    <3> QED BY <2>3, <3>1
  <2>5. results["Blossom"].matchedCount = Cardinality(C)
    BY <2>1, <2>3 DEF BlReport
  <2> HIDE DEF C
  <2> QED BY <2>2, <2>4, <2>5 DEF Maximum, C
<1> QED BY <1>1, BlInvariant, BlReportInvariant, PTL

\* The two threshold algorithms report matchings of the greatest size, each by
\* its own certificate.
THEOREM BothAreMaximum == Spec => []MaximumCardinality
BY HopcroftKarpIsMaximum, BlossomIsMaximum, PTL DEF MaximumCardinality

\* A couple is a man and a woman: the taken vertices are twice the husbands.
LEMMA TakenAreCouples ==
  ASSUME N \in Nat, BlInv, \A x \in Vertex : Coupled(x)
  PROVE  Cardinality(Taken) = 2 * Cardinality({x \in Index : match[x] # -1})
<1> DEFINE Men == {x \in Index : match[x] # -1}
           Women == Taken \ Index
           f == [x \in Men |-> match[x]]
<1>1. \A x \in Taken : /\ match[x] \in Taken /\ match[match[x]] = x
                       /\ x \in Index <=> match[x] \notin Index
  BY VertexFacts DEF Taken, Coupled, BlInv, BlTypes, Bipartite
<1>2. Taken = Men \cup Women /\ Men \cap Women = {} /\ Men \subseteq Taken
  BY VertexFacts DEF Taken
<1>3. f \in Bijection(Men, Women)
  <2>1. f \in [Men -> Women]
    BY <1>1, <1>2
  <2>2. \A x, y \in Men : f[x] = f[y] => x = y
    BY <1>1, <1>2
  <2>3. \A y \in Women : match[y] \in Men /\ f[match[y]] = y
    BY <1>1, <1>2
  <2> QED BY <2>1, <2>2, <2>3 DEF Bijection, Injection, Surjection, IsInjective
<1>4. IsFiniteSet(Taken) /\ IsFiniteSet(Men) /\ IsFiniteSet(Women)
  BY <1>2, VertexFacts, FS_Subset DEF Taken
<1> HIDE DEF Men, Women, f
<1>5. Cardinality(Women) = Cardinality(Men) /\ Cardinality(Men) \in Nat
  BY <1>3, <1>4, FS_Bijection, FS_CardinalityType DEF ExistsBijection
<1>6. Cardinality(Taken) = Cardinality(Men) + Cardinality(Women)
  <2>1. Cardinality(Men \cup Women) = Cardinality(Men) + Cardinality(Women) - Cardinality(Men \cap Women)
    BY <1>4, FS_Union
  <2>2. Cardinality(Men \cap Women) = 0
    BY <1>2, FS_EmptySet
  <2> QED BY <1>2, <1>5, <2>1, <2>2
<1> QED BY <1>5, <1>6 DEF Men

\* "Maximum cardinality, handles odd cycles": where there are none, as in every
\* graph of runBlossom, no matching of the graph is larger than the result.
THEOREM BlossomMaximumWhenDone == Spec => []Bl!MaximumWhenDone
<1>1. BlInv /\ BlReport => Bl!MaximumWhenDone
  <2> SUFFICES ASSUME BlInv, BlReport, Bl!Done,
                      NEW P \in SUBSET Bl!Pairs,
                      \A d, r \in P : d # r => {d[1], d[2]} \cap {r[1], r[2]} = {}
               PROVE  Cardinality(P) <= blCount
    <3>1. \A A : Bl!Cardinality(A) = Cardinality(A)
      BY DEF Bl!Cardinality, Cardinality
    <3> QED BY <3>1 DEF Bl!MaximumWhenDone, Bl!MatchingSizes
  <2>0. N \in Nat
    BY NumberOfPeople
  <2> DEFINE Men == {x \in Index : match[x] # -1}
             couple == [d \in P |-> <<d[1], d[2] - N>>]
             M == {couple[d] : d \in P}
  <2>1. ASSUME NEW d \in P
        PROVE  /\ d = <<d[1], d[2]>> /\ d[1] \in Index /\ d[2] \in Vertex
               /\ <<d[1], d[2] - N>> \in Compatible
    <3>1. d = <<d[1], d[2]>> /\ d[1] \in Vertex /\ d[2] \in Vertex /\ d[1] < d[2] /\ Bl!Edge(d[1], d[2])
      BY <2>0, VertexFacts DEF Bl!Pairs
    <3>2. d[1] \in Index <=> d[2] \notin Index
      BY <3>1 DEF BlInv, Bipartite
    <3>3. d[1] \in Index
      BY <2>0, <3>1, <3>2 DEF Index, Vertex
    <3>4. Joined(d[1], d[2]) /\ d[1] - N \notin Index
      BY <2>0, <3>1, <3>3 DEF BlReport, Index
    <3>5. <<d[1], d[2] - N>> \in Compatible
      BY <3>4 DEF Joined, Compatible
    <3> QED BY <3>1, <3>3, <3>5
  <2>2. ASSUME NEW d \in P, NEW r \in P, d # r
        PROVE  d[1] # r[1] /\ d[2] - N # r[2] - N
    <3>1. d[1] # r[1] /\ d[2] # r[2]
      BY <2>2
    <3>2. d[2] \in Vertex /\ r[2] \in Vertex
      BY <2>1
    <3>3. d[2] \in Int /\ r[2] \in Int
      BY <2>0, <3>2 DEF Vertex
    <3> QED BY <2>0, <3>1, <3>3
  <2>3. M \in SUBSET Compatible
    BY <2>1
  <2>4. OneToOne(M)
    BY <2>2 DEF OneToOne
  <2>5. couple \in Bijection(P, M)
    <3>1. \A d, r \in P : couple[d] = couple[r] => d = r
      BY <2>2
    <3> QED BY <3>1 DEF Bijection, Injection, Surjection, IsInjective
  <2>6. IsFiniteSet(P)
    <3>1. IsFiniteSet(Vertex \X Vertex)
      BY <2>0, VertexFacts, FS_Product
    <3> QED BY <2>0, <3>1, VertexFacts, FS_Subset DEF Bl!Pairs
  <2> HIDE DEF couple, M
  <2>7. Cardinality(M) = Cardinality(P)
    BY <2>5, <2>6, FS_Bijection DEF ExistsBijection
  <2>8. Cardinality(M) <= Cardinality(Men)
    BY <2>0, <2>3, <2>4, NoLargerThanBlossoms
  <2>9. /\ 2 * blCount = 2 * Cardinality(Men) /\ blCount \in Nat /\ Cardinality(Men) \in Nat
        /\ Cardinality(P) \in Nat
    <3>1. 2 * blCount = Cardinality(Taken) /\ blCount \in Nat /\ \A x \in Vertex : Coupled(x)
      BY DEF BlInv, BlTypes, BetweenFlips, Bl!Done
    <3>2. Cardinality(Taken) = 2 * Cardinality(Men)
      BY <2>0, <3>1, TakenAreCouples
    <3>3. IsFiniteSet(Men)
      BY <2>0, IndexFinite, FS_Subset
    <3> QED BY <2>6, <3>1, <3>2, <3>3, FS_CardinalityType
  <2> QED BY <2>7, <2>8, <2>9
<1> QED BY <1>1, BlInvariant, BlReportInvariant, PTL

-----------------------------------------------------------------------------
(* The comparison: totals of partial assignments *)

Partial == [Index -> Index \cup {-1}]
Matched(m) == {x \in Index : m[x] # -1}
Gains(m) == [x \in Matched(m) |-> COMPAT[x][m[x]]]

\* t is the total score of the couples of m.
TotalOf(m, t) == \E g : SumOn(g, Gains(m), Matched(m)) /\ t = g[Matched(m)]

\* No two of the men have one partner.
Monogamous(m) == \A x, y \in Matched(m) : m[x] = m[y] => x = y

LEMMA ScoreInTable ==
  ASSUME COMPAT \in Tables, NEW x \in Index, NEW y \in Index
  PROVE  COMPAT[x][y] \in 0 .. 100
<1>1. COMPAT \in [Index -> [Index -> 0 .. 100]]
  BY RunnersAssumption DEF Index
<1>2. COMPAT[x] \in [Index -> 0 .. 100]
  BY <1>1
<1> QED BY <1>2

\* The total that matchesToJson and the demo's score compute is a sum.
LEMMA ScoreIsSum ==
  ASSUME COMPAT \in Tables, NEW m \in Partial
  PROVE  TotalOf(m, score(m))
<1> DEFINE S == Matched(m)
           Solves(g) == g = [A \in SUBSET S |->
                               IF A = {} THEN 0
                               ELSE COMPAT[CHOOSE x \in A : TRUE][m[CHOOSE x \in A : TRUE]]
                                      + g[A \ {CHOOSE x \in A : TRUE}]]
           sum == CHOOSE g : Solves(g)
<1>1. IsFiniteSet(S) /\ Gains(m) \in [S -> Int]
  <2>1. IsFiniteSet(S)
    BY NumberOfPeople, IndexFinite, FS_Subset DEF Matched
  <2>2. ASSUME NEW x \in S PROVE COMPAT[x][m[x]] \in Int
    <3>1. x \in Index /\ m[x] \in Index
      BY DEF Matched, Partial
    <3>2. COMPAT[x][m[x]] \in 0 .. 100
      BY <3>1, ScoreInTable
    <3> QED BY <3>2
  <2> QED BY <2>1, <2>2 DEF Gains
<1>2. ASSUME NEW g PROVE Solves(g) <=> SumFold(g, Gains(m), S)
  <2>1. ASSUME NEW A \in SUBSET S, A # {}
        PROVE  COMPAT[CHOOSE x \in A : TRUE][m[CHOOSE x \in A : TRUE]] = Gains(m)[CHOOSE x \in A : TRUE]
    BY <2>1 DEF Gains
  <2>2. [A \in SUBSET S |->
           IF A = {} THEN 0
           ELSE COMPAT[CHOOSE x \in A : TRUE][m[CHOOSE x \in A : TRUE]]
                  + g[A \ {CHOOSE x \in A : TRUE}]]
        = [A \in SUBSET S |->
             IF A = {} THEN 0
             ELSE Gains(m)[CHOOSE x \in A : TRUE] + g[A \ {CHOOSE x \in A : TRUE}]]
    <3> HIDE DEF S
    <3> QED BY <2>1
  <2> QED BY <2>2 DEF SumFold
<1>3. Solves(sum)
  <2>1. \E g : Solves(g)
    <3> HIDE DEF Solves, S
    <3> QED BY <1>1, <1>2, SumExists
  <2> HIDE DEF Solves
  <2> QED BY <2>1
<1>4. score(m) = sum[S]
  BY DEF score, MapThenSumSet, MapThenFoldSet, Matched
<1>5. SumOn(sum, Gains(m), S)
  <2> HIDE DEF Solves, sum, S
  <2> QED BY <1>1, <1>2, <1>3, SumInAnyOrder
<1> HIDE DEF sum
<1> QED BY <1>4, <1>5 DEF TotalOf

\* A sum over some of the elements is no more than one over all of them, when
\* none of them counts less than nothing.
LEMMA SumOfPart ==
  ASSUME NEW S, IsFiniteSet(S), NEW P \in SUBSET S, NEW f \in [P -> Int], NEW k \in [S -> Int],
         NEW g, SumOn(g, f, P), NEW h, SumOn(h, k, S),
         \A x \in P : f[x] = k[x], \A x \in S : 0 <= k[x]
  PROVE  g[P] <= h[S]
<1> DEFINE Wrong == {A \in SUBSET S : ~(g[A \cap P] <= h[A])}
<1>1. Wrong = {}
  <2> SUFFICES ASSUME Wrong # {} PROVE FALSE
    OBVIOUS
  <2>1. PICK A \in Wrong : \A B \in Wrong : ~(B \subseteq A /\ B # A)
    <3>1. Wrong \in SUBSET (SUBSET S)
      OBVIOUS
    <3> HIDE DEF Wrong
    <3> QED BY <3>1, LeastSet
  <2>2. A # {}
    <3> SUFFICES ASSUME A = {} PROVE FALSE
      OBVIOUS
    <3>1. A \cap P = {}
      OBVIOUS
    <3>2. g[A \cap P] = 0 /\ h[A] = 0
      BY <3>1 DEF SumOn
    <3> QED BY <3>2
  <2>3. PICK x \in A : TRUE
    BY <2>2
  <2>4. A \ {x} \notin Wrong /\ A \ {x} \in SUBSET S /\ x \in S
    BY <2>1, <2>3
  <2> DEFINE rest == (A \ {x}) \cap P
  <2>5. g[rest] <= h[A \ {x}] /\ g[rest] \in Int /\ h[A \ {x}] \in Int
    <3>1. rest \in SUBSET P
      OBVIOUS
    <3> QED BY <2>4, <3>1 DEF SumOn
  <2>6. h[A] = k[x] + h[A \ {x}] /\ k[x] \in Int /\ 0 <= k[x]
    BY <2>3, <2>4 DEF SumOn
  <2>9. ~(g[A \cap P] <= h[A])
    BY <2>1
  <2>7. CASE x \in P
    <3>1. x \in A \cap P /\ A \cap P \in SUBSET P /\ (A \cap P) \ {x} = rest
      BY <2>7
    <3>2. g[A \cap P] = f[x] + g[(A \cap P) \ {x}]
      BY <3>1, Zenon DEF SumOn
    <3>3. g[A \cap P] = k[x] + g[rest]
      BY <2>7, <3>1, <3>2
    <3> HIDE DEF rest, Wrong
    <3> QED BY ONLY <2>5, <2>6, <2>9, <3>3
  <2>8. CASE x \notin P
    <3>1. A \cap P = rest
      BY <2>8
    <3>2. g[A \cap P] = g[rest]
      BY <3>1
    <3> HIDE DEF rest, Wrong
    <3> QED BY ONLY <2>5, <2>6, <2>9, <3>2
  <2> QED BY <2>7, <2>8
<1>2. S \cap P = P /\ S \notin Wrong
  BY <1>1
<1> QED BY <1>2

\* Those who are left over can be married to each other.
LEMMA Completed ==
  ASSUME NEW m \in Partial, Monogamous(m)
  PROVE  \E e \in Assignments : \A x \in Matched(m) : e[x] = m[x]
<1> DEFINE A == Matched(m)
           B == {m[x] : x \in A}
           f == [x \in A |-> m[x]]
<1>1. A \in SUBSET Index /\ B \in SUBSET Index /\ IsFiniteSet(Index) /\ \A x \in A : m[x] \in Index
  BY NumberOfPeople, IndexFinite DEF Matched, Partial
<1>2. f \in Bijection(A, B)
  BY DEF Bijection, Injection, Surjection, IsInjective, Monogamous
<1> HIDE DEF A, B, f
<1>3. IsFiniteSet(A) /\ Cardinality(A) = Cardinality(B)
  BY <1>1, <1>2, FS_Subset, FS_Bijection DEF ExistsBijection
<1>4. /\ IsFiniteSet(Index \ A) /\ IsFiniteSet(Index \ B)
      /\ Cardinality(Index \ A) = Cardinality(Index \ B)
  <2>1. Index \cap A = A /\ Index \cap B = B
    BY <1>1
  <2>2. IsFiniteSet(Index \ A) /\ Cardinality(Index \ A) = Cardinality(Index) - Cardinality(Index \cap A)
    BY <1>1, FS_Difference
  <2>3. IsFiniteSet(Index \ B) /\ Cardinality(Index \ B) = Cardinality(Index) - Cardinality(Index \cap B)
    BY <1>1, FS_Difference
  <2> QED BY <1>3, <2>1, <2>2, <2>3
<1>5. PICK c : c \in Bijection(Index \ A, Index \ B)
  BY <1>4, FS_SameCardinalityBij DEF ExistsBijection
<1>6. /\ \A x \in Index \ A : c[x] \in Index \ B
      /\ \A x, y \in Index \ A : c[x] = c[y] => x = y
  BY <1>5 DEF Bijection, Injection, IsInjective
<1>7. \A x \in A : m[x] \in B
  BY DEF B
<1>8. \A x, y \in A : m[x] = m[y] => x = y
  BY DEF A, Monogamous
<1> DEFINE e == [x \in Index |-> IF x \in A THEN m[x] ELSE c[x]]
<1>9. e \in [Index -> Index]
  BY <1>1, <1>6
<1>10. \A x, y \in Index : x # y => e[x] # e[y]
  BY <1>6, <1>7, <1>8
<1>11. \A x \in A : e[x] = m[x]
  BY <1>1
<1> HIDE DEF e
<1> QED BY <1>9, <1>10, <1>11 DEF Assignments, A

LEMMA PartialScoresLess ==
  ASSUME COMPAT \in Tables, NEW m \in Partial, Monogamous(m), NEW t, TotalOf(m, t)
  PROVE  \E e \in Assignments : t <= Total(e)
<1>1. PICK e \in Assignments : \A x \in Matched(m) : e[x] = m[x]
  BY Completed
<1>2. e \in [Index -> Index]
  BY DEF Assignments
<1>3. PICK h : SumOn(h, ScoreOf(e), Index) /\ Total(e) = h[Index]
  BY <1>2, TotalIsSum
<1>4. PICK g : SumOn(g, Gains(m), Matched(m)) /\ t = g[Matched(m)]
  BY DEF TotalOf
<1>5. \A x \in Index : ScoreOf(e)[x] \in 0 .. 100
  <2> TAKE x \in Index
  <2>1. e[x] \in Index
    BY <1>2
  <2>2. COMPAT[x][e[x]] \in 0 .. 100
    BY <2>1, ScoreInTable
  <2> QED BY <2>2 DEF ScoreOf
<1>6. ScoreOf(e) \in [Index -> Int] /\ \A x \in Index : 0 <= ScoreOf(e)[x]
  <2>1. \A x \in Index : ScoreOf(e)[x] \in Int /\ 0 <= ScoreOf(e)[x]
    BY <1>5
  <2> QED BY <2>1 DEF ScoreOf
<1>7. Matched(m) \in SUBSET Index /\ IsFiniteSet(Index)
  BY NumberOfPeople, IndexFinite DEF Matched
<1>8. /\ Gains(m) \in [Matched(m) -> Int]
      /\ \A x \in Matched(m) : Gains(m)[x] = ScoreOf(e)[x]
  <2>1. \A x \in Matched(m) : Gains(m)[x] = ScoreOf(e)[x]
    BY <1>1, <1>7 DEF Gains, ScoreOf
  <2>2. \A x \in Matched(m) : Gains(m)[x] \in Int
    BY <1>6, <1>7, <2>1
  <2> QED BY <2>1, <2>2 DEF Gains
<1>9. g[Matched(m)] <= h[Index]
  BY <1>3, <1>4, <1>6, <1>7, <1>8, SumOfPart
<1> QED BY <1>3, <1>4, <1>9

Names == {"Gale-Shapley", "Hopcroft-Karp", "Hungarian", "Blossom"}

\* Every report is of partners, with their total and their number.
Faithful(report) == /\ report.matchM \in Partial
                    /\ TotalOf(report.matchM, report.totalScore)
                    /\ report.matchedCount = Cardinality(Matched(report.matchM))

ReportsFaithful ==
  /\ COMPAT \in Tables
  /\ \A algorithm \in DOMAIN results : algorithm \in Names /\ Faithful(results[algorithm])

LEMMA ReportStep ==
  ASSUME ReportsFaithful, COMPAT' = COMPAT, NEW name \in Names, Calls(name), NEW m \in Partial, Report(m)
  PROVE  ReportsFaithful'
<1>1. Faithful(matchesToJson(m))
  <2>1. TotalOf(m, score(m))
    BY ScoreIsSum DEF ReportsFaithful
  <2>2. matchesToJson(m).totalScore = score(m)
    BY DEF matchesToJson, score
  <2>3. matchesToJson(m).matchM = m /\ matchesToJson(m).matchedCount = Cardinality(Matched(m))
    BY DEF matchesToJson, Matched
  <2> QED BY <2>1, <2>2, <2>3 DEF Faithful
<1>2. /\ DOMAIN results' = DOMAIN results \cup {name}
      /\ \A algorithm \in DOMAIN results' :
           results'[algorithm] = IF algorithm = name THEN matchesToJson(m) ELSE results[algorithm]
  BY DEF Report, Calls
<1>3. \A algorithm \in DOMAIN results' : algorithm \in Names /\ Faithful(results'[algorithm])
  BY <1>1, <1>2 DEF ReportsFaithful
<1>4. ASSUME NEW r, Faithful(r) PROVE Faithful(r)'
  <2>1. Gains(r.matchM)' = Gains(r.matchM) /\ Matched(r.matchM)' = Matched(r.matchM)
    BY DEF Gains, Matched
  <2> QED BY <1>4, <2>1 DEF Faithful, TotalOf
<1>5. ASSUME NEW algorithm \in DOMAIN results' PROVE (Faithful(results[algorithm]))'
  <2>1. PICK r : r = results'[algorithm]
    OBVIOUS
  <2>2. Faithful(r)'
    BY <1>3, <1>4, <2>1
  <2> QED BY <2>1, <2>2 DEF Faithful, TotalOf, Gains, Matched
<1> QED BY <1>3, <1>5 DEF ReportsFaithful

LEMMA FinalPartners ==
  /\ GSInv => matchA \in Partial
  /\ HKInv => matchLeft \in Partial
  /\ HungInv /\ HungResult /\ Hung!Done => assignment \in Partial
  /\ BlInv /\ BlReport /\ Bl!Done => Wives \in Partial
<1>1. GSInv => matchA \in Partial
  BY DEF GSInv, GS!TypeOK, GS!Person, GS!Unmatched, Partial, Index
<1>2. HKInv => matchLeft \in Partial
  BY DEF HKInv, HKTypes, ArraysTyped, Partial
<1>3. ASSUME HungInv, HungResult, Hung!Done PROVE assignment \in Partial
  <2>1. HungTypes /\ Assigned(Line, N) /\ AssignmentRead
    BY <1>3 DEF HungInv, HungResult, Hung!Done
  <2>2. assignment \in Assignments
    BY <2>1, AssignmentFound
  <2> QED BY <2>2 DEF Assignments, Partial
<1>4. BlInv /\ BlReport /\ Bl!Done => Wives \in Partial
  BY NumberOfPeople, WivesAreCompatible DEF Partial
<1> QED BY <1>1, <1>2, <1>3, <1>4

LEMMA ReportsInvariant == Spec => []ReportsFaithful
<1>1. Init => ReportsFaithful
  BY DEF Init, ReportsFaithful
<1> DEFINE Invariants == GSInv /\ HKInv /\ HungInv /\ HungResult /\ BlInv /\ BlReport
<1>2. Invariants /\ ReportsFaithful /\ [Next]_vars => ReportsFaithful'
  <2> SUFFICES ASSUME Invariants, ReportsFaithful, [Next]_vars PROVE ReportsFaithful'
    OBVIOUS
  <2>1. COMPAT' = COMPAT
    BY DEF Next, runGaleShapley, runHopcroftKarp, runHungarian, runBlossom, vars
  <2>2. ASSUME UNCHANGED results PROVE ReportsFaithful'
    <3>1. ASSUME NEW r, Faithful(r) PROVE Faithful(r)'
      <4>1. Gains(r.matchM)' = Gains(r.matchM) /\ Matched(r.matchM)' = Matched(r.matchM)
        BY <2>1 DEF Gains, Matched
      <4> QED BY <3>1, <4>1 DEF Faithful, TotalOf
    <3>2. ASSUME NEW algorithm \in DOMAIN results PROVE (Faithful(results[algorithm]))'
      <4>1. PICK r : r = results[algorithm]
        OBVIOUS
      <4>2. Faithful(r)'
        BY <3>1, <4>1 DEF ReportsFaithful
      <4> QED BY <2>2, <4>1, <4>2 DEF Faithful, TotalOf, Gains, Matched
    <3> QED BY <2>1, <2>2, <3>2 DEF ReportsFaithful
  <2>3. ASSUME NEW name \in Names, Calls(name), NEW m, m \in Partial, Report(m) PROVE ReportsFaithful'
    BY <2>1, <2>3, ReportStep
  <2>4. CASE UNCHANGED vars
    BY <2>2, <2>4 DEF vars
  <2>5. CASE runGaleShapley
    <3>1. CASE UNCHANGED results
      BY <2>2, <3>1
    <3>2. CASE Calls("Gale-Shapley") /\ GS!Done /\ Report(matchA)
      <4>1. PICK m : m = matchA
        OBVIOUS
      <4>2. Report(m) /\ m \in Partial
        BY <3>2, <4>1, FinalPartners
      <4> QED BY <2>3, <3>2, <4>2 DEF Names
    <3> QED BY <2>5, <3>1, <3>2 DEF runGaleShapley
  <2>6. CASE runHopcroftKarp
    <3>1. CASE UNCHANGED results
      BY <2>2, <3>1
    <3>2. CASE Calls("Hopcroft-Karp") /\ HK!Done /\ Report(matchLeft)
      <4>1. PICK m : m = matchLeft
        OBVIOUS
      <4>2. Report(m) /\ m \in Partial
        BY <3>2, <4>1, FinalPartners
      <4> QED BY <2>3, <3>2, <4>2 DEF Names
    <3> QED BY <2>6, <3>1, <3>2 DEF runHopcroftKarp
  <2>7. CASE runHungarian
    <3>1. CASE UNCHANGED results
      BY <2>2, <3>1
    <3>2. CASE Calls("Hungarian") /\ Hung!Done /\ Report(assignment)
      <4>1. PICK m : m = assignment
        OBVIOUS
      <4>2. Report(m) /\ m \in Partial
        BY <3>2, <4>1, FinalPartners
      <4> QED BY <2>3, <3>2, <4>2 DEF Names
    <3> QED BY <2>7, <3>1, <3>2 DEF runHungarian
  <2>8. CASE runBlossom
    <3>1. CASE UNCHANGED results
      BY <2>2, <3>1
    <3>2. CASE Calls("Blossom") /\ Bl!Done /\ Report(Wives)
      <4>1. PICK m : m = Wives
        OBVIOUS
      <4>2. Report(m) /\ m \in Partial
        BY <3>2, <4>1, FinalPartners
      <4> QED BY <2>3, <3>2, <4>2 DEF Names
    <3> QED BY <2>8, <3>1, <3>2 DEF runBlossom, Wives
  <2> QED BY <2>4, <2>5, <2>6, <2>7, <2>8 DEF Next
<1>3. Spec => []GSInv
  BY NumberOfPeople, GSInvariant, RunsGaleShapley, PTL
<1> QED BY <1>1, <1>2, <1>3, HKInvariant, HungInvariant, HungResultInvariant,
           BlInvariant, BlReportInvariant, PTL DEF Spec

\* What the theorems about the four algorithms say of their reports.
Guarantees == NoBlockingCouple /\ MaximumCardinality /\ GreatestTotal

LEMMA ReportsMonogamous ==
  ASSUME ReportsFaithful, Guarantees, NEW algorithm \in DOMAIN results
  PROVE  Monogamous(results[algorithm].matchM)
<1> DEFINE m == results[algorithm].matchM
<1>1. algorithm \in Names /\ Reported(algorithm)
  BY DEF ReportsFaithful, Reported
<1>2. CASE algorithm = "Hungarian"
  <2>1. m \in Assignments
    BY <1>1, <1>2 DEF Guarantees, GreatestTotal
  <2> HIDE DEF m
  <2>2. Monogamous(m)
    BY <2>1 DEF Assignments, Monogamous, Matched
  <2> QED BY <2>2 DEF m
<1>3. CASE algorithm # "Hungarian"
  <2>1. OneToOne(Couples(algorithm))
    BY <1>1, <1>3 DEF Names, Guarantees, NoBlockingCouple, MaximumCardinality, Maximum
  <2>2. Couples(algorithm) = {<<x, m[x]>> : x \in Matched(m)}
    BY DEF Couples, Matched
  <2> HIDE DEF m
  <2>3. ASSUME NEW x \in Matched(m), NEW y \in Matched(m), x # y PROVE m[x] # m[y]
    <3>1. <<x, m[x]>> \in Couples(algorithm) /\ <<y, m[y]>> \in Couples(algorithm)
      BY <2>2
    <3>2. <<x, m[x]>> # <<y, m[y]>>
      BY <2>3
    <3>3. <<x, m[x]>>[2] # <<y, m[y]>>[2]
      BY <2>1, <3>1, <3>2 DEF OneToOne
    <3> QED BY <3>3
  <2>4. Monogamous(m)
    BY <2>3 DEF Monogamous
  <2> QED BY <2>4 DEF m
<1> QED BY <1>2, <1>3

LEMMA TotalUnique ==
  ASSUME COMPAT \in Tables, NEW m \in Partial, NEW t, TotalOf(m, t), NEW t1, TotalOf(m, t1)
  PROVE  t = t1 /\ t \in Int
<1>1. PICK g : SumOn(g, Gains(m), Matched(m)) /\ t = g[Matched(m)]
  BY DEF TotalOf
<1>2. PICK h : SumOn(h, Gains(m), Matched(m)) /\ t1 = h[Matched(m)]
  BY DEF TotalOf
<1>3. Gains(m) \in [Matched(m) -> Int] /\ IsFiniteSet(Matched(m))
  <2>1. \A x \in Matched(m) : COMPAT[x][m[x]] \in 0 .. 100
    BY ScoreInTable DEF Matched, Partial
  <2>2. IsFiniteSet(Matched(m))
    BY NumberOfPeople, IndexFinite, FS_Subset DEF Matched
  <2>3. \A x \in Matched(m) : COMPAT[x][m[x]] \in Int
    BY <2>1
  <2> QED BY <2>2, <2>3 DEF Gains
<1>4. \A x \in Matched(m) : Gains(m)[x] <= Gains(m)[x]
  <2>1. \A x \in Matched(m) : Gains(m)[x] \in Int
    BY <1>3
  <2> QED BY <2>1
<1>5. t <= t1 /\ t1 <= t
  BY <1>1, <1>2, <1>3, <1>4, SumsCompare
<1>6. t \in Int /\ t1 \in Int
  BY <1>1, <1>2 DEF SumOn
<1> QED BY <1>5, <1>6

\* No partners that somebody could be given score more than maxScore.
LEMMA NoneScoresMore ==
  ASSUME COMPAT \in Tables, GreatestTotal, Reported("Hungarian"), maxScore \in Int,
         NEW m \in Partial, Monogamous(m), NEW t, TotalOf(m, t)
  PROVE  t <= maxScore
<1>1. PICK e \in Assignments : t <= Total(e)
  BY PartialScoresLess
<1>2. Total(e) <= maxScore
  BY DEF GreatestTotal
<1>3. t \in Int
  BY TotalUnique
<1>4. Total(e) \in Int
  <2>1. e \in [Index -> Index]
    BY DEF Assignments
  <2> QED BY <2>1, TotalIsSum DEF SumOn
<1> QED BY <1>1, <1>2, <1>3, <1>4

LEMMA MaxScoreIsTotal ==
  ASSUME ReportsFaithful, GreatestTotal, Reported("Hungarian")
  PROVE  /\ maxScore \in Int
         /\ results["Hungarian"].matchM \in Partial
         /\ score(results["Hungarian"].matchM) = maxScore
         /\ Matched(results["Hungarian"].matchM) = Index
<1> DEFINE m == results["Hungarian"].matchM
<1>1. m \in Partial /\ TotalOf(m, maxScore) /\ m \in Assignments /\ COMPAT \in Tables
  BY DEF ReportsFaithful, Faithful, GreatestTotal, Reported
<1> HIDE DEF m
<1>2. TotalOf(m, score(m))
  BY <1>1, ScoreIsSum
<1>3. score(m) = maxScore /\ maxScore \in Int
  BY <1>1, <1>2, TotalUnique
<1>4. Matched(m) = Index
  <2>1. \A x \in Index : m[x] \in Index /\ m[x] # -1
    BY <1>1, VertexFacts, NumberOfPeople DEF Assignments
  <2> QED BY <2>1 DEF Matched
<1> QED BY <1>1, <1>3, <1>4 DEF m

LEMMA GuaranteesInvariant == Spec => []Guarantees
BY NobodyBlocks, BothAreMaximum, HungarianIsOptimal, PTL DEF Guarantees

\* "Globally optimal total compatibility score": no report of the comparison
\* has a greater total than the Hungarian algorithm's, also not one that leaves
\* people without a partner.
THEOREM NoReportScoresMore == Spec => []OptimalScore
<1>1. ReportsFaithful /\ Guarantees => OptimalScore
  <2> SUFFICES ASSUME ReportsFaithful, Guarantees, Reported("Hungarian"), NEW algorithm \in DOMAIN results
               PROVE  results[algorithm].totalScore <= maxScore
    BY DEF OptimalScore, Guarantees
  <2>1. maxScore \in Int
    BY MaxScoreIsTotal DEF Guarantees
  <2>2. /\ COMPAT \in Tables /\ results[algorithm].matchM \in Partial
        /\ TotalOf(results[algorithm].matchM, results[algorithm].totalScore)
    BY DEF ReportsFaithful, Faithful
  <2>3. Monogamous(results[algorithm].matchM)
    BY ReportsMonogamous
  <2> QED BY <2>1, <2>2, <2>3, NoneScoresMore DEF Guarantees
<1> QED BY <1>1, ReportsInvariant, GuaranteesInvariant, PTL

\* The couples of a report and the men it has a partner for.
LEMMA CountOfCouples ==
  ASSUME ReportsFaithful, NEW algorithm \in DOMAIN results
  PROVE  /\ Cardinality(Couples(algorithm)) = count(results[algorithm].matchM)
         /\ count(results[algorithm].matchM) \in 0 .. N
<1> DEFINE m == results[algorithm].matchM
           C == Couples(algorithm)
           f == [x \in Matched(m) |-> <<x, m[x]>>]
<1>1. C = {<<x, m[x]>> : x \in Matched(m)} /\ count(m) = Cardinality(Matched(m))
  BY DEF Couples, Matched, count
<1> HIDE DEF m, C
<1>2. f \in Bijection(Matched(m), C)
  BY <1>1 DEF Bijection, Injection, Surjection, IsInjective
<1>3. IsFiniteSet(Index) /\ Cardinality(Index) = N /\ Matched(m) \subseteq Index
  <2>1. N \in Nat
    BY NumberOfPeople
  <2>2. Cardinality(0 .. N - 1) = N
    BY <2>1, FS_Interval
  <2> QED BY <2>1, <2>2, IndexFinite DEF Matched, Index
<1>4. /\ IsFiniteSet(Matched(m)) /\ Cardinality(Matched(m)) <= N /\ Cardinality(Matched(m)) \in Nat
  BY <1>3, FS_Subset, FS_CardinalityType
<1>5. Cardinality(Matched(m)) = Cardinality(C)
  BY <1>2, <1>4, FS_Bijection DEF ExistsBijection
<1> QED BY <1>1, <1>4, <1>5, NumberOfPeople DEF m, C

LEMMA FewerIfNotAll ==
  ASSUME NEW n \in 0 .. N, n # N
  PROVE  n < N
BY NumberOfPeople

\* The demo's notes are true of all four reports.
THEOREM NotesHold == Spec => []NotesAreTrue
<1>1. ReportsFaithful /\ Guarantees => NotesAreTrue
  <2> SUFFICES ASSUME ReportsFaithful, Guarantees, \A x \in 1 .. 4 : Reported(Algorithms[x])
               PROVE  NotesAreTrue
    BY DEF NotesAreTrue
  <2> DEFINE M(algorithm) == results[algorithm].matchM
             notes == analysis(M("Gale-Shapley"), M("Hopcroft-Karp"), M("Hungarian"), M("Blossom"))
  <2>1. \A algorithm \in Names : algorithm \in DOMAIN results
    <3>1. Reported(Algorithms[1]) /\ Reported(Algorithms[2]) /\ Reported(Algorithms[3]) /\ Reported(Algorithms[4])
      OBVIOUS
    <3> QED BY <3>1 DEF Algorithms, Reported, Names
  <2>2. /\ maxScore \in Int /\ score(M("Hungarian")) = maxScore
        /\ Matched(M("Hungarian")) = Index /\ Reported("Hungarian") /\ GreatestTotal /\ COMPAT \in Tables
    BY <2>1, MaxScoreIsTotal DEF Guarantees, Names, Reported, ReportsFaithful
  <2>3. ASSUME NEW algorithm \in Names PROVE score(M(algorithm)) <= maxScore
    <3>1. M(algorithm) \in Partial /\ Monogamous(M(algorithm))
      BY <2>1, ReportsMonogamous DEF ReportsFaithful, Faithful
    <3> HIDE DEF M
    <3>2. TotalOf(M(algorithm), score(M(algorithm)))
      BY <2>2, <3>1, ScoreIsSum
    <3> QED BY <2>2, <3>1, <3>2, NoneScoresMore
  <2>4. count(M("Hungarian")) = N
    <3>1. Cardinality(0 .. N - 1) = N
      BY NumberOfPeople, FS_Interval
    <3> QED BY <2>2, <3>1 DEF count, Matched, Index
  <2>5. \A algorithm \in Names : /\ Cardinality(Couples(algorithm)) = count(M(algorithm))
                                 /\ count(M(algorithm)) \in 0 .. N
    BY <2>1, CountOfCouples
  <2>6. count(M("Hopcroft-Karp")) = count(M("Blossom"))
    <3> DEFINE H == Couples("Hopcroft-Karp")
               B == Couples("Blossom")
    <3>1. /\ H \in SUBSET Compatible /\ OneToOne(H) /\ B \in SUBSET Compatible /\ OneToOne(B)
          /\ \A X \in SUBSET Compatible : OneToOne(X) => Cardinality(X) <= Cardinality(H)
          /\ \A X \in SUBSET Compatible : OneToOne(X) => Cardinality(X) <= Cardinality(B)
      BY <2>1 DEF Guarantees, MaximumCardinality, Maximum, Reported, Names
    <3> HIDE DEF H, B
    <3>2. Cardinality(H) <= Cardinality(B) /\ Cardinality(B) <= Cardinality(H)
      BY <3>1
    <3>3. /\ Cardinality(H) = count(M("Hopcroft-Karp")) /\ count(M("Hopcroft-Karp")) \in 0 .. N
          /\ Cardinality(B) = count(M("Blossom")) /\ count(M("Blossom")) \in 0 .. N
      BY <2>5 DEF H, B, Names
    <3> QED BY <3>2, <3>3
  <2>7. /\ "full pool" \in notes => count(M("Hopcroft-Karp")) = count(M("Hungarian"))
        /\ "matched fewer" \in notes => count(M("Hopcroft-Karp")) # count(M("Hungarian"))
        /\ score(M("Hungarian")) >= score(M("Gale-Shapley")) /\ score(M("Hungarian")) >= score(M("Hopcroft-Karp"))
             => "highest total" \in notes
    BY DEF analysis
  <2> HIDE DEF M, notes
  <2>8. "highest total" \in notes
    <3>1. \A algorithm \in Names : TotalOf(M(algorithm), score(M(algorithm))) /\ M(algorithm) \in Partial
      BY <2>1, <2>2, ScoreIsSum DEF ReportsFaithful, Faithful, M
    <3>2. \A algorithm \in Names : score(M(algorithm)) \in Int
      BY <2>2, <3>1, TotalUnique
    <3>3. /\ score(M("Gale-Shapley")) <= maxScore /\ score(M("Hopcroft-Karp")) <= maxScore
          /\ score(M("Gale-Shapley")) \in Int /\ score(M("Hopcroft-Karp")) \in Int
      BY <2>3, <3>2 DEF Names
    <3> QED BY <2>2, <2>7, <3>3
  <2>9. ASSUME NEW x \in 1 .. 4 PROVE score(M(Algorithms[x])) <= score(M("Hungarian"))
    <3>1. Algorithms[x] \in Names
      BY DEF Algorithms, Names
    <3> QED BY <2>2, <2>3, <3>1
  <2>10. /\ "full pool" \in notes => count(M("Hopcroft-Karp")) = N /\ count(M("Blossom")) = N
         /\ "matched fewer" \in notes => count(M("Hopcroft-Karp")) < N /\ count(M("Blossom")) < N
    <3>1. count(M("Hopcroft-Karp")) \in 0 .. N /\ count(M("Blossom")) \in 0 .. N
      BY <2>5 DEF Names
    <3>2. \A n \in 0 .. N : n # N => n < N
      BY FewerIfNotAll
    <3>3. count(M("Hopcroft-Karp")) # N => count(M("Hopcroft-Karp")) < N
      BY <3>1, <3>2
    <3> QED BY <2>4, <2>6, <2>7, <3>3
  <2>11. /\ "full pool" \in notes =>
              \A m \in {M("Hopcroft-Karp"), M("Blossom")} : count(m) = N
         /\ "matched fewer" \in notes =>
              \A m \in {M("Hopcroft-Karp"), M("Blossom")} : count(m) < N
    BY <2>10
  <2> QED BY <2>4, <2>8, <2>9, <2>11 DEF NotesAreTrue, M, notes
<1> QED BY <1>1, ReportsInvariant, GuaranteesInvariant, PTL

=============================================================================
