---------------------------- MODULE PagesProofs ----------------------------
(***************************************************************************)
(* Pages for any number of rows and any size of a page: what a walk of the *)
(* messages shows, and how far a walk of the users drifts.                 *)
(***************************************************************************)
EXTENDS Pages, FiniteSetTheorems, WellFoundedInduction, TLAPS

USE PagesAssumption

\* The rows of a walk were visible at some time.
Stored == \A k \in known \cup shown : rows[k] \in {"visible", "gone"}

\* The cursor is the oldest message shown, and those that are missing are older.
MessagesWalk ==
  /\ known \cup shown \subseteq Visible
  /\ \A k \in shown : cursor # NoCursor /\ cursor <= k
  /\ \A k \in known \ shown : more /\ (cursor = NoCursor \/ k < cursor)
  /\ repeats = 0

\* The users shown before that the next pages will show again.
Ahead == {k \in shown \cap Visible : Rank(Visible, k) >= pages * Limit}

UsersWalk == /\ Cardinality(Missed) <= removed
             /\ Cardinality(Ahead) + repeats <= added

Inv == /\ TypeOK /\ Stored
       /\ listing = "messages" => MessagesWalk
       /\ listing = "users" => UsersWalk

-----------------------------------------------------------------------------
LEMMA Least ==
  ASSUME NEW T \in SUBSET Nat, T # {}
  PROVE  \E n \in T : \A m \in T : n <= m
<1> DEFINE R == OpToRel(<, Nat)
<1>1. \A x, y \in Nat : <<x, y>> \in R <=> x < y
  BY DEF OpToRel
<1>2. IsWellFoundedOn(R, Nat)
  BY NatLessThanWellFounded
<1> HIDE DEF R
<1>3. PICK n \in T : \A m \in T : ~(<<m, n>> \in R)
  BY <1>2, WFMin
<1>4. ASSUME NEW m \in T
      PROVE  n <= m
  <2>1. ~(m < n)
    BY <1>1, <1>3
  <2> QED BY <2>1
<1> QED BY <1>4

-----------------------------------------------------------------------------
(* Ranks.  S is a set of keys; the rank of a row is the number of newer ones. *)

LEMMA KeysFinite ==
  ASSUME NEW S \in SUBSET Key
  PROVE  IsFiniteSet(S) /\ Cardinality(S) \in Nat
<1>1. IsFiniteSet(Key)
  BY FS_Interval DEF Key
<1>2. IsFiniteSet(S)
  BY <1>1, FS_Subset
<1> QED BY <1>2, FS_CardinalityType

LEMMA RankType ==
  ASSUME NEW S \in SUBSET Key, NEW k
  PROVE  Rank(S, k) \in Nat
BY KeysFinite DEF Rank

\* Newer rows have smaller ranks.
LEMMA RankOrder ==
  ASSUME NEW S \in SUBSET Key, NEW j \in S, NEW k \in S, j < k
  PROVE  Rank(S, k) < Rank(S, j)
<1> DEFINE J == {i \in S : i > j}
           K == {i \in S : i > k}
<1>1. J \in SUBSET Key /\ K \in SUBSET Key /\ IsFiniteSet(J) /\ IsFiniteSet(K)
  BY KeysFinite
<1>2. K \subseteq J \ {k} /\ k \in J
  <2>1. \A i \in S : i \in Int
    BY DEF Key
  <2> QED BY <2>1
<1>3. Cardinality(J \ {k}) = Cardinality(J) - 1 /\ IsFiniteSet(J \ {k})
  BY <1>1, <1>2, FS_RemoveElement
<1>4. Cardinality(K) <= Cardinality(J \ {k})
  BY <1>2, <1>3, FS_Subset
<1>5. Cardinality(J) \in Nat /\ Cardinality(K) \in Nat
  BY <1>1, KeysFinite
<1> HIDE DEF J, K
<1>6. Cardinality(K) < Cardinality(J)
  BY <1>3, <1>4, <1>5
<1> QED BY <1>6 DEF J, K, Rank

LEMMA RankInjective ==
  ASSUME NEW S \in SUBSET Key, NEW j \in S, NEW k \in S, Rank(S, j) = Rank(S, k)
  PROVE  j = k
<1>1. Rank(S, j) \in Nat /\ Rank(S, k) \in Nat
  BY RankType
<1>2. j < k \/ k < j \/ j = k
  BY DEF Key
<1> QED BY <1>1, <1>2, RankOrder

LEMMA RankBelowSize ==
  ASSUME NEW S \in SUBSET Key, NEW k \in S
  PROVE  Rank(S, k) < Cardinality(S)
<1> DEFINE K == {i \in S : i > k}
<1>1. K \subseteq S \ {k}
  BY DEF Key
<1>2. Cardinality(S \ {k}) = Cardinality(S) - 1 /\ IsFiniteSet(S \ {k}) /\ Cardinality(S) \in Nat
  BY KeysFinite, FS_RemoveElement
<1>3. Cardinality(K) <= Cardinality(S \ {k}) /\ Cardinality(K) \in Nat
  BY <1>1, <1>2, FS_Subset, FS_CardinalityType
<1> HIDE DEF K
<1>4. Cardinality(K) < Cardinality(S)
  BY <1>2, <1>3
<1> QED BY <1>4 DEF K, Rank

LEMMA Newest ==
  ASSUME NEW S \in SUBSET Key, S # {}
  PROVE  \E k \in S : \A j \in S : j <= k
<1> DEFINE D == {MaxRows - k : k \in S}
<1>1. D \in SUBSET Nat /\ D # {}
  <2>1. \A k \in S : MaxRows - k \in Nat
    BY PagesAssumption DEF Key
  <2>2. D \in SUBSET Nat
    BY <2>1
  <2>3. D # {}
    OBVIOUS
  <2> QED BY <2>2, <2>3
<1>2. PICK d \in D : \A e \in D : d <= e
  <2> HIDE DEF D
  <2> QED BY <1>1, Least
<1>3. PICK k \in S : d = MaxRows - k
  BY <1>2
<1>4. ASSUME NEW j \in S
      PROVE  j <= k
  <2>1. MaxRows - j \in D
    OBVIOUS
  <2>2. MaxRows - k <= MaxRows - j
    BY <1>2, <1>3, <2>1
  <2> QED BY <2>2 DEF Key
<1> QED BY <1>4

\* One row more, or one less, changes a rank by at most one.
LEMMA RankWithOneMore ==
  ASSUME NEW S \in SUBSET Key, NEW c \in Key, NEW k \in Key
  PROVE  Rank(S \cup {c}, k) \in {Rank(S, k), Rank(S, k) + 1}
<1> DEFINE K == {i \in S : i > k}
<1>1. K \in SUBSET Key /\ IsFiniteSet(K)
  BY KeysFinite
<1>2. {i \in S \cup {c} : i > k} \in {K, K \cup {c}}
  OBVIOUS
<1>3. Cardinality(K \cup {c}) \in {Cardinality(K), Cardinality(K) + 1}
  BY <1>1, FS_AddElement
<1> QED BY <1>2, <1>3 DEF Rank

LEMMA RankWithOneLess ==
  ASSUME NEW S \in SUBSET Key, NEW d \in Key, NEW k \in Key
  PROVE  Rank(S \ {d}, k) \in {Rank(S, k), Rank(S, k) - 1}
<1> DEFINE K == {i \in S : i > k}
<1>1. K \in SUBSET Key /\ IsFiniteSet(K)
  BY KeysFinite
<1>2. {i \in S \ {d} : i > k} = K \ {d}
  OBVIOUS
<1>3. Cardinality(K \ {d}) \in {Cardinality(K), Cardinality(K) - 1}
  BY <1>1, FS_RemoveElement
<1> QED BY <1>2, <1>3 DEF Rank

-----------------------------------------------------------------------------
(* The rows of an offset: the first m of a listing are m rows, if it has them. *)

Top(S, m) == {k \in S : Rank(S, k) < m}

LEMMA NextOfTop ==
  ASSUME NEW S \in SUBSET Key, NEW m \in Nat, m < Cardinality(S),
         Cardinality(Top(S, m)) = m
  PROVE  \E k \in S : Rank(S, k) = m
<1> DEFINE R == S \ Top(S, m)
<1>1. Top(S, m) \in SUBSET Key /\ R \in SUBSET Key
  BY DEF Top
<1>2. R # {}
  <2>1. SUFFICES ASSUME S = Top(S, m)
                 PROVE  FALSE
    BY DEF Top
  <2> QED BY <2>1, KeysFinite
<1>3. PICK k \in R : \A j \in R : j <= k
  BY <1>1, <1>2, Newest
<1>4. k \in S /\ ~(Rank(S, k) < m)
  BY <1>3 DEF Top
<1>5. ASSUME NEW j \in S
      PROVE  j > k <=> j \in Top(S, m)
  <2>1. j \in Key /\ k \in Key
    BY <1>4
  <2>2. CASE j \in R
    BY <1>3, <2>1, <2>2 DEF Key
  <2>3. CASE j \in Top(S, m)
    <3>1. Rank(S, j) < Rank(S, k)
      BY <1>4, <2>3, RankType DEF Top
    <3>2. ~(j < k) /\ j # k
      BY <1>4, <3>1, RankOrder, RankType
    <3> QED BY <2>1, <2>3, <3>2 DEF Key
  <2> QED BY <2>2, <2>3
<1>6. {j \in S : j > k} = Top(S, m)
  BY <1>5 DEF Top
<1> QED BY <1>4, <1>6 DEF Rank

LEMMA TopSize ==
  ASSUME NEW S \in SUBSET Key, NEW n \in Nat, n <= Cardinality(S)
  PROVE  Cardinality(Top(S, n)) = n
<1> DEFINE Wrong == {m \in Nat : m <= Cardinality(S) /\ Cardinality(Top(S, m)) # m}
<1>1. SUFFICES ASSUME Wrong # {}
               PROVE  FALSE
  OBVIOUS
<1>2. PICK m \in Wrong : \A i \in Wrong : m <= i
  <2>1. Wrong \in SUBSET Nat
    OBVIOUS
  <2> HIDE DEF Wrong
  <2> QED BY <1>1, <2>1, Least
<1>3. m # 0
  <2>1. Top(S, 0) = {}
    BY RankType DEF Top
  <2> QED BY <1>2, <2>1, FS_EmptySet
<1>4. m - 1 \in Nat /\ m - 1 < Cardinality(S) /\ Cardinality(Top(S, m - 1)) = m - 1
  BY <1>2, <1>3, KeysFinite
<1>5. PICK k \in S : Rank(S, k) = m - 1
  BY <1>4, NextOfTop
<1>6. Top(S, m) = Top(S, m - 1) \cup {k} /\ k \notin Top(S, m - 1)
  <2>1. ASSUME NEW j \in S
        PROVE  Rank(S, j) < m <=> Rank(S, j) < m - 1 \/ j = k
    <3>1. Rank(S, j) = m - 1 <=> j = k
      BY <1>5, RankInjective
    <3> QED BY <1>2, <3>1, RankType
  <2> QED BY <1>5, <2>1 DEF Top
<1>7. IsFiniteSet(Top(S, m - 1))
  BY KeysFinite DEF Top
<1>8. Cardinality(Top(S, m)) = m
  BY <1>2, <1>4, <1>6, <1>7, FS_AddElement
<1> QED BY <1>2, <1>8

\* A page that is followed by a row is full.
LEMMA FullPage ==
  ASSUME NEW S \in SUBSET Key, NEW offset \in Nat, NEW k \in S,
         Rank(S, k) >= offset + Limit
  PROVE  Cardinality(Window(S, offset, Limit)) = Limit
<1>1. offset + Limit <= Cardinality(S) /\ offset <= Cardinality(S) /\ offset + Limit \in Nat
  BY RankBelowSize, RankType, KeysFinite
<1> DEFINE A == Top(S, offset + Limit)
           B == Top(S, offset)
<1>2. Cardinality(A) = offset + Limit /\ Cardinality(B) = offset
  BY <1>1, TopSize
<1>3. Window(S, offset, Limit) = A \ B /\ A \cap B = B
  BY RankType DEF Window, Top
<1>4. IsFiniteSet(A)
  BY KeysFinite DEF Top
<1> HIDE DEF A, B
<1>5. Cardinality(A \ B) = Cardinality(A) - Cardinality(A \cap B)
  BY <1>4, FS_Difference
<1>6. A \cap B = B /\ Cardinality(A \ B) = Limit
  BY <1>2, <1>3, <1>5
<1> QED BY <1>3, <1>6

-----------------------------------------------------------------------------
(* Types *)

LEMMA VisibleKeys == Visible \in SUBSET Key /\ Visible' \in SUBSET Key
BY DEF Visible

LEMMA Product ==
  ASSUME NEW n \in Nat
  PROVE  n * Limit \in Nat /\ (n + 1) * Limit = n * Limit + Limit
OBVIOUS

LEMMA PageKeys ==
  ASSUME TypeOK
  PROVE  /\ getMessages(Limit, cursor).messages \in SUBSET Visible
         /\ listUsers(pages + 1, Limit) = Window(Visible, pages * Limit, Limit)
         /\ listUsers(pages + 1, Limit) \in SUBSET Visible
<1>1. (pages + 1) - 1 = pages
  BY DEF TypeOK
<1> QED BY <1>1 DEF getMessages, listUsers, Window, Before

LEMMA Start == Init => Inv
<1> SUFFICES ASSUME Init
             PROVE  Inv
  OBVIOUS
<1>1. TypeOK /\ Stored /\ MessagesWalk
  BY DEF Init, NoWalk, TypeOK, Stored, MessagesWalk, State, NoCursor, Visible
<1>2. UsersWalk
  <2>1. Missed = {} /\ Ahead = {}
    BY DEF Init, NoWalk, Missed, Ahead
  <2> QED BY <2>1, FS_EmptySet DEF Init, NoWalk, UsersWalk
<1> QED BY <1>1, <1>2 DEF Inv

LEMMA TypesStep ==
  ASSUME TypeOK, Stored, [Next]_vars
  PROVE  TypeOK' /\ Stored'
<1> USE DEF TypeOK, Stored
<1>1. CASE UNCHANGED vars
  BY <1>1 DEF vars, walk
<1>2. ASSUME NEW k \in Key, Insert(k) \/ Commit(k) \/ Delete(k)
      PROVE  TypeOK' /\ Stored'
  BY <1>2 DEF Insert, Commit, Delete, State, walk
<1>3. CASE Begin
  BY <1>3, VisibleKeys DEF Begin, Visible, NoCursor
<1>4. ASSUME NEW page \in SUBSET Visible, Receive(page)
      PROVE  /\ pages' \in Nat /\ shown' \in SUBSET Key /\ repeats' \in Nat
             /\ Stored'
             /\ UNCHANGED <<listing, rows, known, added, removed>>
  <2>1. page \in SUBSET Key
    BY VisibleKeys
  <2>2. Cardinality(shown \cap page) \in Nat
    BY <2>1, KeysFinite
  <2> QED BY <1>4, <2>1, <2>2 DEF Receive, Visible
<1>5. CASE NextMessages
  <2> DEFINE answer == getMessages(Limit, cursor)
  <2>1. answer.messages \in SUBSET Visible /\ answer.hasMore \in BOOLEAN
    BY PageKeys DEF getMessages
  <2>2. Receive(answer.messages) /\ more' = answer.hasMore
        /\ (cursor' = cursor \/ cursor' \in answer.messages)
    BY <1>5 DEF NextMessages
  <2> HIDE DEF answer
  <2> QED BY <1>4, <2>1, <2>2, VisibleKeys
<1>6. CASE NextUsers
  <2> DEFINE page == listUsers(pages + 1, Limit)
  <2>1. page \in SUBSET Visible
    BY PageKeys
  <2>2. Receive(page) /\ more' \in BOOLEAN /\ cursor' = cursor
    BY <1>6 DEF NextUsers
  <2> HIDE DEF page
  <2> QED BY <1>4, <2>1, <2>2
<1> QED BY <1>1, <1>2, <1>3, <1>5, <1>6 DEF Next

-----------------------------------------------------------------------------
(* The walk of the messages *)

\* What lies beyond a page: rows older than all of it, and a reason to go on.
LEMMA BeyondPage ==
  ASSUME NEW S \in SUBSET Key, NEW k \in S, k \notin Window(S, 0, Limit)
  PROVE  /\ Cardinality(S) > Limit
         /\ Window(S, 0, Limit) # {}
         /\ \A c \in Window(S, 0, Limit) : k < c
<1>1. Rank(S, k) \in Nat /\ Rank(S, k) >= Limit
  BY RankType DEF Window
<1>2. Cardinality(S) > Limit
  BY <1>1, RankBelowSize, KeysFinite
<1>3. Window(S, 0, Limit) # {}
  <2>1. PICK m \in S : \A j \in S : j <= m
    BY Newest
  <2>2. {j \in S : j > m} = {}
    <3>1. \A j \in S : j \in Int
      BY DEF Key
    <3> QED BY <2>1, <3>1
  <2>3. Rank(S, m) = 0
    BY <2>2, FS_EmptySet DEF Rank
  <2> QED BY <2>3 DEF Window
<1>4. ASSUME NEW c \in Window(S, 0, Limit)
      PROVE  k < c
  <2>1. c \in S /\ Rank(S, c) \in Nat /\ Rank(S, c) < Limit
    BY RankType DEF Window
  <2>2. ~(c < k) /\ c # k
    BY <1>1, <2>1, RankOrder
  <2> QED BY <2>1, <2>2 DEF Key
<1> QED BY <1>2, <1>3, <1>4

LEMMA NextMessagesStep ==
  ASSUME TypeOK, MessagesWalk, NextMessages
  PROVE  MessagesWalk'
<1> USE DEF TypeOK, MessagesWalk
<1> DEFINE B == Before(cursor)
           page == Window(B, 0, Limit)
<1>1. B \in SUBSET Key /\ B \subseteq Visible /\ page \subseteq B
  BY VisibleKeys DEF Before, Window
<1>2. /\ pages' = pages + 1 /\ shown' = shown \cup page
      /\ repeats' = repeats + Cardinality(shown \cap page)
      /\ UNCHANGED <<rows, known>>
      /\ more' = (Cardinality(B) > Limit)
      /\ \/ page = {} /\ UNCHANGED cursor
         \/ cursor' \in page /\ \A k \in page : cursor' <= k
  BY DEF NextMessages, Receive, getMessages
<1>3. \A k \in B : k \in Key /\ (cursor = NoCursor \/ k < cursor)
  BY <1>1 DEF Before
<1>4. shown \cap page = {}
  BY <1>1, <1>3 DEF Key, NoCursor
<1>5. repeats' = 0
  <2>1. Cardinality(shown \cap page) = 0
    BY <1>4, FS_EmptySet
  <2> HIDE DEF page
  <2> QED BY <1>2, <2>1
<1>6. (known \cup shown)' \subseteq Visible'
  BY <1>1, <1>2 DEF Visible
<1>7. ASSUME NEW k \in shown'
      PROVE  cursor' # NoCursor /\ cursor' <= k
  BY <1>1, <1>2, <1>3, <1>7 DEF Key, NoCursor
<1>8. ASSUME NEW k \in (known \ shown)'
      PROVE  more' /\ (cursor' = NoCursor \/ k < cursor')
  <2>1. k \in B /\ k \notin page
    BY <1>2, <1>8 DEF Before
  <2> HIDE DEF B
  <2>2. Cardinality(B) > Limit /\ page # {} /\ \A c \in page : k < c
    BY <1>1, <2>1, BeyondPage
  <2> QED BY <1>2, <2>2
<1> QED BY <1>5, <1>6, <1>7, <1>8

LEMMA MessagesStep ==
  ASSUME Inv, listing = "messages", [Next]_vars
  PROVE  MessagesWalk'
<1> USE DEF Inv, MessagesWalk
<1>1. CASE UNCHANGED vars
  BY <1>1 DEF vars, walk, Visible
<1>2. ASSUME NEW k \in Key, Insert(k) \/ Commit(k)
      PROVE  MessagesWalk'
  BY <1>2 DEF Insert, Commit, walk, Visible, TypeOK
<1>3. CASE Begin
  BY <1>3 DEF Begin, Visible
<1>4. CASE NextMessages
  BY <1>4, NextMessagesStep
<1> QED BY <1>1, <1>2, <1>3, <1>4 DEF Next, Delete, NextUsers

-----------------------------------------------------------------------------
(* The walk of the users *)

LEMMA Counted ==
  ASSUME TypeOK
  PROVE  /\ Missed \in SUBSET Key /\ Ahead \in SUBSET Key
         /\ Cardinality(Missed) \in Nat /\ Cardinality(Ahead) \in Nat
         /\ pages * Limit \in Nat
<1>1. Missed \in SUBSET Key /\ Ahead \in SUBSET Key
  BY VisibleKeys DEF Missed, Ahead
<1> QED BY <1>1, KeysFinite, Product DEF TypeOK

LEMMA AtMostOneMore ==
  ASSUME NEW S \in SUBSET Key, NEW T \in SUBSET Key,
         \A x, y \in T \ S : x = y
  PROVE  Cardinality(T) <= Cardinality(S) + 1
<1>1. CASE T \subseteq S
  BY <1>1, KeysFinite, FS_Subset
<1>2. ASSUME NEW x \in T \ S
      PROVE  Cardinality(T) <= Cardinality(S) + 1
  <2>1. T \subseteq S \cup {x}
    BY <1>2
  <2>2. IsFiniteSet(S \cup {x}) /\ Cardinality(S \cup {x}) = Cardinality(S) + 1
    BY <1>2, KeysFinite, FS_AddElement
  <2>3. Cardinality(T) <= Cardinality(S \cup {x})
    BY <2>1, <2>2, FS_Subset
  <2> QED BY <2>2, <2>3
<1> QED BY <1>1, <1>2

LEMMA NoMore ==
  ASSUME NEW S \in SUBSET Key, NEW T \in SUBSET S
  PROVE  Cardinality(T) <= Cardinality(S)
BY KeysFinite, FS_Subset

\* A user who registers moves at most one user across the end of the pages.
LEMMA RegistrationStep ==
  ASSUME Inv, listing = "users", NEW c \in Key, Commit(c)
  PROVE  UsersWalk'
<1> USE DEF Inv, TypeOK
<1> DEFINE P == pages * Limit
<1>1. rows[c] = "open" /\ c \notin Visible /\ c \notin known \cup shown
  BY DEF Commit, Visible, Stored
<1>2. CASE rows' = [rows EXCEPT ![c] = "gone"] /\ UNCHANGED added
  <2>1. Visible' = Visible /\ UNCHANGED <<pages, shown, repeats, more, known, removed>>
    BY <1>1, <1>2 DEF Visible, Commit
  <2>2. Missed' = Missed /\ Ahead' = Ahead
    BY <2>1 DEF Missed, Ahead
  <2> QED BY <1>2, <2>1, <2>2 DEF UsersWalk
<1>3. CASE rows' = [rows EXCEPT ![c] = "visible"] /\ added' = added + 1
  <2>1. Visible' = Visible \cup {c} /\ UNCHANGED <<pages, shown, repeats, more, known, removed>>
    BY <1>1, <1>3 DEF Visible, Commit
  <2>2. \A k \in Visible : /\ Rank(Visible, k) \in Nat
                           /\ Rank(Visible', k) \in {Rank(Visible, k), Rank(Visible, k) + 1}
    BY <2>1, VisibleKeys, RankType, RankWithOneMore
  <2>3. Missed' \subseteq Missed
    <3> SUFFICES ASSUME NEW k \in Missed'
                 PROVE  k \in Missed
      OBVIOUS
    <3>1. k \in known \cap Visible /\ k \notin shown /\ (~more \/ Rank(Visible', k) < P)
      BY <1>1, <2>1 DEF Missed
    <3>2. ~more \/ Rank(Visible, k) < P
      BY <2>2, <3>1, Counted
    <3> QED BY <3>1, <3>2 DEF Missed
  <2>4. \A k \in Ahead' \ Ahead : k \in Visible /\ Rank(Visible, k) = P - 1
    BY <1>1, <2>1, <2>2, Product DEF Ahead
  <2>5. Ahead' \in SUBSET Key
    BY VisibleKeys DEF Ahead
  <2>6. Cardinality(Ahead') <= Cardinality(Ahead) + 1
    <3>1. \A x, y \in Ahead' \ Ahead : x = y
      BY <2>4, VisibleKeys, RankInjective
    <3> QED BY <2>5, <3>1, Counted, AtMostOneMore
  <2>7. Cardinality(Missed') <= Cardinality(Missed) /\ Cardinality(Missed') \in Nat
    BY <2>3, Counted, NoMore, KeysFinite
  <2>8. Cardinality(Ahead') \in Nat
    BY <2>5, KeysFinite
  <2> QED BY <1>3, <2>1, <2>6, <2>7, <2>8, Counted DEF UsersWalk
<1> QED BY <1>2, <1>3 DEF Commit

\* So does one that is deleted, in the other direction.
LEMMA DeletionStep ==
  ASSUME Inv, NEW d \in Key, Delete(d)
  PROVE  UsersWalk'
<1> USE DEF Inv, TypeOK
<1> DEFINE P == pages * Limit
<1>1. /\ Visible' = Visible \ {d} /\ removed' = removed + 1
      /\ UNCHANGED <<pages, shown, repeats, more, known, added>>
  BY DEF Delete, Visible
<1>2. \A k \in Visible : /\ Rank(Visible, k) \in Nat
                         /\ Rank(Visible', k) \in {Rank(Visible, k), Rank(Visible, k) - 1}
  BY <1>1, VisibleKeys, RankType, RankWithOneLess
<1>3. Ahead' \subseteq Ahead
  <2> SUFFICES ASSUME NEW k \in Ahead'
               PROVE  k \in Ahead
    OBVIOUS
  <2>1. k \in shown \cap Visible /\ Rank(Visible', k) >= P
    BY <1>1 DEF Ahead
  <2>2. Rank(Visible, k) >= P
    BY <1>2, <2>1, Counted
  <2> QED BY <2>1, <2>2 DEF Ahead
<1>4. \A k \in Missed' \ Missed : k \in Visible /\ Rank(Visible, k) = P
  BY <1>1, <1>2, Product DEF Missed
<1>5. Missed' \in SUBSET Key
  BY VisibleKeys DEF Missed
<1>6. Cardinality(Missed') <= Cardinality(Missed) + 1
  <2>1. \A x, y \in Missed' \ Missed : x = y
    BY <1>4, VisibleKeys, RankInjective
  <2> QED BY <1>5, <2>1, Counted, AtMostOneMore
<1>7. Cardinality(Ahead') <= Cardinality(Ahead) /\ Cardinality(Ahead') \in Nat
  BY <1>3, Counted, NoMore, KeysFinite
<1>8. Cardinality(Missed') \in Nat
  BY <1>5, KeysFinite
<1> QED BY <1>1, <1>6, <1>7, <1>8, Counted DEF UsersWalk, Delete

\* A page takes what it shows again out of Ahead, and passes over nobody.
LEMMA NextUsersStep ==
  ASSUME Inv, NextUsers
  PROVE  UsersWalk'
<1> USE DEF Inv, TypeOK
<1> DEFINE P == pages * Limit
           page == Window(Visible, P, Limit)
<1>1. /\ pages' = pages + 1 /\ shown' = shown \cup page
      /\ repeats' = repeats + Cardinality(shown \cap page)
      /\ UNCHANGED <<rows, known, added, removed>>
      /\ more /\ more' = (Cardinality(page) = Limit)
  BY PageKeys DEF NextUsers, Receive
<1>2. Visible' = Visible /\ pages' * Limit = P + Limit /\ P \in Nat
  BY <1>1, Product DEF Visible
<1>3. \A k \in Visible : Rank(Visible, k) \in Nat
  BY VisibleKeys, RankType
<1>4. \A k \in page : k \in Visible /\ Rank(Visible, k) >= P /\ Rank(Visible, k) < P + Limit
  BY DEF Window
<1>5. Missed' \subseteq Missed
  <2> SUFFICES ASSUME NEW k \in Missed'
               PROVE  k \in Missed
    OBVIOUS
  <2>1. k \in (known \cap Visible) \ shown /\ k \notin page
    BY <1>1, <1>2 DEF Missed
  <2>2. CASE Rank(Visible, k) < P + Limit
    <3>1. ~(Rank(Visible, k) >= P)
      BY <2>1, <2>2 DEF Window
    <3> QED BY <1>2, <1>3, <2>1, <3>1 DEF Missed
  <2>3. CASE ~(Rank(Visible, k) < P + Limit)
    <3>1. ~more'
      BY <1>2, <2>3 DEF Missed
    <3>2. Rank(Visible, k) >= P + Limit
      BY <1>2, <1>3, <2>1, <2>3
    <3>3. Cardinality(page) = Limit
      <4> HIDE DEF P
      <4> QED BY <1>2, <2>1, <3>2, VisibleKeys, FullPage
    <3> QED BY <1>1, <3>1, <3>3
  <2> QED BY <2>2, <2>3
<1> DEFINE Again == shown \cap page
<1>6. Again \subseteq Ahead
  BY <1>4 DEF Ahead
<1>7. Ahead' \subseteq Ahead \ Again
  <2> SUFFICES ASSUME NEW k \in Ahead'
               PROVE  k \in Ahead \ Again
    OBVIOUS
  <2>1. k \in shown \cup page /\ k \in Visible /\ Rank(Visible, k) >= P + Limit
    BY <1>1, <1>2 DEF Ahead
  <2>2. k \notin page
    BY <1>2, <1>3, <1>4, <2>1
  <2> QED BY <1>2, <1>3, <2>1, <2>2 DEF Ahead
<1> HIDE DEF Again
<1>8. Cardinality(Ahead \ Again) = Cardinality(Ahead) - Cardinality(Again)
  <2>1. Ahead \cap Again = Again
    BY <1>6
  <2>2. Cardinality(Ahead \ Again) = Cardinality(Ahead) - Cardinality(Ahead \cap Again)
    BY Counted, KeysFinite, FS_Difference
  <2> QED BY <2>1, <2>2
<1>9. Cardinality(Ahead') <= Cardinality(Ahead \ Again)
  BY <1>7, Counted, NoMore
<1>10. /\ Cardinality(Missed') <= Cardinality(Missed) /\ Cardinality(Missed') \in Nat
       /\ Cardinality(Ahead') \in Nat /\ Cardinality(Again) \in Nat
  BY <1>5, <1>6, <1>7, Counted, NoMore, KeysFinite
<1>11. repeats' = repeats + Cardinality(Again)
  BY <1>1 DEF Again
<1> HIDE DEF page, P
<1> QED BY <1>1, <1>8, <1>9, <1>10, <1>11, Counted DEF UsersWalk, NextUsers

LEMMA UsersStep ==
  ASSUME Inv, listing = "users", [Next]_vars
  PROVE  UsersWalk'
<1>1. CASE UNCHANGED <<rows, walk>>
  BY <1>1 DEF Inv, walk, UsersWalk, Missed, Ahead, Visible
<1>2. ASSUME NEW k \in Key, Insert(k)
      PROVE  UsersWalk'
  <2>1. Visible' = Visible /\ UNCHANGED walk
    BY <1>2 DEF Inv, TypeOK, Insert, Visible
  <2> QED BY <2>1 DEF Inv, walk, UsersWalk, Missed, Ahead
<1>3. CASE Begin
  <2>1. /\ pages' = 0 /\ shown' = {} /\ known' = Visible /\ more'
        /\ repeats' = 0 /\ added' = 0 /\ removed' = 0 /\ Visible' = Visible
    BY <1>3 DEF Begin, Visible
  <2>2. \A k \in Visible : Rank(Visible, k) \in Nat
    BY VisibleKeys, RankType
  <2>3. Missed' = {} /\ Ahead' = {}
    BY <2>1, <2>2 DEF Missed, Ahead
  <2> QED BY <2>1, <2>3, FS_EmptySet DEF UsersWalk
<1>4. CASE NextUsers
  BY <1>4, NextUsersStep
<1>5. ASSUME NEW k \in Key, Commit(k) \/ Delete(k)
      PROVE  UsersWalk'
  BY <1>5, RegistrationStep, DeletionStep
<1> QED BY <1>1, <1>2, <1>3, <1>4, <1>5 DEF Next, NextMessages, vars

-----------------------------------------------------------------------------
(* The results *)

LEMMA Inductive == Inv /\ [Next]_vars => Inv'
<1> SUFFICES ASSUME Inv, [Next]_vars
             PROVE  Inv'
  OBVIOUS
<1>1. TypeOK' /\ Stored'
  BY TypesStep DEF Inv
<1>2. listing' = listing
  BY DEF Next, Insert, Commit, Delete, Begin, NextMessages, NextUsers, Receive, vars
<1> QED BY <1>1, <1>2, MessagesStep, UsersStep DEF Inv

LEMMA Invariant == Spec => []Inv
<1> QED BY Start, Inductive, PTL DEF Spec

\* All variables keep their types.
THEOREM TypeCorrect == Spec => []TypeOK
<1>1. Inv => TypeOK
  BY DEF Inv
<1> QED BY <1>1, Invariant, PTL

\* getMessages' cursor and its extra row neither skip nor repeat a message,
\* whatever is stored between two pages and in whatever order it commits.
THEOREM HistoryIsComplete == Spec => []HistoryComplete
<1>1. Inv => HistoryComplete
  BY DEF Inv, TypeOK, MessagesWalk, HistoryComplete, Ended
<1> QED BY <1>1, Invariant, PTL

\* The offset of listUsers loses at most one user for each deletion, and repeats
\* at most one for each registration.
THEOREM DriftIsBounded == Spec => []DriftBounded
<1>1. Inv => DriftBounded
  BY Counted DEF Inv, TypeOK, UsersWalk, DriftBounded
<1> QED BY <1>1, Invariant, PTL
=============================================================================
