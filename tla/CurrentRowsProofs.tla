-------------------------- MODULE CurrentRowsProofs --------------------------
(***************************************************************************)
(* CurrentRows for any number of sessions, versions and rows: there is     *)
(* always a current row to read, and never more of them than sessions.     *)
(***************************************************************************)
EXTENDS CurrentRows, FiniteSetTheorems, TLAPS

\* The transactions that have still to insert their row fit under the bound.
Pending == {s \in Session : pc[s] \in {"begun", "marking"}}
Room == Cardinality(Pending) + inserted <= MaxRows

\* A call has its argument.
HasVersion == \A s \in Session : pc[s] # "idle" => version[s] \in Version

\* A transaction past its INSERT has visited all rows and has one of its own.
HasRow == \A s \in Session :
            /\ pc[s] = "marking" => new[s] = {}
            /\ pc[s] \in {"inserted", "done"} =>
                 todo[s] = <<>> /\ \E r \in Row : new[s] = {r}

\* The flag agrees with the rows.
FlagAgrees == table = "questionnaire_submissions" => (completed <=> current # {})

\* Each current row has a session to itself, the one that inserted it, whose
\* next transaction marks it: past its snapshot that has been done, or the
\* UPDATE has still to visit the row.
Left(s, r) == \E k \in DOMAIN todo[s] : todo[s][k] = r
Replaces(s, r) == pc[s] \notin {"idle", "begun"} => r \in marked[s] \/ Left(s, r)
Owner(f) == /\ \A q, r \in current : f[q] = f[r] => q = r
            /\ \A r \in current : Replaces(f[r], r)
OneEach == \E f \in [current -> Session] : Owner(f)

Inv == TypeOK /\ Room /\ HasVersion /\ HasRow /\ FlagAgrees /\ OneEach

-----------------------------------------------------------------------------
(* A transaction ends with its COMMIT or without effect. *)
Ends(s) == \/ Committing(s) /\ Commits(s)
           \/ Abort(s)
Works(s) == \/ \E v \in Version : Begin(s, v)
            \/ MarkOld(s) \/ MarkRow(s) \/ MarkDone(s)
            \/ Insert(s) /\ Goto(s, "inserted")
            \/ Ends(s)

LEMMA Steps == [Next]_vars => UNCHANGED vars \/ \E s \in Session : Works(s)
<1> SUFFICES ASSUME NEW s \in Session, Run(s) \/ Lost(s)
             PROVE  Works(s)
  BY DEF Next, Works
<1>1. CASE Insert(s)
  BY <1>1 DEF Insert, Works, Ends
<1> QED BY <1>1 DEF Run, Lost, Works, Ends, BreakDeadlock, Commit

\* What is left of the rows to visit when the first one has been.
LEMMA TailLeaves ==
  ASSUME NEW f \in Seq(Row), f # <<>>
  PROVE  /\ Tail(f) \in Seq(Row) /\ Head(f) \in Row
         /\ \A k \in DOMAIN f : f[k] = Head(f) \/ \E j \in DOMAIN Tail(f) : Tail(f)[j] = f[k]
<1>1. Tail(f) \in Seq(Row) /\ Head(f) \in Row
  OBVIOUS
<1>2. ASSUME NEW k \in DOMAIN f, k # 1
      PROVE  k - 1 \in DOMAIN Tail(f) /\ Tail(f)[k - 1] = f[k]
  BY <1>2
<1>3. f[1] = Head(f)
  OBVIOUS
<1> QED BY <1>1, <1>2, <1>3

\* The order in which an UPDATE visits the rows leaves none of them out.
LEMMA OrderIsComplete ==
  ASSUME NEW S, IsFiniteSet(S), S \subseteq Row, NEW order \in SetToSeqs(S)
  PROVE  /\ order \in Seq(Row)
         /\ \A r \in S : \E k \in DOMAIN order : order[k] = r
<1> DEFINE n == Cardinality(S)
<1>1. n \in Nat
  BY FS_CardinalityType
<1>2. order \in [1 .. n -> S] /\ \A i, j \in 1 .. n : i # j => order[i] # order[j]
  BY DEF SetToSeqs
<1>3. order \in Injection(1 .. n, S)
  BY <1>2 DEF Injection, IsInjective
<1>4. Cardinality(1 .. n) = n
  BY <1>1, FS_Interval
<1> HIDE DEF n
<1>5. order \in Surjection(1 .. n, S)
  BY <1>3, <1>4, FS_Injection DEF n
<1>6. order \in Seq(Row)
  BY <1>1, <1>2
<1> QED BY <1>2, <1>5, <1>6 DEF Surjection

-----------------------------------------------------------------------------
(* Types, and the bound on the rows *)

LEMMA PendingFinite == IsFiniteSet(Pending) /\ Cardinality(Pending) \in Nat
BY CurrentRowsAssumption, FS_Subset, FS_CardinalityType DEF Pending

LEMMA CurrentIsFinite ==
  ASSUME OneEach
  PROVE  IsFiniteSet(current) /\ Cardinality(current) <= Cardinality(Session)
<1>1. PICK f \in [current -> Session] : Owner(f)
  BY DEF OneEach
<1>2. f \in Injection(current, Session)
  BY <1>1 DEF Owner, Injection, IsInjective
<1> QED BY <1>2, FS_Injection, CurrentRowsAssumption

LEMMA Start == Init => Inv
<1> SUFFICES ASSUME Init
             PROVE  Inv
  OBVIOUS
<1>1. TypeOK
  <2>1. <<>> \in Seq(Row)
    OBVIOUS
  <2>2. 0 \in 0 .. MaxRows
    BY CurrentRowsAssumption
  <2> QED BY <2>1, <2>2 DEF Init, TypeOK
<1>2. Room
  <2>1. Pending = {}
    BY DEF Init, Pending
  <2> QED BY <2>1, FS_EmptySet, CurrentRowsAssumption DEF Init, Room
<1>3. HasVersion /\ HasRow /\ FlagAgrees
  BY DEF Init, HasVersion, HasRow, FlagAgrees
<1>4. OneEach
  <2>1. [r \in current |-> CHOOSE s \in Session : TRUE] \in [current -> Session]
    BY DEF Init
  <2> QED BY <2>1 DEF Init, OneEach, Owner
<1> QED BY <1>1, <1>2, <1>3, <1>4 DEF Inv

LEMMA RoomStep ==
  ASSUME Inv, [Next]_vars
  PROVE  Room'
<1> USE DEF Inv, TypeOK
<1>1. CASE UNCHANGED vars
  BY <1>1 DEF Room, Pending, vars
<1>2. ASSUME NEW s \in Session, NEW v \in Version, Begin(s, v)
      PROVE  Room'
  <2>1. Pending' = Pending \cup {s} /\ s \notin Pending /\ inserted' = inserted
    BY <1>2 DEF Begin, Goto, Pending, stored
  <2>2. Cardinality(Pending') = Cardinality(Pending) + 1
    BY <2>1, PendingFinite, FS_AddElement
  <2>3. IsFiniteSet(Active) /\ Pending \subseteq Active
    BY CurrentRowsAssumption, FS_Subset DEF Active, Pending
  <2>4. Cardinality(Pending) <= Cardinality(Active) /\ Cardinality(Active) \in Nat
    BY <2>3, FS_Subset, FS_CardinalityType
  <2>5. Cardinality(Active) + inserted < MaxRows
    BY <1>2 DEF Begin
  <2> QED BY <2>1, <2>2, <2>4, <2>5, PendingFinite, CurrentRowsAssumption DEF Room
<1>3. ASSUME NEW s \in Session, MarkOld(s) \/ MarkRow(s)
      PROVE  Room'
  <2>1. Pending' = Pending /\ inserted' = inserted
    BY <1>3 DEF MarkOld, MarkRow, Goto, Pending, stored
  <2> QED BY <2>1 DEF Room
<1>4. ASSUME NEW s \in Session, Insert(s), Goto(s, "inserted")
      PROVE  Room'
  <2>1. inserted' \in {inserted, inserted + 1}
    BY <1>4 DEF Insert, Abort, stored
  <2>2. Pending' = Pending \ {s} /\ s \in Pending
    BY <1>4 DEF Insert, Goto, Pending
  <2>3. Cardinality(Pending') = Cardinality(Pending) - 1
    BY <2>2, PendingFinite, FS_RemoveElement
  <2> QED BY <2>1, <2>3, PendingFinite, CurrentRowsAssumption DEF Room
<1>5. ASSUME NEW s \in Session, MarkDone(s) \/ Ends(s)
      PROVE  Room'
  <2>1. inserted' = inserted
    BY <1>5 DEF MarkDone, Ends, Abort, Commits, stored
  <2>2. Pending' = Pending \ {s}
    BY <1>5 DEF MarkDone, Ends, Abort, Commits, Over, Goto, Pending
  <2>3. Cardinality(Pending') \in Nat /\ Cardinality(Pending') <= Cardinality(Pending)
    BY <2>2, PendingFinite, FS_Subset, FS_CardinalityType
  <2> QED BY <2>1, <2>3, PendingFinite, CurrentRowsAssumption DEF Room
<1> QED BY <1>1, <1>2, <1>3, <1>4, <1>5, Steps DEF Works

LEMMA TypesStep ==
  ASSUME Inv, [Next]_vars
  PROVE  TypeOK'
<1> USE DEF Inv, TypeOK
<1>1. CASE UNCHANGED vars
  BY <1>1 DEF vars
<1>2. ASSUME NEW s \in Session, NEW v \in Version, Begin(s, v)
      PROVE  TypeOK'
  BY <1>2 DEF Begin, Goto, stored
<1>3. ASSUME NEW s \in Session, MarkOld(s)
      PROVE  TypeOK'
  <2>1. PICK order \in SetToSeqs(current) : todo' = [todo EXCEPT ![s] = order]
    BY <1>3 DEF MarkOld
  <2>2. order \in Seq(Row)
    <3>1. IsFiniteSet(current) /\ current \subseteq Row
      BY CurrentIsFinite
    <3> HIDE DEF Inv, TypeOK, Replaces, Left
    <3> QED BY <2>1, <3>1, OrderIsComplete
  <2> QED BY <1>3, <2>1, <2>2 DEF MarkOld, Goto, stored
<1>4. ASSUME NEW s \in Session, MarkRow(s)
      PROVE  TypeOK'
  <2>1. Tail(todo[s]) \in Seq(Row) /\ Head(todo[s]) \in Row
    BY <1>4, TailLeaves DEF MarkRow
  <2> QED BY <1>4, <2>1 DEF MarkRow, stored
<1>5. ASSUME NEW s \in Session, Insert(s), Goto(s, "inserted")
      PROVE  TypeOK'
  <2>1. /\ pc[s] = "marking" /\ pc'[s] = "inserted"
        /\ inserted' = inserted + 1
        /\ new' = [new EXCEPT ![s] = {[id |-> inserted', version |-> version[s]]}]
        /\ UNCHANGED <<table, current, completed, version, todo, marked>>
    BY <1>5 DEF Insert, Goto, Abort, Over
  <2>2. s \in Pending
    BY <2>1 DEF Pending
  <2>3. Cardinality(Pending) # 0
    BY <2>2, PendingFinite, FS_EmptySet
  <2>4. inserted' \in 1 .. MaxRows
    BY <2>1, <2>3, PendingFinite, CurrentRowsAssumption DEF Room
  <2>5. version[s] \in Version
    BY <2>1 DEF HasVersion
  <2>6. [id |-> inserted', version |-> version[s]] \in Row
    BY <2>4, <2>5 DEF Row
  <2> QED BY <1>5, <2>1, <2>4, <2>6 DEF Goto
<1>6. ASSUME NEW s \in Session, MarkDone(s)
      PROVE  TypeOK'
  BY <1>6 DEF MarkDone, Goto, stored
<1>7. ASSUME NEW s \in Session, Ends(s)
      PROVE  TypeOK'
  <2>1. <<>> \in Seq(Row)
    OBVIOUS
  <2>2. current' \subseteq Row /\ completed' \in BOOLEAN /\ inserted' = inserted /\ table' = table
    BY <1>7 DEF Ends, Commits, Abort, stored
  <2> QED BY <1>7, <2>1, <2>2 DEF Ends, Commits, Abort, Over, Goto
<1> QED BY <1>1, <1>2, <1>3, <1>4, <1>5, <1>6, <1>7, Steps DEF Works

-----------------------------------------------------------------------------
(* What a transaction that ends has done *)

LEMMA HasRowStep ==
  ASSUME Inv, [Next]_vars
  PROVE  HasRow'
<1> USE DEF Inv, TypeOK, HasRow
<1>1. CASE UNCHANGED vars
  BY <1>1 DEF vars
<1>2. ASSUME NEW s \in Session, NEW v \in Version, Begin(s, v)
      PROVE  HasRow'
  BY <1>2 DEF Begin, Goto
<1>3. ASSUME NEW s \in Session, MarkOld(s)
      PROVE  HasRow'
  BY <1>3 DEF MarkOld, Goto
<1>4. ASSUME NEW s \in Session, MarkRow(s)
      PROVE  HasRow'
  BY <1>4 DEF MarkRow
<1>5. ASSUME NEW s \in Session, Insert(s), Goto(s, "inserted")
      PROVE  HasRow'
  <2>1. /\ todo[s] = <<>>
        /\ new' = [new EXCEPT ![s] = {[id |-> inserted', version |-> version[s]]}]
        /\ UNCHANGED <<table, current, completed, version, todo, marked>>
    BY <1>5 DEF Insert, Goto, Abort, Over
  <2>2. new'[s] = {[id |-> inserted', version |-> version[s]]} /\ new'[s] \subseteq Row
    BY <2>1, TypesStep
  <2> QED BY <1>5, <2>1, <2>2 DEF Goto
<1>6. ASSUME NEW s \in Session, MarkDone(s)
      PROVE  HasRow'
  BY <1>6 DEF MarkDone, Goto
<1>7. ASSUME NEW s \in Session, Ends(s)
      PROVE  HasRow'
  BY <1>7 DEF Ends, Commits, Abort, Over, Goto
<1> QED BY <1>1, <1>2, <1>3, <1>4, <1>5, <1>6, <1>7, Steps DEF Works

\* Only a COMMIT changes the rows, and it has one to put in.
LEMMA CommitsPutARow ==
  ASSUME Inv, [Next]_vars
  PROVE  \/ UNCHANGED <<table, current, completed>>
         \/ \E s \in Session :
              /\ Committing(s) /\ Commits(s)
              /\ pc[s] \in {"inserted", "done"} /\ new[s] # {}
<1>1. ASSUME NEW s \in Session, Committing(s)
      PROVE  pc[s] \in {"inserted", "done"} /\ new[s] # {}
  BY <1>1 DEF Committing, Inv, HasRow
<1>2. ASSUME NEW s \in Session, Insert(s)
      PROVE  UNCHANGED <<table, current, completed>>
  BY <1>2 DEF Insert, Abort, stored
<1> QED BY <1>1, <1>2, Steps
        DEF Works, Ends, Begin, MarkOld, MarkRow, MarkDone, Abort, stored, vars

LEMMA FlagStep ==
  ASSUME Inv, [Next]_vars
  PROVE  FlagAgrees'
<1>1. CASE UNCHANGED <<table, current, completed>>
  BY <1>1 DEF Inv, FlagAgrees
<1>2. ASSUME NEW s \in Session, Commits(s), new[s] # {}
      PROVE  FlagAgrees'
  BY <1>2 DEF Commits, FlagAgrees
<1> QED BY <1>1, <1>2, CommitsPutARow

LEMMA HasVersionStep ==
  ASSUME Inv, [Next]_vars
  PROVE  HasVersion'
BY Steps DEF Inv, TypeOK, HasVersion, Works, Ends, Begin, MarkOld, MarkRow, MarkDone, Insert,
             Abort, Commits, Over, Goto, stored, vars

-----------------------------------------------------------------------------
(* Each row its owner *)

LEMMA OwnersStep ==
  ASSUME Inv, [Next]_vars
  PROVE  OneEach'
<1>0. PICK f \in [current -> Session] : Owner(f)
  BY DEF Inv, OneEach
<1>1. ASSUME current' = current, \A r \in current : Replaces(f[r], r)'
      PROVE  OneEach'
  <2>1. Owner(f)'
    BY <1>0, <1>1 DEF Owner
  <2> QED BY <1>1, <2>1 DEF OneEach
<1> USE DEF Inv, TypeOK, Replaces, Left
<1>2. CASE UNCHANGED vars
  BY <1>0, <1>1, <1>2 DEF vars, Owner
<1>3. ASSUME NEW s \in Session, NEW v \in Version, Begin(s, v)
      PROVE  OneEach'
  BY <1>0, <1>1, <1>3 DEF Begin, Goto, stored, Owner
<1>4. ASSUME NEW s \in Session, MarkOld(s)
      PROVE  OneEach'
  <2>1. PICK order \in SetToSeqs(current) : todo' = [todo EXCEPT ![s] = order]
    BY <1>4 DEF MarkOld
  <2>2. \A r \in current : \E k \in DOMAIN order : order[k] = r
    <3>1. IsFiniteSet(current) /\ current \subseteq Row
      BY CurrentIsFinite
    <3> HIDE DEF Inv, TypeOK, Replaces, Left
    <3> QED BY <2>1, <3>1, OrderIsComplete
  <2>3. current' = current /\ Goto(s, "marking") /\ UNCHANGED marked
    BY <1>4 DEF MarkOld, stored
  <2>4. ASSUME NEW r \in current
        PROVE  Replaces(f[r], r)'
    <3>1. CASE f[r] = s
      BY <2>1, <2>2, <3>1
    <3>2. CASE f[r] # s
      BY <1>0, <2>1, <2>3, <3>2 DEF Goto, Owner
    <3> QED BY <3>1, <3>2
  <2> QED BY <1>1, <2>3, <2>4
<1>5. ASSUME NEW s \in Session, MarkRow(s)
      PROVE  OneEach'
  <2>1. /\ todo[s] # <<>> /\ todo' = [todo EXCEPT ![s] = Tail(@)]
        /\ marked' = [marked EXCEPT ![s] = @ \cup ({Head(todo[s])} \cap current)]
        /\ UNCHANGED <<current, pc>>
    BY <1>5 DEF MarkRow, stored
  <2>2. ASSUME NEW r \in current
        PROVE  Replaces(f[r], r)'
    <3>1. CASE f[r] # s
      BY <1>0, <2>1, <3>1 DEF Owner
    <3>2. CASE f[r] = s /\ pc[s] \notin {"idle", "begun"}
      <4>1. r \in marked[s] \/ \E k \in DOMAIN todo[s] : todo[s][k] = r
        BY <1>0, <3>2 DEF Owner
      <4>2. CASE r \in marked[s]
        BY <4>2, <2>1, <3>2
      <4>3. ASSUME NEW k \in DOMAIN todo[s], todo[s][k] = r
            PROVE  r \in marked'[s] \/ \E j \in DOMAIN todo'[s] : todo'[s][j] = r
        <5>1. todo[s] \in Seq(Row) /\ todo[s] # <<>>
          BY <2>1
        <5>2. r = Head(todo[s]) \/ \E j \in DOMAIN Tail(todo[s]) : Tail(todo[s])[j] = r
          BY <4>3, <5>1, TailLeaves
        <5>3. todo'[s] = Tail(todo[s]) /\ marked'[s] = marked[s] \cup ({Head(todo[s])} \cap current)
          BY <2>1
        <5> QED BY <5>2, <5>3
      <4> QED BY <4>1, <4>2, <4>3, <3>2
    <3>3. CASE f[r] = s /\ pc[s] \in {"idle", "begun"}
      BY <2>1, <3>3
    <3> QED BY <3>1, <3>2, <3>3
  <2> QED BY <1>1, <2>1, <2>2
<1>6. ASSUME NEW s \in Session, \/ Insert(s) /\ Goto(s, "inserted")
                                \/ MarkDone(s)
      PROVE  OneEach'
  <2>1. /\ pc[s] \in {"marking", "inserted"} /\ Goto(s, pc'[s])
        /\ UNCHANGED <<current, todo, marked>>
    BY <1>6 DEF Insert, MarkDone, Goto, Abort, Over, stored
  <2> QED BY <1>0, <1>1, <2>1 DEF Goto, Owner
<1>7. ASSUME NEW s \in Session, Abort(s)
      PROVE  OneEach'
  BY <1>0, <1>1, <1>7 DEF Abort, Over, Goto, stored, Owner
<1>8. ASSUME NEW s \in Session, Committing(s), Commits(s)
      PROVE  OneEach'
  <2>1. PICK own \in Row : new[s] = {own}
    BY <1>8 DEF Committing, HasRow
  <2>2. /\ current' = (current \ marked[s]) \cup {own}
        /\ pc' = [pc EXCEPT ![s] = "idle"]
        /\ todo' = [todo EXCEPT ![s] = <<>>] /\ marked' = [marked EXCEPT ![s] = {}]
    BY <1>8, <2>1 DEF Commits, Over, Goto
  <2>3. PICK g \in [current' -> Session] : \A r \in current' : g[r] = IF r = own THEN s ELSE f[r]
    <3>1. [r \in current' |-> IF r = own THEN s ELSE f[r]] \in [current' -> Session]
      BY <2>2
    <3> QED BY <3>1
  <2>4. ASSUME NEW r \in current', r # own
        PROVE  r \in current /\ f[r] # s
    <3>1. r \in current /\ r \notin marked[s]
      BY <2>2, <2>4
    <3>2. pc[s] \notin {"idle", "begun"} /\ todo[s] = <<>>
      BY <1>8 DEF Committing, HasRow
    <3> QED BY <1>0, <3>1, <3>2 DEF Owner
  <2>5. \A q, r \in current' : g[q] = g[r] => q = r
    BY <1>0, <2>3, <2>4 DEF Owner
  <2>6. ASSUME NEW r \in current'
        PROVE  Replaces(g[r], r)'
    <3>1. CASE r = own
      BY <2>2, <2>3, <3>1
    <3>2. CASE r # own
      <4>1. g[r] = f[r] /\ f[r] \in Session \ {s} /\ Replaces(f[r], r)
        BY <1>0, <2>3, <2>4, <3>2 DEF Owner
      <4> QED BY <2>2, <4>1
    <3> QED BY <3>1, <3>2
  <2> QED BY <2>3, <2>5, <2>6 DEF OneEach, Owner
<1> QED BY <1>2, <1>3, <1>4, <1>5, <1>6, <1>7, <1>8, Steps DEF Works, Ends

LEMMA Inductive == Inv /\ [Next]_vars => Inv'
BY TypesStep, RoomStep, HasVersionStep, HasRowStep, FlagStep, OwnersStep DEF Inv

LEMMA Invariant == Spec => []Inv
<1> QED BY Start, Inductive, PTL DEF Spec

-----------------------------------------------------------------------------
(* The results *)

\* All variables keep their types; a session outside a transaction has no row
\* marked or inserted.
THEOREM TypeCorrect == Spec => []TypeOK
<1>1. Inv => TypeOK
  BY DEF Inv
<1> QED BY <1>1, Invariant, PTL

\* However many submitQuestionnaire or persistAlgorithmRun transactions overlap,
\* they leave no more current rows than there are sessions.
THEOREM NoMoreThanSessions == Spec => []CurrentBounded
<1>1. Inv => CurrentBounded
  BY CurrentIsFinite DEF Inv, CurrentBounded
<1> QED BY <1>1, Invariant, PTL

\* A reader always finds a current row once there has been one, and the
\* completed flag of a user is set exactly then.
THEOREM ReadersFindARow == Spec => AlwaysOneToRead
<1>1. ASSUME Inv, [Next]_vars
      PROVE  /\ current # {} => current' # {}
             /\ table = "questionnaire_submissions" => (completed' <=> current' # {})
  <2>1. CASE UNCHANGED <<table, current, completed>>
    BY <1>1, <2>1 DEF Inv, FlagAgrees
  <2>2. ASSUME NEW s \in Session, Commits(s), new[s] # {}
        PROVE  current' # {} /\ (table = "questionnaire_submissions" => completed')
    BY <2>2 DEF Commits
  <2> QED BY <1>1, <2>1, <2>2, CommitsPutARow DEF Inv, TypeOK, Commits
<1>2. Inv /\ [Next]_vars =>
        [/\ current # {} => current' # {}
         /\ table = "questionnaire_submissions" => (completed' <=> current' # {})]_vars
  BY <1>1
<1> QED BY <1>2, Invariant, PTL DEF Spec, AlwaysOneToRead
=============================================================================
