---------------------- MODULE EventRegistrationProofs ----------------------
(***************************************************************************)
(* EventRegistration for any finite set of sessions, any users and any     *)
(* capacity: what FOR UPDATE protects, and how far an event can overbook.  *)
(***************************************************************************)
EXTENDS EventRegistration, FiniteSetTheorems, TLAPS

\* Every state is well typed; in particular the table stays finite.
THEOREM TypeCorrect == Spec => []TypeOK
<1>1. Init => TypeOK
  BY FS_EmptySet, EventAssumption DEF Init, TypeOK, PC, Answer
<1>2. TypeOK /\ [Next]_vars => TypeOK'
  <2> SUFFICES ASSUME TypeOK, [Next]_vars PROVE TypeOK'
    OBVIOUS
  <2> USE DEF TypeOK, PC, Answer, Locked, Goto, tables
  <2>1. ASSUME NEW s \in Session, NEW a \in Answer, Abort(s, a) PROVE TypeOK'
    BY <2>1 DEF Abort, Returns
  <2>2. ASSUME NEW s \in Session, Commits(s) PROVE TypeOK'
    <3>1. IsFiniteSet(participants \cup {user[s]}) /\ user[s] \in User
      BY FS_AddElement
    <3> QED BY <2>2, <3>1 DEF Commits, Returns
  <2>3. ASSUME NEW s \in Session, NEW u \in User, Begin(s, u) PROVE TypeOK'
    BY <2>3 DEF Begin
  <2>4. ASSUME NEW s \in Session, Select(s) PROVE TypeOK'
    <3>1. Cardinality(participants) \in Nat
      BY FS_CardinalityType
    <3> QED BY <2>1, <2>4, <3>1 DEF Select
  <2>5. ASSUME NEW s \in Session, Lock(s) PROVE TypeOK'
    BY <2>5 DEF Lock
  <2>6. ASSUME NEW s \in Session, CheckEvent(s) PROVE TypeOK'
    BY <2>1, <2>6 DEF CheckEvent
  <2>7. ASSUME NEW s \in Session, CheckUser(s) PROVE TypeOK'
    BY <2>1, <2>7 DEF CheckUser
  <2>8. ASSUME NEW s \in Session, Insert(s) PROVE TypeOK'
    BY <2>1, <2>8 DEF Insert
  <2>9. ASSUME NEW s \in Session, Commit(s) \/ Lost(s) PROVE TypeOK'
    BY <2>1, <2>2, <2>9 DEF Commit, Lost, Waiting
  <2>10. ASSUME \/ CreateEvent \/ \E st \in Open \cup Closed : SetStatus(st)
                \/ \E u \in User : DeleteUser(u) \/ CompleteQuestionnaire(u)
                \/ UNCHANGED vars
         PROVE  TypeOK'
    BY <2>10 DEF CreateEvent, SetStatus, DeleteUser, CompleteQuestionnaire, vars, Open, Closed
  <2> QED BY <2>3, <2>4, <2>5, <2>6, <2>7, <2>8, <2>9, <2>10 DEF Next, Register
<1> QED BY <1>1, <1>2, PTL DEF Spec

\* At most one registration is between its read of the event and the end of
\* its transaction, and it holds the row lock until then.
THEOREM LockHeld == Spec => []LockProtects
<1>1. Init => LockProtects
  BY EventAssumption DEF Init, LockProtects, Locked
<1>2. TypeOK /\ LockProtects /\ [Next]_vars => LockProtects'
  <2> SUFFICES ASSUME TypeOK, LockProtects, [Next]_vars PROVE LockProtects'
    OBVIOUS
  <2>0. pc \in [Session -> PC] /\ NoSession \notin Session
    BY EventAssumption DEF TypeOK
  <2> USE <2>0 DEF LockProtects, Locked, Goto
  <2>1. ASSUME NEW s \in Session, NEW a \in Answer, Abort(s, a) \/ Commits(s) PROVE LockProtects'
    BY <2>1 DEF Abort, Commits, Returns, Answer
  <2>2. ASSUME NEW s \in Session, NEW u \in User, Begin(s, u) PROVE LockProtects'
    BY <2>2 DEF Begin, Answer
  <2>3. ASSUME NEW s \in Session, Select(s) PROVE LockProtects'
    BY <2>1, <2>3 DEF Select, Answer
  <2>4. ASSUME NEW s \in Session, Lock(s) PROVE LockProtects'
    BY <2>4 DEF Lock
  <2>5. ASSUME NEW s \in Session, CheckEvent(s) \/ CheckUser(s) \/ Insert(s) PROVE LockProtects'
    BY <2>1, <2>5 DEF CheckEvent, CheckUser, Insert, Answer
  <2>6. ASSUME NEW s \in Session, Commit(s) \/ Lost(s) PROVE LockProtects'
    BY <2>1, <2>6 DEF Commit, Lost, Waiting, Answer
  <2>7. ASSUME \/ CreateEvent \/ \E st \in Open \cup Closed : SetStatus(st)
               \/ \E u \in User : DeleteUser(u) \/ CompleteQuestionnaire(u)
               \/ UNCHANGED vars
        PROVE  LockProtects'
    BY <2>7 DEF CreateEvent, SetStatus, DeleteUser, CompleteQuestionnaire, vars
  <2> QED BY <2>2, <2>3, <2>4, <2>5, <2>6, <2>7 DEF Next, Register
<1> QED BY <1>1, <1>2, TypeCorrect, PTL DEF Spec

-----------------------------------------------------------------------------
(* Capacity.  Once the event is full no further session can become         *)
(* pending, and each row beyond the capacity costs one pending session.    *)

Count == Cardinality(participants)

\* Passing the capacity check leaves a session pending until it ends.
CheckedArePending == \A s \in Session : pc[s] \in {"open", "eligible", "inserted"} => s \in Pending

\* OverbookingBounded, strengthened to be inductive.
PendingBound == Count >= MaxParticipants =>
                  (Count - MaxParticipants) + Cardinality(Pending) <= Cardinality(Session) - 1

BookInv == CheckedArePending /\ PendingBound

LEMMA PendingFinite ==
  ASSUME NEW S \in SUBSET Session
  PROVE  IsFiniteSet(S) /\ Cardinality(S) \in Nat /\ Cardinality(S) <= Cardinality(Session)
         /\ Cardinality(Session) \in Nat
BY EventAssumption, FS_Subset, FS_CardinalityType

\* A step that adds no row and makes no session pending keeps the bound.
LEMMA FewerPending ==
  ASSUME TypeOK, PendingBound, participants' = participants, Pending' \subseteq Pending
  PROVE  PendingBound'
<1>1. Pending \in SUBSET Session
  BY DEF Pending
<1>2. Cardinality(Pending') <= Cardinality(Pending) /\ Cardinality(Pending') \in Nat
  BY <1>1, PendingFinite, FS_Subset, FS_CardinalityType
<1>3. Cardinality(Pending) \in Nat /\ Cardinality(Session) \in Nat /\ Count \in Nat
  BY <1>1, PendingFinite, FS_CardinalityType DEF TypeOK, Count
<1>4. Count' = Count
  BY DEF Count
<1> QED BY <1>2, <1>3, <1>4, EventAssumption DEF PendingBound

\* An event exceeds its capacity by less than the number of sessions.
THEOREM Overbooking == Spec => []OverbookingBounded
<1>1. Init => BookInv
  <2> SUFFICES ASSUME Init PROVE BookInv
    OBVIOUS
  <2>1. Count = 0
    BY FS_EmptySet DEF Init, Count
  <2> QED BY <2>1, EventAssumption DEF Init, BookInv, CheckedArePending, PendingBound
<1>2. TypeOK /\ BookInv /\ [Next]_vars => BookInv'
  <2> SUFFICES ASSUME TypeOK, BookInv, [Next]_vars PROVE BookInv'
    OBVIOUS
  <2>0. /\ pc \in [Session -> PC] /\ snap \in [Session -> Nat] /\ user \in [Session -> User]
        /\ CheckedArePending /\ PendingBound /\ Pending \in SUBSET Session
        /\ MaxParticipants \in Nat /\ Count \in Nat
    BY EventAssumption, FS_CardinalityType DEF TypeOK, BookInv, Pending, Count
  <2> USE <2>0 DEF Goto, tables
  <2>1. ASSUME NEW s \in Session, NEW a \in Answer, Abort(s, a) PROVE BookInv'
    <3>1. Pending' \subseteq Pending /\ participants' = participants /\ CheckedArePending'
      BY <2>1 DEF Abort, Returns, Pending, CheckedArePending, Answer, Locked
    <3> QED BY <3>1, FewerPending DEF BookInv
  <2>2. ASSUME NEW s \in Session, pc[s] = "inserted", Commits(s) PROVE BookInv'
    <3>1. Pending' = Pending \ {s} /\ s \in Pending /\ CheckedArePending'
      BY <2>2 DEF Commits, Returns, Pending, CheckedArePending, Answer, Locked
    <3>2. /\ Cardinality(Pending') = Cardinality(Pending) - 1
          /\ Cardinality(Pending) \in Nat /\ Cardinality(Pending) <= Cardinality(Session)
          /\ Cardinality(Session) \in Nat
      BY <3>1, PendingFinite, FS_RemoveElement
    <3>3. Count' = Count \/ Count' = Count + 1
      BY <2>2, FS_AddElement DEF Commits, Returns, Count, TypeOK
    <3>4. PendingBound'
      BY <3>2, <3>3 DEF PendingBound
    <3> QED BY <3>1, <3>4 DEF BookInv
  <2>3. ASSUME NEW s \in Session, NEW u \in User, Begin(s, u) PROVE BookInv'
    <3>1. Pending' \subseteq Pending /\ participants' = participants /\ CheckedArePending'
      BY <2>3 DEF Begin, Pending, CheckedArePending, Answer, Locked
    <3> QED BY <3>1, FewerPending DEF BookInv
  <2>4. ASSUME NEW s \in Session, Select(s) PROVE BookInv'
    <3>1. CASE Abort(s, "returned")
      BY <2>1, <3>1 DEF Answer
    <3>2. CASE /\ Goto(s, "blocked") /\ snap' = [snap EXCEPT ![s] = Count]
               /\ participants' = participants
      <4>1. CheckedArePending'
        BY <3>2 DEF CheckedArePending, Pending, Locked
      <4>2. Pending' \subseteq Pending \cup {s} /\ (Count >= MaxParticipants => Pending' \subseteq Pending)
        <5>1. \A r \in Session : r # s => (r \in Pending' <=> r \in Pending)
          BY <3>2 DEF Pending
        <5>2. s \in Pending' => Count < MaxParticipants
          BY <3>2 DEF Pending
        <5>3. Pending' \subseteq Session
          BY DEF Pending
        <5> QED BY <5>1, <5>2, <5>3
      <4>3. CASE Count >= MaxParticipants
        BY <3>2, <4>1, <4>2, <4>3, FewerPending DEF BookInv
      <4>4. CASE ~(Count >= MaxParticipants)
        BY <3>2, <4>1, <4>4 DEF BookInv, PendingBound, Count
      <4> QED BY <4>3, <4>4
    <3> QED BY <2>4, <3>1, <3>2 DEF Select, Count
  <2>5. ASSUME NEW s \in Session, Lock(s) PROVE BookInv'
    <3>1. Pending' \subseteq Pending /\ participants' = participants /\ CheckedArePending'
      BY <2>5 DEF Lock, Pending, CheckedArePending, Locked
    <3> QED BY <3>1, FewerPending DEF BookInv
  <2>6. ASSUME NEW s \in Session, CheckEvent(s) PROVE BookInv'
    <3>1. CASE Abort(s, "returned") \/ Abort(s, "full")
      BY <2>1, <3>1 DEF Answer
    <3>2. CASE snap[s] < MaxParticipants /\ Goto(s, "open") /\ UNCHANGED <<participants, snap>>
      <4>1. Pending' \subseteq Pending /\ CheckedArePending'
        BY <2>6, <3>2 DEF CheckEvent, Pending, CheckedArePending, Locked
      <4> QED BY <3>2, <4>1, FewerPending DEF BookInv
    <3> QED BY <2>6, <3>1, <3>2 DEF CheckEvent
  <2>7. ASSUME NEW s \in Session, CheckUser(s) \/ Insert(s) PROVE BookInv'
    <3>1. CASE \E a \in Answer : Abort(s, a)
      BY <2>1, <3>1
    <3>2. CASE /\ \/ pc[s] = "open" /\ Goto(s, "eligible")
                  \/ pc[s] = "eligible" /\ Goto(s, "inserted")
               /\ UNCHANGED <<participants, snap>>
      <4>1. Pending' \subseteq Pending /\ CheckedArePending'
        BY <3>2 DEF Pending, CheckedArePending, Locked
      <4> QED BY <3>2, <4>1, FewerPending DEF BookInv
    <3> QED BY <2>7, <3>1, <3>2 DEF CheckUser, Insert, Answer
  <2>8. ASSUME NEW s \in Session, Commit(s) \/ Lost(s) PROVE BookInv'
    BY <2>1, <2>2, <2>8 DEF Commit, Lost, Waiting, Answer
  <2>9. ASSUME \/ CreateEvent \/ \E st \in Open \cup Closed : SetStatus(st)
               \/ \E u \in User : DeleteUser(u) \/ CompleteQuestionnaire(u)
               \/ UNCHANGED vars
        PROVE  BookInv'
    <3>1. Pending' = Pending /\ CheckedArePending' /\ participants' = participants
      BY <2>9 DEF CreateEvent, SetStatus, DeleteUser, CompleteQuestionnaire, vars, Pending, CheckedArePending
    <3> QED BY <3>1, FewerPending DEF BookInv
  <2> QED BY <2>3, <2>4, <2>5, <2>6, <2>7, <2>8, <2>9 DEF Next, Register
<1>3. TypeOK /\ BookInv => OverbookingBounded
  <2> SUFFICES ASSUME TypeOK, BookInv PROVE OverbookingBounded
    OBVIOUS
  <2>1. /\ Cardinality(Pending) \in Nat /\ Count \in Nat
        /\ Cardinality(Session) \in Nat /\ Cardinality(Session) # 0
    BY EventAssumption, PendingFinite, FS_CardinalityType, FS_EmptySet DEF Pending, TypeOK, Count
  <2> QED BY <2>1, EventAssumption DEF BookInv, PendingBound, OverbookingBounded, Count
<1> QED BY <1>1, <1>2, <1>3, TypeCorrect, PTL DEF Spec

\* No row of a past or cancelled event is ever added, although the
\* status was read several statements before the insert commits.
THEOREM ClosedEventsKeepTheirParticipants == Spec => ClosedEventsDoNotGrow
<1> DEFINE OpenWhileLocked == \A s \in Session : pc[s] \in {"open", "eligible", "inserted"} => status \in Open
<1>1. Init => OpenWhileLocked
  BY DEF Init
<1>2. TypeOK /\ LockProtects /\ OpenWhileLocked /\ [Next]_vars => OpenWhileLocked'
  <2> SUFFICES ASSUME TypeOK, LockProtects, OpenWhileLocked, [Next]_vars PROVE OpenWhileLocked'
    OBVIOUS
  <2>0. pc \in [Session -> PC] /\ NoSession \notin Session
    BY EventAssumption DEF TypeOK
  <2> USE <2>0 DEF Goto, tables
  <2>1. ASSUME NEW s \in Session, NEW a \in Answer, Abort(s, a) \/ Commits(s) PROVE OpenWhileLocked'
    BY <2>1 DEF Abort, Commits, Returns, Answer
  <2>2. ASSUME NEW s \in Session, \/ Select(s) \/ Lock(s) \/ CheckEvent(s) \/ CheckUser(s) \/ Insert(s)
                                  \/ Commit(s) \/ Lost(s) \/ \E u \in User : Begin(s, u)
        PROVE  OpenWhileLocked'
    <3>1. CASE \E a \in Answer : Abort(s, a) \/ Commits(s)
      BY <2>1, <3>1
    <3>2. CASE ~ \E a \in Answer : Abort(s, a) \/ Commits(s)
      BY <2>2, <3>2 DEF Select, Lock, CheckEvent, CheckUser, Insert, Commit, Lost, Waiting, Begin, Answer
    <3> QED BY <3>1, <3>2
  <2>3. ASSUME \/ CreateEvent \/ \E st \in Open \cup Closed : SetStatus(st) PROVE OpenWhileLocked'
    BY <2>3 DEF CreateEvent, SetStatus, LockProtects, Locked, Open
  <2>4. ASSUME \/ \E u \in User : DeleteUser(u) \/ CompleteQuestionnaire(u)
               \/ UNCHANGED vars
        PROVE  OpenWhileLocked'
    BY <2>4 DEF DeleteUser, CompleteQuestionnaire, vars
  <2> QED BY <2>2, <2>3, <2>4 DEF Next, Register
<1>3. OpenWhileLocked /\ [Next]_vars => [status \notin Open => participants' = participants]_vars
  BY DEF Next, Register, Begin, Select, Lock, CheckEvent, CheckUser, Insert, Commit, Lost, Waiting, Abort, Returns,
         Commits, CreateEvent, SetStatus, DeleteUser, CompleteQuestionnaire, tables, vars
<1> QED BY <1>1, <1>2, <1>3, TypeCorrect, LockHeld, PTL DEF Spec, ClosedEventsDoNotGrow

-----------------------------------------------------------------------------
(* Stale counts. *)

\* A session's count is of rows that are still there: registrations are never
\* removed, so it can only be too small.
CountsAreOld == \A s \in Session : snap[s] <= Count

\* registerForEvent answers "event is full" only when it is, however long ago
\* its count was taken.
THEOREM FullIsFull == Spec => FullMeansFull
<1> DEFINE A == \A s \in Session : pc[s] # "full" /\ pc'[s] = "full" => Count >= MaxParticipants
<1>1. Init => CountsAreOld
  BY FS_EmptySet DEF Init, CountsAreOld, Count
<1>2. TypeOK /\ CountsAreOld /\ [Next]_vars => CountsAreOld' /\ [A]_vars
  <2> SUFFICES ASSUME TypeOK, CountsAreOld, [Next]_vars PROVE CountsAreOld' /\ A
    OBVIOUS
  <2>0. /\ pc \in [Session -> PC] /\ snap \in [Session -> Nat] /\ MaxParticipants \in Nat
        /\ Count \in Nat /\ (participants' = participants => Count' = Count)
    BY EventAssumption, FS_CardinalityType DEF TypeOK, Count
  <2> USE <2>0 DEF Goto, tables, CountsAreOld
  <2>1. ASSUME NEW s \in Session, NEW answer \in Answer, Abort(s, answer),
               answer = "full" => snap[s] >= MaxParticipants
        PROVE  CountsAreOld' /\ A
    BY <2>1 DEF Abort, Returns, Answer
  <2>2. ASSUME NEW s \in Session, Commits(s) PROVE CountsAreOld' /\ A
    <3>1. IsFiniteSet(participants) /\ participants' = participants \cup {user[s]}
      BY <2>2 DEF Commits, TypeOK
    <3>2. Cardinality(participants') \in {Cardinality(participants), Cardinality(participants) + 1}
      BY <3>1, FS_AddElement
    <3>3. Count' \in Nat /\ Count' >= Count
      BY <3>2 DEF Count
    <3> QED BY <2>2, <3>3 DEF Commits, Returns
  <2>3. ASSUME NEW s \in Session, \/ Lock(s) \/ \E usr \in User : Begin(s, usr)
        PROVE  CountsAreOld' /\ A
    BY <2>3 DEF Lock, Begin
  <2>4. ASSUME NEW s \in Session, Select(s) PROVE CountsAreOld' /\ A
    BY <2>1, <2>4 DEF Select, Answer, Count
  <2>5. ASSUME NEW s \in Session, CheckEvent(s) PROVE CountsAreOld' /\ A
    BY <2>1, <2>5 DEF CheckEvent, Answer
  <2>6. ASSUME NEW s \in Session, CheckUser(s) \/ Insert(s) PROVE CountsAreOld' /\ A
    BY <2>1, <2>6 DEF CheckUser, Insert, Answer
  <2>7. ASSUME NEW s \in Session, Commit(s) \/ Lost(s) PROVE CountsAreOld' /\ A
    BY <2>1, <2>2, <2>7 DEF Commit, Lost, Answer
  <2>8. ASSUME \/ CreateEvent \/ \E st \in Open \cup Closed : SetStatus(st)
               \/ \E usr \in User : DeleteUser(usr) \/ CompleteQuestionnaire(usr)
               \/ UNCHANGED vars
        PROVE  CountsAreOld' /\ A
    BY <2>8 DEF CreateEvent, SetStatus, DeleteUser, CompleteQuestionnaire, vars
  <2> QED BY <2>3, <2>4, <2>5, <2>6, <2>7, <2>8 DEF Next, Register
<1> QED BY <1>1, <1>2, TypeCorrect, PTL DEF Spec, FullMeansFull, Count
=============================================================================
