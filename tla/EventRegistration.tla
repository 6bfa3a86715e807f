------------------------- MODULE EventRegistration -------------------------
(***************************************************************************)
(* DBManager::registerForEvent (server/db_manager.cpp) on one event: what  *)
(* concurrent registrations do to its capacity.                            *)
(*                                                                         *)
(* A session is a pooled connection with the request that uses it.  Each   *)
(* SQL statement is one action.  PostgreSQL runs the transaction READ      *)
(* COMMITTED: a statement counts rows in the snapshot taken when it        *)
(* starts, also if it then sleeps on the row lock of FOR UPDATE; the       *)
(* locked row itself (its status) is read in its latest version.           *)
(***************************************************************************)
EXTENDS Integers, FiniteSets

CONSTANTS Session, User,
          MaxParticipants,  \* events.max_participants
          NoSession

ASSUME EventAssumption == /\ IsFiniteSet(Session) /\ Session # {}
                          /\ NoSession \notin Session
                          /\ MaxParticipants \in Nat \ {0}

VARIABLES
  status,        \* events.status; "absent" before createEvent
  participants,  \* committed rows of event_participants
  live,          \* users with deleted_at IS NULL
  completed,     \* users with has_completed_questionnaire
  holder,        \* the transaction that holds the event's row lock
  pc, user,      \* each session's progress and argument
  snap           \* each session's COUNT(*), from its statement's snapshot

tables == <<status, participants, live, completed>>
vars == <<status, participants, live, completed, holder, pc, user, snap>>

Open == {"upcoming", "active"}
Closed == {"past", "cancelled"}

\* A session outside a call; it remembers if its last call answered "event is
\* full".  The other answers and errors are not told apart.
Answer == {"returned", "full"}
Locked == {"locked", "open", "eligible", "inserted"}
PC == Answer \cup {"begun", "blocked"} \cup Locked

Goto(s, l) == pc' = [pc EXCEPT ![s] = l]

\* The transaction has ended, and its row lock with it.
Returns(s, answer) == /\ Goto(s, answer)
                      /\ holder' = IF holder = s THEN NoSession ELSE holder
                      /\ snap' = [snap EXCEPT ![s] = 0]
                      /\ UNCHANGED user

\* ROLLBACK, or the server's end of a transaction whose client is gone.
Abort(s, answer) == Returns(s, answer) /\ UNCHANGED tables

Init == /\ status = "absent"
        /\ participants = {}
        /\ live = User
        /\ completed \in SUBSET User
        /\ holder = NoSession
        /\ pc = [s \in Session |-> "returned"]
        /\ user \in [Session -> User]
        /\ snap = [s \in Session |-> 0]

-----------------------------------------------------------------------------
(* registerForEvent *)

Begin(s, u) == /\ pc[s] \in Answer
               /\ Goto(s, "begun")
               /\ user' = [user EXCEPT ![s] = u]
               /\ UNCHANGED <<tables, holder, snap>>

\* SELECT ... COUNT(*) ... FOR UPDATE starts: it takes its snapshot ...
Select(s) == /\ pc[s] = "begun"
             /\ \/ /\ status = "absent"
                   /\ Abort(s, "returned")
                \/ /\ status # "absent"
                   /\ Goto(s, "blocked")
                   /\ snap' = [snap EXCEPT ![s] = Cardinality(participants)]
                   /\ UNCHANGED <<tables, holder, user>>

\* Mutant: the lock is not asked for (FOR UPDATE forgotten).
Lock_Free(s) == /\ pc[s] = "blocked"
                /\ Goto(s, "locked")
                /\ UNCHANGED <<tables, holder, user, snap>>

\* ... and returns when it has the event's row lock.
Lock(s) == /\ pc[s] = "blocked"
           /\ holder = NoSession
           /\ holder' = s
           /\ Goto(s, "locked")
           /\ UNCHANGED <<tables, user, snap>>

\* Mutant: the event is called full one place early.
CheckEvent_Early(s) ==
  /\ pc[s] = "locked"
  /\ \/ status \notin Open /\ Abort(s, "returned")
     \/ /\ status \in Open
        /\ \/ snap[s] + 1 >= MaxParticipants /\ Abort(s, "full")
           \/ /\ snap[s] + 1 < MaxParticipants
              /\ Goto(s, "open")
              /\ UNCHANGED <<tables, holder, user, snap>>

\* Mutant: the capacity is not looked at.
CheckEvent_NoCapacity(s) ==
  /\ pc[s] = "locked"
  /\ \/ status \notin Open /\ Abort(s, "returned")
     \/ /\ status \in Open
        /\ Goto(s, "open")
        /\ UNCHANGED <<tables, holder, user, snap>>

CheckEvent(s) ==
  /\ pc[s] = "locked"
  /\ \/ status \notin Open /\ Abort(s, "returned")
     \/ /\ status \in Open
        /\ \/ snap[s] >= MaxParticipants /\ Abort(s, "full")
           \/ /\ snap[s] < MaxParticipants
              /\ Goto(s, "open")
              /\ UNCHANGED <<tables, holder, user, snap>>

CheckUser(s) ==
  /\ pc[s] = "open"
  /\ \/ user[s] \notin live /\ Abort(s, "returned")
     \/ /\ user[s] \in live
        /\ \/ user[s] \notin completed /\ Abort(s, "returned")
           \/ /\ user[s] \in completed
              /\ Goto(s, "eligible")
              /\ UNCHANGED <<tables, holder, user, snap>>

\* Mutant: the failed INSERT returns without ROLLBACK.
Insert_NoRollback(s) ==
  /\ pc[s] = "eligible"
  /\ \/ /\ user[s] \in participants
        /\ Goto(s, "returned")
     \/ /\ user[s] \notin participants
        /\ Goto(s, "inserted")
  /\ UNCHANGED <<tables, holder, user, snap>>

\* uq_event_participant: a second row for the same user is refused.
Insert(s) ==
  /\ pc[s] = "eligible"
  /\ \/ user[s] \in participants /\ Abort(s, "returned")
     \/ /\ user[s] \notin participants
        /\ Goto(s, "inserted")
        /\ UNCHANGED <<tables, holder, user, snap>>

\* The transaction commits: its row is visible, its row lock is gone.
Commits(s) == /\ participants' = participants \cup {user[s]}
              /\ Returns(s, "returned")
              /\ UNCHANGED <<status, live, completed>>

Commit(s) == pc[s] = "inserted" /\ Commits(s)

-----------------------------------------------------------------------------
(* The connection breaks: the statement under way returns an error and the *)
(* server ends the transaction (one step here); when COMMIT was on its way *)
(* nobody knows how.                                                       *)

\* The states with a statement under way.
Waiting == {"begun", "blocked", "open", "eligible", "inserted"}

Lost(s) == \/ pc[s] \in Waiting /\ Abort(s, "returned")
           \/ pc[s] = "inserted" /\ Commits(s)

-----------------------------------------------------------------------------
(* The rest of the application *)

\* createEvent.
CreateEvent == /\ status = "absent"
               /\ status' = "upcoming"
               /\ UNCHANGED <<participants, live, completed, holder, pc, user, snap>>

\* An organiser's UPDATE of events.status: it needs the row lock itself.
SetStatus(st) == /\ status # "absent"
                 /\ holder = NoSession
                 /\ status' = st
                 /\ UNCHANGED <<participants, live, completed, holder, pc, user, snap>>

\* deleteUser's second UPDATE.  The user's registrations stay.
DeleteUser(u) == /\ live' = live \ {u}
                 /\ UNCHANGED <<status, participants, completed, holder, pc, user, snap>>

\* submitQuestionnaire's commit; no code takes the flag back.
CompleteQuestionnaire(u) ==
  /\ completed' = completed \cup {u}
  /\ UNCHANGED <<status, participants, live, holder, pc, user, snap>>

-----------------------------------------------------------------------------
Register(s) == \/ Select(s) \/ Lock(s) \/ CheckEvent(s) \/ CheckUser(s)
               \/ Insert(s) \/ Commit(s)

Next == \/ \E s \in Session : \/ \E u \in User : Begin(s, u)
                              \/ Register(s)
                              \/ Lost(s)
        \/ CreateEvent
        \/ \E st \in Open \cup Closed : SetStatus(st)
        \/ \E u \in User : DeleteUser(u) \/ CompleteQuestionnaire(u)

Spec == Init /\ [][Next]_vars

\* A handler's thread keeps running, and PostgreSQL queues the waiters of a
\* row lock: one that is free again and again reaches each of them.
Fairness == \A s \in Session : WF_vars(Register(s)) /\ SF_vars(Lock(s))

FairSpec == Spec /\ Fairness

-----------------------------------------------------------------------------
(* Properties *)

TypeOK == /\ status \in {"absent"} \cup Open \cup Closed
          /\ participants \in SUBSET User /\ IsFiniteSet(participants)
          /\ live \in SUBSET User
          /\ completed \in SUBSET User
          /\ holder \in Session \cup {NoSession}
          /\ pc \in [Session -> PC]
          /\ user \in [Session -> User]
          /\ snap \in [Session -> Nat]

\* What schema.sql and db_manager.h say FOR UPDATE achieves: an event never
\* has more participants than places.
CapacityRespected == Cardinality(participants) <= MaxParticipants

\* The sessions whose count lets them insert a row still.
Pending == {s \in Session : pc[s] \in {"blocked"} \cup Locked /\ snap[s] < MaxParticipants}

\* What it does achieve: only transactions that counted before the last place
\* went can exceed the capacity, so the excess is less than the number of
\* connections (and none when registrations do not overlap).
OverbookingBounded ==
  Cardinality(participants) <= MaxParticipants + Cardinality(Session) - 1

\* The row lock keeps one registration at a time between the read of the
\* event's status and the end of its transaction, whichever way that ends.
LockProtects == \A s \in Session : pc[s] \in Locked <=> holder = s

\* Nobody is registered for an event that is past or cancelled by the
\* time the row becomes visible, although the status was read long before.
ClosedEventsDoNotGrow == [][status \notin Open => participants' = participants]_vars

\* "event is full" is never told while there is a place left: a stale count
\* errs on the other side only.
FullMeansFull ==
  [][\A s \in Session : pc[s] # "full" /\ pc'[s] = "full" =>
       Cardinality(participants) >= MaxParticipants]_vars

\* Every registration gets its answer.
RegistrationReturns == \A s \in Session : (pc[s] \notin Answer) ~> (pc[s] \in Answer)
=============================================================================
