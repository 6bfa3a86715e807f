---------------------------- MODULE CurrentRows ----------------------------
(***************************************************************************)
(* DBManager::submitQuestionnaire and persistAlgorithmRun                  *)
(* (server/db_manager.cpp): a transaction that marks the current rows as   *)
(* old and inserts a new current one, for one user, or for one event and   *)
(* algorithm, in several sessions at once.                                 *)
(*                                                                         *)
(* Each SQL statement is at least one action.  PostgreSQL runs the         *)
(* transactions READ COMMITTED: the marking UPDATE visits the rows that    *)
(* were current in its snapshot, waits for the transaction that has one of *)
(* them locked, and then skips the row if it is not current any more.      *)
(***************************************************************************)
EXTENDS Integers, Sequences, FiniteSets, SequencesExt

CONSTANTS Session,
          Version,  \* values of question_version
          MaxRows   \* bound: rows inserted in a behaviour

ASSUME CurrentRowsAssumption == /\ IsFiniteSet(Session)
                                /\ Version \subseteq Nat \ {0}
                                /\ MaxRows \in Nat

Table == {"questionnaire_submissions", "algorithm_runs"}
NoVersion == 0
Row == [id : 1 .. MaxRows, version : Version]

VARIABLES
  table,      \* the table, and with it the method, of this behaviour
  current,    \* its committed rows with is_current
  completed,  \* users.has_completed_questionnaire
  inserted,   \* number of rows inserted so far
  pc,
  version,    \* the argument of the call a session is in
  todo,       \* the rows its UPDATE has still to visit
  marked,     \* those it has updated (and locked)
  new         \* the row it has inserted, as a set

vars == <<table, current, completed, inserted, pc, version, todo, marked, new>>
stored == <<table, current, completed, inserted>>

Goto(s, l) == pc' = [pc EXCEPT ![s] = l]
Active == {s \in Session : pc[s] # "idle"}

Init == /\ table \in Table
        /\ current = {} /\ completed = FALSE /\ inserted = 0
        /\ pc = [s \in Session |-> "idle"]
        /\ version = [s \in Session |-> NoVersion]
        /\ todo = [s \in Session |-> <<>>]
        /\ marked = [s \in Session |-> {}]
        /\ new = [s \in Session |-> {}]

\* The transaction is over, and its locks are free.
Over(s) == /\ Goto(s, "idle")
           /\ todo' = [todo EXCEPT ![s] = <<>>]
           /\ marked' = [marked EXCEPT ![s] = {}]
           /\ new' = [new EXCEPT ![s] = {}]
           /\ version' = [version EXCEPT ![s] = NoVersion]

\* ROLLBACK, or the end of a transaction whose connection is gone.
Abort(s) == Over(s) /\ UNCHANGED stored

-----------------------------------------------------------------------------
(* The transaction *)

Begin(s, v) == /\ pc[s] = "idle"
               /\ Cardinality(Active) + inserted < MaxRows
               /\ Goto(s, "begun")
               /\ version' = [version EXCEPT ![s] = v]
               /\ UNCHANGED <<stored, todo, marked, new>>

\* The UPDATE takes its snapshot ...
MarkOld(s) == /\ pc[s] = "begun"
              /\ Goto(s, "marking")
              /\ \E order \in SetToSeqs(current) : todo' = [todo EXCEPT ![s] = order]
              /\ UNCHANGED <<stored, version, marked, new>>

\* Other transactions that have updated one of these rows.
Lockers(s, rows) == {t \in Session \ {s} : marked[t] \cap rows # {}}

\* Mutant: the UPDATE is committed on its own (BEGIN is missing).
MarkRow_Commits(s) == /\ pc[s] = "marking" /\ todo[s] # <<>>
                      /\ todo' = [todo EXCEPT ![s] = Tail(@)]
                      /\ current' = current \ {Head(todo[s])}
                      /\ UNCHANGED <<table, completed, inserted, pc, version, marked, new>>

\* ... and visits the rows one by one.
MarkRow(s) == /\ pc[s] = "marking" /\ todo[s] # <<>>
              /\ Lockers(s, {Head(todo[s])}) = {}
              /\ todo' = [todo EXCEPT ![s] = Tail(@)]
              /\ marked' = [marked EXCEPT ![s] = @ \cup ({Head(todo[s])} \cap current)]
              /\ UNCHANGED <<stored, pc, version, new>>

\* uq_questionnaire_current allows one current row per version; for
\* algorithm_runs there is no such index.
Duplicates(s) == {r \in current \ marked[s] : /\ table = "questionnaire_submissions"
                                              /\ r.version = version[s]}

\* An INSERT waits for the transactions whose end decides if it is a duplicate.
Deciders(s) == Lockers(s, Duplicates(s)) \cup
               {t \in Session \ {s} : /\ table = "questionnaire_submissions"
                                      /\ \E r \in new[t] : r.version = version[s]}

\* Mutant: the failed INSERT returns without ROLLBACK.
Insert_NoRollback(s) ==
  /\ pc[s] = "marking" /\ todo[s] = <<>>
  /\ Deciders(s) = {}
  /\ \/ /\ Duplicates(s) # {}
        /\ Goto(s, "idle")
        /\ UNCHANGED <<inserted, new>>
     \/ /\ Duplicates(s) = {}
        /\ inserted' = inserted + 1
        /\ new' = [new EXCEPT ![s] = {[id |-> inserted', version |-> version[s]]}]
        /\ Goto(s, "inserted")
  /\ UNCHANGED <<table, current, completed, version, todo, marked>>

Insert(s) == /\ pc[s] = "marking" /\ todo[s] = <<>>
             /\ Deciders(s) = {}
             /\ \/ Duplicates(s) # {} /\ Abort(s)
                \/ /\ Duplicates(s) = {}
                   /\ inserted' = inserted + 1
                   /\ new' = [new EXCEPT ![s] = {[id |-> inserted', version |-> version[s]]}]
                   /\ Goto(s, "inserted")
                   /\ UNCHANGED <<table, current, completed, version, todo, marked>>

\* submitQuestionnaire's UPDATE of users: one transaction at a time has the
\* user's row.
UserLockers(s) == {t \in Session \ {s} : pc[t] = "done"}
MarkDone(s) == /\ pc[s] = "inserted" /\ table = "questionnaire_submissions"
               /\ UserLockers(s) = {}
               /\ Goto(s, "done")
               /\ UNCHANGED <<stored, version, todo, marked, new>>

\* Mutant: the old rows stay current.
Commits_KeepsOld(s) == /\ current' = current \cup new[s]
                       /\ completed' = (completed \/ table = "questionnaire_submissions")
                       /\ Over(s)
                       /\ UNCHANGED <<table, inserted>>

Commits(s) == /\ current' = (current \ marked[s]) \cup new[s]
              /\ completed' = (completed \/ table = "questionnaire_submissions")
              /\ Over(s)
              /\ UNCHANGED <<table, inserted>>

Committing(s) == pc[s] = IF table = "questionnaire_submissions" THEN "done" ELSE "inserted"
Commit(s) == Committing(s) /\ Commits(s)

-----------------------------------------------------------------------------
(* A statement fails or the connection breaks; when COMMIT was on its way  *)
(* nobody knows how the transaction ended.                                 *)
Lost(s) == \/ pc[s] # "idle" /\ Abort(s)
           \/ Committing(s) /\ Commits(s)

\* The transactions s waits for.
WaitsFor(s) ==
  CASE pc[s] = "marking" /\ todo[s] # <<>> -> Lockers(s, {Head(todo[s])})
    [] pc[s] = "marking" /\ todo[s] = <<>> -> Deciders(s)
    [] pc[s] = "inserted" /\ table = "questionnaire_submissions" -> UserLockers(s)
    [] OTHER -> {}

\* PostgreSQL breaks a cycle of waits: the statement of one of its
\* transactions fails.
BreakDeadlock(s) == /\ \E S \in SUBSET Session : /\ s \in S
                                                 /\ \A t \in S : WaitsFor(t) \cap S # {}
                    /\ Abort(s)

Run(s) == \/ MarkOld(s) \/ MarkRow(s) \/ Insert(s) \/ MarkDone(s) \/ Commit(s)
          \/ BreakDeadlock(s)

Next == \E s \in Session : \/ \E v \in Version : Begin(s, v)
                           \/ Run(s)
                           \/ Lost(s)

Spec == Init /\ [][Next]_vars

\* The threads run, and those that wait for a row get it in the end: the
\* server queues them.
Fairness == \A s \in Session : SF_vars(Run(s))

FairSpec == Spec /\ Fairness

-----------------------------------------------------------------------------
(* Properties *)

TypeOK == /\ table \in Table
          /\ current \subseteq Row
          /\ completed \in BOOLEAN
          /\ inserted \in 0 .. MaxRows
          /\ pc \in [Session -> {"idle", "begun", "marking", "inserted", "done"}]
          /\ version \in [Session -> Version \cup {NoVersion}]
          /\ todo \in [Session -> Seq(Row)]
          /\ marked \in [Session -> SUBSET Row]
          /\ new \in [Session -> SUBSET Row]
          /\ \A s \in Session : pc[s] \in {"idle", "begun"} => marked[s] = {} /\ new[s] = {}

\* Readers of the current row never find none, however transactions overlap
\* and wherever they fail: once there is a current row there always is one,
\* and a user has the completed flag exactly when there is one.
AlwaysOneToRead ==
  [][/\ current # {} => current' # {}
     /\ table = "questionnaire_submissions" => (completed' <=> current' # {})]_vars

\* The marking UPDATE misses rows that were committed after it began, so
\* several rows can be current; but each session's next transaction marks the
\* row of its last one: there are no more than sessions.
CurrentBounded == Cardinality(current) <= Cardinality(Session)

\* Every call returns, also when the transactions wait for each other in a cycle.
CallsReturn == \A s \in Session : (pc[s] # "idle") ~> (pc[s] = "idle")

=============================================================================
