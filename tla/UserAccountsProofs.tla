------------------------- MODULE UserAccountsProofs -------------------------
(* Proofs about UserAccounts, for any accounts, emails and handlers. *)
EXTENDS UserAccounts, TLAPS

\* A session that is past deleteUser's first statement, or has had its answer,
\* knows an account whose credentials are gone, or that is deleted.
Knows(s) ==
  user[s] # NoUser =>
    /\ pc[s] = "erased" => users[user[s]].email = Null /\ users[user[s]] # Absent
    /\ (pc[s] = "idle" /\ answer[s] \in {204, 404}) => users[user[s]].state = "deleted"
SessionsKnow == \A s \in Session : Knows(s)

\* The inductive invariant: CredentialsErasedFirst needs what a session that
\* is about to write deleted_at knows of the account.
Inv == TypeOK /\ CredentialsErasedFirst /\ SessionsKnow

USE UserAccountsAssumption

\* How an account may change in a step: credentials that are gone stay gone,
\* and what is deleted stays as it is.
Kept(u) == /\ users[u] # Absent => /\ users'[u] # Absent
                                   /\ users[u].email = Null => users'[u].email = Null
           /\ users[u].state = "deleted" => users'[u] = users[u]
Fine(u) == users'[u] \in Row /\ (users'[u].state = "deleted" => users'[u].email = Null)

-----------------------------------------------------------------------------
(* What each update of the table does to an account *)

\* No column changes.
LEMMA SameTable == ASSUME Inv, users' = users
                   PROVE  \A u \in Id : Kept(u) /\ Fine(u)
  BY DEF Inv, TypeOK, CredentialsErasedFirst, Kept, Fine

LEMMA RegisterTable ==
  ASSUME Inv, NEW w \in Id, NEW e \in Email, NEW f \in BOOLEAN, users[w] = Absent,
         users' = Inserted(w, e, f)
  PROVE  \A u \in Id : Kept(u) /\ Fine(u)
<1> SUFFICES ASSUME NEW u \in Id PROVE Kept(u) /\ Fine(u)
  OBVIOUS
<1>1. CASE u = w
  <2>1. users'[u] = [state |-> "active", email |-> e, profile |-> f]
    BY <1>1 DEF Inv, TypeOK, Inserted
  <2>2. users[u].state # "deleted"
    BY <1>1 DEF Absent
  <2> QED
    BY <1>1, <2>1, <2>2 DEF Kept, Fine, Row
<1>2. CASE u # w
  <2>1. users'[u] = users[u]
    BY <1>2 DEF Inv, TypeOK, Inserted
  <2> QED
    BY <2>1 DEF Inv, TypeOK, CredentialsErasedFirst, Kept, Fine
<1> QED
  BY <1>1, <1>2

LEMMA UpdatedTable ==
  ASSUME Inv, NEW w \in Id, NEW f \in BOOLEAN, Active(w), users' = Updated(w, f)
  PROVE  \A u \in Id : Kept(u) /\ Fine(u)
<1> SUFFICES ASSUME NEW u \in Id PROVE Kept(u) /\ Fine(u)
  OBVIOUS
<1>1. CASE u = w
  <2>1. users'[u] = [users[u] EXCEPT !.profile = f]
    BY <1>1 DEF Inv, TypeOK, Updated
  <2>2. /\ users'[u] \in Row
        /\ users'[u].state = "active" /\ users'[u].email = users[u].email
    BY <1>1, <2>1 DEF Inv, TypeOK, Row, Active
  <2> QED
    BY <1>1, <2>2 DEF Kept, Fine, Active, Absent
<1>2. CASE u # w
  <2>1. users'[u] = users[u]
    BY <1>2 DEF Inv, TypeOK, Updated
  <2> QED
    BY <2>1 DEF Inv, TypeOK, CredentialsErasedFirst, Kept, Fine
<1> QED
  BY <1>1, <1>2

LEMMA ErasedTable ==
  ASSUME Inv, NEW w \in Id, Active(w), users' = Erased(w)
  PROVE  /\ \A u \in Id : Kept(u) /\ Fine(u)
         /\ users'[w].email = Null /\ users'[w] # Absent
<1>1. users'[w] = [users[w] EXCEPT !.email = Null, !.profile = FALSE]
  BY DEF Inv, TypeOK, Erased
<1>2. users'[w] \in Row /\ users'[w].state = "active" /\ users'[w].email = Null
  BY <1>1 DEF Inv, TypeOK, Row, Active
<1>3. users'[w] # Absent
  BY <1>2 DEF Absent
<1>4. Kept(w) /\ Fine(w)
  BY <1>2, <1>3 DEF Kept, Fine, Active
<1>5. ASSUME NEW u \in Id, u # w PROVE Kept(u) /\ Fine(u)
  <2>1. users'[u] = users[u]
    BY <1>5 DEF Inv, TypeOK, Erased
  <2> QED
    BY <2>1 DEF Inv, TypeOK, CredentialsErasedFirst, Kept, Fine
<1> QED
  BY <1>2, <1>3, <1>4, <1>5

LEMMA SoftDeletedTable ==
  ASSUME Inv, NEW w \in Id, users[w].email = Null, users[w] # Absent, users' = SoftDeleted(w)
  PROVE  /\ \A u \in Id : Kept(u) /\ Fine(u)
         /\ users'[w].state = "deleted"
<1>1. users'[w] = [users[w] EXCEPT !.state = "deleted"]
  BY DEF Inv, TypeOK, SoftDeleted
<1>2. users'[w] \in Row /\ users'[w].state = "deleted" /\ users'[w].email = Null
  BY <1>1 DEF Inv, TypeOK, Row
<1>3. ASSUME users[w].state = "deleted" PROVE users'[w] = users[w]
  BY <1>1, <1>3 DEF Inv, TypeOK, Row
<1>4. Kept(w) /\ Fine(w)
  BY <1>2, <1>3 DEF Kept, Fine, Absent
<1>5. ASSUME NEW u \in Id, u # w PROVE Kept(u) /\ Fine(u)
  <2>1. users'[u] = users[u]
    BY <1>5 DEF Inv, TypeOK, SoftDeleted
  <2> QED
    BY <2>1 DEF Inv, TypeOK, CredentialsErasedFirst, Kept, Fine
<1> QED
  BY <1>2, <1>4, <1>5

-----------------------------------------------------------------------------
(* What each way to answer does to the sessions *)

AllFine == \A u \in Id : Kept(u) /\ Fine(u)

\* A session that does not move still knows what it knew.
LEMMA OthersKnow ==
  ASSUME Inv, AllFine, NEW t \in Session,
         pc'[t] = pc[t], user'[t] = user[t], answer'[t] = answer[t]
  PROVE  Knows(t)'
<1> SUFFICES ASSUME user[t] # NoUser
             PROVE  /\ pc[t] = "erased" => users'[user[t]].email = Null /\ users'[user[t]] # Absent
                    /\ (pc[t] = "idle" /\ answer[t] \in {204, 404}) => users'[user[t]].state = "deleted"
  BY DEF Knows, Absent
<1>1. user[t] \in Id
  BY DEF Inv, TypeOK
<1>2. Kept(user[t]) /\ Knows(t)
  BY <1>1 DEF AllFine, Inv, SessionsKnow
<1> QED
  BY <1>2 DEF Knows, Kept

\* The table's part of the invariant.
LEMMA TableFine == ASSUME Inv, AllFine, users' \in [Id -> Row]
                   PROVE  CredentialsErasedFirst'
  BY DEF AllFine, Fine, CredentialsErasedFirst

LEMMA AnswersKeep ==
  ASSUME Inv, AllFine, users' \in [Id -> Row], NEW s \in Session, NEW code \in Answer,
         Answers(s, code)
  PROVE  Inv'
<1>1. TypeOK'
  BY DEF Inv, TypeOK, Answers
<1>2. ASSUME NEW t \in Session PROVE Knows(t)'
  <2>1. CASE t = s
    <3>1. user'[t] = NoUser
      BY <2>1 DEF Inv, TypeOK, Answers
    <3> QED
      BY <3>1 DEF Knows
  <2>2. CASE t # s
    <3>1. pc'[t] = pc[t] /\ user'[t] = user[t] /\ answer'[t] = answer[t]
      BY <2>2 DEF Inv, TypeOK, Answers
    <3> QED
      BY <3>1, OthersKnow
  <2> QED
    BY <2>1, <2>2
<1> QED
  BY <1>1, <1>2, TableFine DEF Inv, SessionsKnow

LEMMA DeleteAnswersKeep ==
  ASSUME Inv, AllFine, users' \in [Id -> Row], NEW s \in Session, NEW code \in Answer,
         NEW w \in Id \cup {NoUser}, DeleteAnswers(s, w, code),
         (w # NoUser /\ code \in {204, 404}) => users'[w].state = "deleted"
  PROVE  Inv'
<1>1. TypeOK'
  BY DEF Inv, TypeOK, DeleteAnswers
<1>2. ASSUME NEW t \in Session PROVE Knows(t)'
  <2>1. CASE t = s
    <3>1. user'[t] = w /\ answer'[t] = code /\ pc'[t] = "idle"
      BY <2>1 DEF Inv, TypeOK, DeleteAnswers
    <3> QED
      BY <3>1 DEF Knows
  <2>2. CASE t # s
    <3>1. pc'[t] = pc[t] /\ user'[t] = user[t] /\ answer'[t] = answer[t]
      BY <2>2 DEF Inv, TypeOK, DeleteAnswers
    <3> QED
      BY <3>1, OthersKnow
  <2> QED
    BY <2>1, <2>2
<1> QED
  BY <1>1, <1>2, TableFine DEF Inv, SessionsKnow

-----------------------------------------------------------------------------
(* The actions *)

\* What every step gives: the invariant again, and no account undone.
Preserved == Inv' /\ \A u \in Id : Kept(u)

LEMMA QuietStep ==
  ASSUME Inv, users' = users, NEW s \in Session, NEW code \in Answer, Answers(s, code)
  PROVE  Preserved
<1>1. AllFine
  BY SameTable DEF AllFine
<1>2. users' \in [Id -> Row]
  BY DEF Inv, TypeOK
<1> QED
  BY <1>1, <1>2, AnswersKeep DEF Preserved, AllFine

LEMMA RegisterStep ==
  ASSUME Inv, NEW s \in Session, NEW e \in Email, NEW f \in BOOLEAN, registerUser(s, e, f)
  PROVE  Preserved
<1>1. CASE Answers(s, dbErrToHttp.Conflict) /\ UNCHANGED users
  BY <1>1, QuietStep DEF Answer, dbErrToHttp
<1>2. CASE \E u \in Id : /\ users[u] = Absent
                        /\ \/ Answers(s, 201) /\ users' = Inserted(u, e, f)
                           \/ Unknown(s, dbErrToHttp.InternalError, Inserted(u, e, f))
  <2>1. PICK w \in Id : /\ users[w] = Absent
                        /\ \/ Answers(s, 201) /\ users' = Inserted(w, e, f)
                           \/ Unknown(s, dbErrToHttp.InternalError, Inserted(w, e, f))
    BY <1>2
  <2>2. PICK code \in {201, 500} : Answers(s, code)
    BY <2>1 DEF Unknown, dbErrToHttp
  <2>3. CASE users' = users
    BY <2>2, <2>3, QuietStep DEF Answer
  <2>4. CASE users' = Inserted(w, e, f)
    <3>1. AllFine
      BY <2>1, <2>4, RegisterTable DEF AllFine
    <3>2. users' \in [Id -> Row]
      BY <2>4 DEF Inv, TypeOK, Row, Inserted
    <3> QED
      BY <2>2, <3>1, <3>2, AnswersKeep DEF Preserved, AllFine, Answer
  <2> QED
    BY <2>1, <2>3, <2>4 DEF Unknown
<1> QED
  BY <1>1, <1>2 DEF registerUser

LEMMA UpdateStep ==
  ASSUME Inv, NEW s \in Session, NEW w \in Id, NEW f \in BOOLEAN, updateUser(s, w, f)
  PROVE  Preserved
<1>1. PICK code \in {200, 404} : Answers(s, code)
  BY DEF updateUser, Unknown, dbErrToHttp
<1>2. CASE users' = users
  BY <1>1, <1>2, QuietStep DEF Answer
<1>3. CASE users' = Updated(w, f)
  <2>1. AllFine
    BY <1>3, UpdatedTable DEF AllFine, updateUser
  <2>2. users' \in [Id -> Row]
    BY <1>3 DEF Inv, TypeOK, Row, Updated
  <2> QED
    BY <1>1, <2>1, <2>2, AnswersKeep DEF Preserved, AllFine, Answer
<1> QED
  BY <1>2, <1>3 DEF updateUser, Unknown

LEMMA EraseStep ==
  ASSUME Inv, NEW s \in Session, NEW w \in Id, Erase(s, w)
  PROVE  Preserved
<1>1. users' \in {users, Erased(w)} /\ Active(w)
  BY DEF Erase, Deletable
<1>2. AllFine
  <2>1. CASE users' = users
    BY <2>1, SameTable DEF AllFine
  <2>2. CASE users' = Erased(w)
    BY <1>1, <2>2, ErasedTable DEF AllFine
  <2> QED
    BY <1>1, <2>1, <2>2
<1>3. users' \in [Id -> Row]
  BY <1>1 DEF Inv, TypeOK, Row, Erased
<1>4. CASE DeleteAnswers(s, w, 500)
  BY <1>2, <1>3, <1>4, DeleteAnswersKeep DEF Preserved, AllFine, Answer
<1>5. CASE /\ users' = Erased(w)
           /\ pc' = [pc EXCEPT ![s] = "erased"]
           /\ user' = [user EXCEPT ![s] = w]
           /\ UNCHANGED answer
  <2>1. TypeOK'
    BY <1>3, <1>5 DEF Inv, TypeOK
  <2>2. ASSUME NEW t \in Session PROVE Knows(t)'
    <3>1. CASE t = s
      <4>1. user'[t] = w /\ pc'[t] = "erased"
        BY <1>5, <3>1 DEF Inv, TypeOK
      <4>2. users'[w].email = Null /\ users'[w] # Absent
        BY <1>1, <1>5, ErasedTable
      <4> QED
        BY <4>1, <4>2 DEF Knows, Absent
    <3>2. CASE t # s
      <4>1. pc'[t] = pc[t] /\ user'[t] = user[t] /\ answer'[t] = answer[t]
        BY <1>5, <3>2 DEF Inv, TypeOK
      <4> QED
        BY <1>2, <4>1, OthersKnow
    <3> QED
      BY <3>1, <3>2
  <2> QED
    BY <1>2, <1>3, <2>1, <2>2, TableFine DEF Inv, SessionsKnow, Preserved, AllFine
<1> QED
  BY <1>4, <1>5 DEF Erase

LEMMA EraseNobodyStep ==
  ASSUME Inv, NEW s \in Session, NEW w \in Id, EraseNobody(s, w)
  PROVE  Preserved
<1>1. AllFine
  BY SameTable DEF AllFine, EraseNobody
<1>2. users' = users /\ users' \in [Id -> Row]
  BY DEF EraseNobody, Inv, TypeOK
<1>3. CASE users[w].state = "absent"
  <2>1. DeleteAnswers(s, NoUser, 404)
    BY <1>3 DEF EraseNobody
  <2> QED
    BY <1>1, <1>2, <2>1, DeleteAnswersKeep DEF Preserved, AllFine, Answer
<1>4. CASE users[w].state # "absent"
  <2>1. DeleteAnswers(s, w, 404)
    BY <1>4 DEF EraseNobody
  <2>2. users[w].state \in {"absent", "active", "deleted"}
    BY DEF Inv, TypeOK, Row
  <2>3. users[w].state = "deleted"
    BY <1>4, <2>2 DEF EraseNobody, Deletable, Active
  <2> QED
    BY <1>1, <1>2, <2>1, <2>3, DeleteAnswersKeep DEF Preserved, AllFine, Answer
<1> QED
  BY <1>3, <1>4

LEMMA SoftDeleteStep ==
  ASSUME Inv, NEW s \in Session, SoftDelete(s)
  PROVE  Preserved
<1>1. PICK w \in Id : w = user[s]
  BY DEF SoftDelete, Inv, TypeOK
<1>2. users[w].email = Null /\ users[w] # Absent
  BY <1>1 DEF SoftDelete, Inv, SessionsKnow, Knows
<1>3. users' \in {users, SoftDeleted(w)}
  BY <1>1 DEF SoftDelete
<1>4. AllFine
  <2>1. CASE users' = users
    BY <2>1, SameTable DEF AllFine
  <2>2. CASE users' = SoftDeleted(w)
    BY <1>2, <2>2, SoftDeletedTable DEF AllFine
  <2> QED
    BY <1>3, <2>1, <2>2
<1>5. users' \in [Id -> Row]
  BY <1>3 DEF Inv, TypeOK, Row, SoftDeleted
<1>6. CASE DeleteAnswers(s, w, 204) /\ users' = SoftDeleted(w)
  <2>1. users'[w].state = "deleted"
    BY <1>2, <1>6, SoftDeletedTable
  <2> QED
    BY <1>4, <1>5, <1>6, <2>1, DeleteAnswersKeep DEF Preserved, AllFine, Answer
<1>7. CASE DeleteAnswers(s, w, 500)
  BY <1>4, <1>5, <1>7, DeleteAnswersKeep DEF Preserved, AllFine, Answer
<1> QED
  BY <1>1, <1>6, <1>7 DEF SoftDelete

LEMMA CrashStep == ASSUME Inv, Crash
                   PROVE  Preserved
<1>1. AllFine
  BY SameTable DEF AllFine, Crash
<1>2. TypeOK'
  BY DEF Inv, TypeOK, Crash, Answer
<1>3. ASSUME NEW t \in Session PROVE user'[t] = NoUser
  BY <1>3 DEF Crash
<1>4. SessionsKnow'
  BY <1>3 DEF SessionsKnow, Knows
<1>5. users' \in [Id -> Row]
  BY DEF Crash, Inv, TypeOK
<1> QED
  BY <1>1, <1>2, <1>4, <1>5, TableFine DEF Inv, Preserved, AllFine

LEMMA InitInv == Init => Inv
<1> SUFFICES ASSUME Init PROVE Inv
  OBVIOUS
<1>1. TypeOK
  BY DEF Init, TypeOK, Row, Absent, Answer, NoAnswer
<1>2. CredentialsErasedFirst
  BY DEF Init, CredentialsErasedFirst, Absent
<1>3. SessionsKnow
  BY DEF Init, SessionsKnow, Knows
<1> QED
  BY <1>1, <1>2, <1>3 DEF Inv

LEMMA NextInv == ASSUME Inv, Next
                 PROVE  Preserved
<1>1. ASSUME NEW s \in Session, NEW code \in Answer, Answers(s, code), UNCHANGED users
      PROVE  Preserved
  BY <1>1, QuietStep
<1>2. ASSUME NEW s \in Session, Refused(s) PROVE Preserved
  BY <1>1, <1>2 DEF Refused, Answer
<1>3. ASSUME NEW s \in Session, NEW e \in Email, loginUser(s, e) PROVE Preserved
  BY <1>1, <1>3 DEF loginUser, Answer
<1>4. ASSUME NEW s \in Session, NEW u \in Id, getUser(s, u) PROVE Preserved
  BY <1>1, <1>4 DEF getUser, Answer
<1>5. ASSUME NEW s \in Session, NEW u \in Id, updateNobody(s, u) PROVE Preserved
  BY <1>1, <1>5 DEF updateNobody, Answer, dbErrToHttp
<1>6. ASSUME NEW s \in Session, listUsers(s) PROVE Preserved
  BY <1>1, <1>6 DEF listUsers, Answer
<1> QED
  BY <1>2, <1>3, <1>4, <1>5, <1>6, RegisterStep, UpdateStep, EraseStep, EraseNobodyStep,
     SoftDeleteStep, CrashStep DEF Next

LEMMA StutterInv == ASSUME Inv, UNCHANGED vars
                    PROVE  Preserved
<1>1. AllFine
  BY SameTable DEF AllFine, vars
<1>2. Inv'
  BY DEF Inv, TypeOK, CredentialsErasedFirst, SessionsKnow, Knows, vars
<1> QED
  BY <1>1, <1>2 DEF Preserved, AllFine

-----------------------------------------------------------------------------
(* The theorems *)

\* Type correctness, with the inductive invariant.
THEOREM Invariance == Spec => []Inv
<1>1. ASSUME Inv, [Next]_vars PROVE Inv'
  BY <1>1, NextInv, StutterInv DEF Preserved
<1> QED
  BY <1>1, InitInv, PTL DEF Spec

\* deleteUser's two statements: the variables keep their types, and a session
\* between the two has an account.
THEOREM TypeCorrect == Spec => []TypeOK
  BY Invariance, PTL DEF Inv

\* deleteUser: no account is marked deleted before its credentials are gone.
THEOREM ErasedFirst == Spec => []CredentialsErasedFirst
  BY Invariance, PTL DEF Inv

\* DELETE answers 204, or 404 for an account there was, only for an account
\* that is deleted and has no credentials.
THEOREM FinalAnswers == Spec => []DeletionIsFinal
<1>1. Inv => DeletionIsFinal
  <2> SUFFICES ASSUME Inv, NEW s \in Session, pc[s] = "idle", user[s] # NoUser,
                      answer[s] \in {204, 404}
               PROVE  users[user[s]].state = "deleted" /\ users[user[s]].email = Null
    BY DEF DeletionIsFinal
  <2>1. user[s] \in Id
    BY DEF Inv, TypeOK
  <2>2. users[user[s]].state = "deleted"
    BY DEF Inv, SessionsKnow, Knows
  <2> QED
    BY <2>1, <2>2 DEF Inv, CredentialsErasedFirst
<1> QED
  BY <1>1, Invariance, PTL

\* updateUser, registerUser and every other request leave erased credentials
\* erased, and deleted accounts as they are.
THEOREM ErasureIsPermanent == Spec => ErasedForGood
<1>1. ASSUME Inv, [Next]_vars
      PROVE  [\A u \in Id : /\ users[u] # Absent /\ users[u].email = Null => users'[u].email = Null
                            /\ users[u].state = "deleted" => users'[u] = users[u]]_vars
  <2>1. Preserved
    BY <1>1, NextInv, StutterInv
  <2> QED
    BY <2>1 DEF Preserved, Kept
<1> QED
  BY <1>1, Invariance, PTL DEF Spec, ErasedForGood
=============================================================================
