---------------------------- MODULE UserAccounts ----------------------------
(***************************************************************************)
(* The user routes of server/server.cpp with the DBManager methods they    *)
(* call: registerUser, loginUser, listUsers, getUser, updateUser,          *)
(* deleteUser.                                                             *)
(*                                                                         *)
(* Each method is one autocommitted SQL statement, and one action here,    *)
(* except deleteUser, which is two: other requests, an error or a crash    *)
(* may come between them.                                                  *)
(***************************************************************************)
EXTENDS FiniteSets

CONSTANTS Session,      \* handlers under way at a time
          Id,           \* users.id: bounds the registrations
          Email,
          Null, NoUser

ASSUME UserAccountsAssumption == Null \notin Email /\ NoUser \notin Id

VARIABLES
  users,   \* the table
  pc,      \* "erased" between the two statements of deleteUser
  user,    \* the account a session's DELETE is, or was, about
  answer   \* the status code a session gave last

vars == <<users, pc, user, answer>>

\* real_name, email and password_hash are set and erased together: email
\* stands for them.  profile: bio or interests hold something.
Row == [state : {"absent", "active", "deleted"}, email : Email \cup {Null}, profile : BOOLEAN]
Absent == [state |-> "absent", email |-> Null, profile |-> FALSE]
NoAnswer == 0
Answer == {NoAnswer, 200, 201, 204, 400, 401, 404, 409, 500}

Active(u) == users[u].state = "active"   \* deleted_at IS NULL

Init == /\ users = [u \in Id |-> Absent]
        /\ pc = [s \in Session |-> "idle"]
        /\ user = [s \in Session |-> NoUser]
        /\ answer = [s \in Session |-> NoAnswer]

dbErrToHttp == [NotFound |-> 404, Conflict |-> 409, Unauthorized |-> 401,
                InvalidInput |-> 400, InternalError |-> 500]

\* A handler that is not DELETE's answers.
Answers(s, code) == /\ pc[s] = "idle"
                    /\ answer' = [answer EXCEPT ![s] = code]
                    /\ user' = [user EXCEPT ![s] = NoUser]
                    /\ UNCHANGED pc

\* A statement whose connection breaks has been carried out, or not: nobody
\* knows, and the handler answers with code.
Unknown(s, code, table) == Answers(s, code) /\ users' \in {users, table}

\* Invalid JSON, a missing field, an age or gender out of range; or no
\* connection in time, or a statement that fails and would have changed nothing.
Refused(s) == (Answers(s, 400) \/ Answers(s, 500)) /\ UNCHANGED users

-----------------------------------------------------------------------------
\* uq_users_email_active
Taken(e) == \E u \in Id : Active(u) /\ users[u].email = e

Inserted(u, e, filled) ==
  [users EXCEPT ![u] = [state |-> "active", email |-> e, profile |-> filled]]

\* POST /api/users/register
registerUser(s, e, filled) ==
  \/ Taken(e) /\ Answers(s, dbErrToHttp.Conflict) /\ UNCHANGED users
  \/ /\ ~Taken(e)
     /\ \E u \in Id :
          /\ users[u] = Absent
          /\ \/ Answers(s, 201) /\ users' = Inserted(u, e, filled)
             \/ Unknown(s, dbErrToHttp.InternalError, Inserted(u, e, filled))

\* POST /api/users/login: a failed SELECT is answered as a wrong password is.
loginUser(s, e) == /\ \/ Taken(e) /\ Answers(s, 200)
                      \/ Answers(s, 401)
                   /\ UNCHANGED users

\* GET /api/users/:id: a failed SELECT is answered as an unknown user is.
getUser(s, u) == /\ \/ Active(u) /\ Answers(s, 200)
                    \/ Answers(s, 404)
                 /\ UNCHANGED users

\* GET /api/users (what a page lists is left out).
listUsers(s) == (Answers(s, 200) \/ Answers(s, 500)) /\ UNCHANGED users

Updated(u, filled) == [users EXCEPT ![u].profile = filled]

\* Mutant: deleted accounts are updated too.
updateUser_Any(s, u, filled) == /\ users[u] # Absent
                                /\ \/ Answers(s, 200) /\ users' = Updated(u, filled)
                                   \/ Unknown(s, dbErrToHttp.NotFound, Updated(u, filled))

\* PUT /api/users/:id with a new bio or new interests, empty or not (with
\* only alias or age, filled is what it is).  A failed UPDATE is answered as
\* an unknown user is.
updateUser(s, u, filled) == /\ Active(u)
                            /\ \/ Answers(s, 200) /\ users' = Updated(u, filled)
                               \/ Unknown(s, dbErrToHttp.NotFound, Updated(u, filled))

\* ... of an account that is deleted or was never there.
updateNobody(s, u) == ~Active(u) /\ Answers(s, dbErrToHttp.NotFound) /\ UNCHANGED users

-----------------------------------------------------------------------------
(* DELETE /api/users/:id *)

DeleteAnswers(s, u, code) == /\ answer' = [answer EXCEPT ![s] = code]
                             /\ user' = [user EXCEPT ![s] = u]
                             /\ pc' = [pc EXCEPT ![s] = "idle"]

\* Mutant: the two statements change places (the first one, that is).
Erased_Second(u) == [users EXCEPT ![u].state = "deleted"]

Erased(u) == [users EXCEPT ![u].email = Null, ![u].profile = FALSE]

\* Mutant: an account whose email is gone counts as deleted.
Deletable_Once(u) == Active(u) /\ users[u].email # Null

Deletable(u) == Active(u)

SoftDeleted(u) == [users EXCEPT ![u].state = "deleted"]

\* Step 1: the personal columns.
Erase(s, u) ==
  /\ pc[s] = "idle" /\ Deletable(u)
  /\ \/ /\ users' = Erased(u)
        /\ pc' = [pc EXCEPT ![s] = "erased"]
        /\ user' = [user EXCEPT ![s] = u]
        /\ UNCHANGED answer
     \/ DeleteAnswers(s, u, 500) /\ users' \in {users, Erased(u)}

\* Step 1 finds no row: the account is deleted, or there never was one.
EraseNobody(s, u) ==
  /\ pc[s] = "idle" /\ ~Deletable(u)
  /\ DeleteAnswers(s, IF users[u].state = "absent" THEN NoUser ELSE u, 404)
  /\ UNCHANGED users

\* Step 2: deleted_at.
SoftDelete(s) ==
  /\ pc[s] = "erased"
  /\ \/ DeleteAnswers(s, user[s], 204) /\ users' = SoftDeleted(user[s])
     \/ DeleteAnswers(s, user[s], 500) /\ users' \in {users, SoftDeleted(user[s])}

\* The server is killed and started again; what was committed stays.
Crash == /\ pc' = [s \in Session |-> "idle"]
         /\ user' = [s \in Session |-> NoUser]
         /\ answer' = [s \in Session |-> NoAnswer]
         /\ UNCHANGED users

-----------------------------------------------------------------------------
Next == \/ \E s \in Session :
             \/ Refused(s) \/ listUsers(s)
             \/ \E e \in Email : loginUser(s, e) \/ \E f \in BOOLEAN : registerUser(s, e, f)
             \/ \E u \in Id : \/ getUser(s, u)
                              \/ \E f \in BOOLEAN : updateUser(s, u, f)
                              \/ updateNobody(s, u)
                              \/ Erase(s, u)
                              \/ EraseNobody(s, u)
             \/ SoftDelete(s)
        \/ Crash

Spec == Init /\ [][Next]_vars

-----------------------------------------------------------------------------
(* Properties *)

\* Between the two statements the account is active, without credentials; a
\* second DELETE may complete the deletion before the first one does.
TypeOK == /\ users \in [Id -> Row]
          /\ pc \in [Session -> {"idle", "erased"}]
          /\ user \in [Session -> Id \cup {NoUser}]
          /\ answer \in [Session -> Answer]
          /\ \A s \in Session : pc[s] = "erased" => user[s] # NoUser

\* An account is never marked deleted while real_name, email and the password
\* are still there, at whichever statement deleteUser stops and however
\* several of them overlap.
CredentialsErasedFirst == \A u \in Id : users[u].state = "deleted" => users[u].email = Null

\* DELETE's answer can be trusted: after 204, and after 404 for an account
\* that was there, the account is deleted and its credentials are gone, even
\* when another DELETE of it failed halfway; only 500 leaves it open.
DeletionIsFinal ==
  \A s \in Session :
    pc[s] = "idle" /\ user[s] # NoUser /\ answer[s] \in {204, 404} =>
      users[user[s]].state = "deleted" /\ users[user[s]].email = Null

\* Nothing undoes an erasure: an account whose credentials are gone never gets
\* any, and a deleted one never changes, whatever requests are under way.
ErasedForGood ==
  [][\A u \in Id : /\ users[u] # Absent /\ users[u].email = Null => users'[u].email = Null
                   /\ users[u].state = "deleted" => users'[u] = users[u]]_vars

\* What schema.sql asks of the application: "MUST also null out real_name,
\* email, bio, interests before setting this to complete GDPR erasure".
ErasureComplete ==
  \A u \in Id : users[u].state = "deleted" => users[u].email = Null /\ ~users[u].profile
=============================================================================
