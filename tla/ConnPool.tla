------------------------------ MODULE ConnPool ------------------------------
(***************************************************************************)
(* server/conn_pool.{h,cpp}: the pool of libpq connections every DBManager *)
(* method takes its connection from.                                       *)
(*                                                                         *)
(* A critical section of mutex_ is one action.  release() unlocks before   *)
(* it notifies, so these are two actions.  wait_for's wait set is the set  *)
(* of threads whose pc is "waiting"; a thread taken out of it (notified,   *)
(* woken spuriously or timed out) is "woken" until it has the mutex again. *)
(* A thread may own several connections: acceptMatch acquires a second one *)
(* while it holds the first.                                               *)
(***************************************************************************)
EXTENDS Integers, Sequences, FiniteSets, SequencesExt

CONSTANTS Thread,   \* the server's request threads
          Size,     \* the constructor's `size`
          MaxHeld   \* bound: connections one thread holds at a time

ASSUME ConnPoolAssumption == /\ IsFiniteSet(Thread)
                             /\ Size \in Nat
                             /\ MaxHeld \in Nat

Conn == 1 .. Size
NoConn == 0

VARIABLES
  opened,     \* iterations of the constructor's loop done
  all,        \* all_
  available,  \* available_, used as a stack
  held,       \* held[t]: connections of the ConnGuards alive in t
  conn,       \* conn[t]: the local `conn` of t's acquire, or of its release
  pc,
  expired,    \* expired[t]: the deadline of t's wait_for has passed
  link,       \* link[c]: the socket of c still reaches the server
  status,     \* status[c]: what PQstatus(c) answers
  serverUp    \* PostgreSQL accepts new connections

poolVars == <<opened, all, available, held, conn, pc, expired>>
serverVars == <<link, status, serverUp>>
vars == <<opened, all, available, held, conn, pc, expired, link, status, serverUp>>

PC == {"idle", "waiting", "woken", "checking", "resetting", "failing", "notifying"}
At(l) == {t \in Thread : pc[t] = l}
Goto(t, l) == pc' = [pc EXCEPT ![t] = l]

Init == /\ opened = 0
        /\ all = {}
        /\ available = <<>>
        /\ held = [t \in Thread |-> {}]
        /\ conn = [t \in Thread |-> NoConn]
        /\ pc = [t \in Thread |-> "idle"]
        /\ expired = [t \in Thread |-> FALSE]
        /\ link = [c \in Conn |-> FALSE]
        /\ status = [c \in Conn |-> "BAD"]
        /\ serverUp = TRUE

-----------------------------------------------------------------------------
(* The constructor.  A connection that cannot be opened is discarded. *)

OpenConn == LET c == opened + 1
            IN  /\ opened < Size
                /\ opened' = c
                /\ \/ /\ serverUp
                      /\ all' = all \cup {c}
                      /\ available' = Append(available, c)
                      /\ link' = [link EXCEPT ![c] = TRUE]
                      /\ status' = [status EXCEPT ![c] = "OK"]
                   \/ UNCHANGED <<all, available, link, status>>
                /\ UNCHANGED <<held, conn, pc, expired, serverUp>>

\* The destructor closes every connection of all_.  Its caller sees to it that
\* nobody uses the pool: main's pool dies after app.run() has joined the
\* handlers.  The server may then be started again, with a new pool.
Destroy == /\ opened = Size
           /\ \A t \in Thread : pc[t] = "idle" /\ held[t] = {}
           /\ opened' = 0
           /\ all' = {}
           /\ available' = <<>>
           /\ link' = [c \in Conn |-> FALSE]
           /\ status' = [c \in Conn |-> "BAD"]
           /\ UNCHANGED <<held, conn, pc, expired, serverUp>>

-----------------------------------------------------------------------------
(* acquireWithTimeout *)

\* Mutant: the connection stays in available_ (pop_back forgotten).
Pop_Keeps(t) == /\ available # <<>>
                /\ conn' = [conn EXCEPT ![t] = Last(available)]
                /\ Goto(t, "checking")
                /\ UNCHANGED available

\* The predicate holds: pop the back of available_ and unlock.
Pop(t) == /\ available # <<>>
          /\ conn' = [conn EXCEPT ![t] = Last(available)]
          /\ available' = Front(available)
          /\ Goto(t, "checking")

Acquire(t) == /\ opened = Size
              /\ pc[t] = "idle"
              /\ Cardinality(held[t]) < MaxHeld
              /\ expired' = [expired EXCEPT ![t] = FALSE]
              /\ \/ Pop(t)
                 \/ /\ available = <<>>
                    /\ Goto(t, "waiting")
                    /\ UNCHANGED <<conn, available>>
              /\ UNCHANGED <<opened, all, held, serverVars>>

\* Time reaches the deadline of a thread that is inside wait_for.
Expire(t) == /\ pc[t] \in {"waiting", "woken"}
             /\ ~expired[t]
             /\ expired' = [expired EXCEPT ![t] = TRUE]
             /\ UNCHANGED <<opened, all, available, held, conn, pc, serverVars>>

\* The wait ends without a notification: at the deadline, or spuriously.
WakeUnnotified(t) == /\ pc[t] = "waiting"
                     /\ Goto(t, "woken")
                     /\ UNCHANGED <<opened, all, available, held, conn, expired, serverVars>>

\* Mutant: the deadline is never looked at (cv_.wait instead of wait_for).
Recheck_NoTimeout(t) == /\ pc[t] = "woken"
                        /\ \/ Pop(t)
                           \/ /\ available = <<>>
                              /\ Goto(t, "waiting")
                              /\ UNCHANGED <<conn, available>>
                        /\ UNCHANGED <<opened, all, held, expired, serverVars>>

\* wait_for's loop with the mutex back: the predicate decides first, and
\* only if it is false does the deadline (the exception is "exhausted").
Recheck(t) == /\ pc[t] = "woken"
              /\ \/ Pop(t)
                 \/ /\ available = <<>>
                    /\ Goto(t, IF expired[t] THEN "idle" ELSE "waiting")
                    /\ UNCHANGED <<conn, available>>
              /\ UNCHANGED <<opened, all, held, expired, serverVars>>

\* The ConnGuard is built: the caller owns the connection.
HandOver(t) == /\ held' = [held EXCEPT ![t] = @ \cup {conn[t]}]
               /\ conn' = [conn EXCEPT ![t] = NoConn]
               /\ Goto(t, "idle")

CheckStatus(t) == /\ pc[t] = "checking"
                  /\ \/ /\ status[conn[t]] = "OK"
                        /\ HandOver(t)
                     \/ /\ status[conn[t]] = "BAD"
                        /\ Goto(t, "resetting")
                        /\ UNCHANGED <<held, conn>>
                  /\ UNCHANGED <<opened, all, available, expired, serverVars>>

\* Mutant: a failed reset throws without returning the connection.
Reset_Leaks(t) == /\ pc[t] = "resetting"
                  /\ ~serverUp
                  /\ conn' = [conn EXCEPT ![t] = NoConn]
                  /\ Goto(t, "idle")
                  /\ UNCHANGED <<opened, all, available, held, expired, serverVars>>

\* PQreset, and the second look at PQstatus.
Reset(t) == /\ pc[t] = "resetting"
            /\ \/ /\ serverUp
                  /\ link' = [link EXCEPT ![conn[t]] = TRUE]
                  /\ status' = [status EXCEPT ![conn[t]] = "OK"]
                  /\ HandOver(t)
               \/ /\ ~serverUp
                  /\ Goto(t, "failing")
                  /\ UNCHANGED <<held, conn, link, status>>
            /\ UNCHANGED <<opened, all, available, expired, serverUp>>

-----------------------------------------------------------------------------
(* release: from acquire's error path (which then throws) or ~ConnGuard *)

\* Mutant: release does not notify.
PushBack_Silent(t, c) == /\ available' = Append(available, c)
                         /\ Goto(t, "idle")
                         /\ UNCHANGED <<opened, all, expired, serverVars>>

PushBack(t, c) == /\ available' = Append(available, c)
                  /\ Goto(t, "notifying")
                  /\ UNCHANGED <<opened, all, expired, serverVars>>

ReleaseFailed(t) == /\ pc[t] = "failing"
                    /\ PushBack(t, conn[t])
                    /\ conn' = [conn EXCEPT ![t] = NoConn]
                    /\ UNCHANGED held

\* Mutant: the move constructor leaves the moved-from guard its pool_, so that
\* both guards release.
ReleaseGuard_Twice(t, c) == /\ pc[t] = "idle"
                            /\ c \in held[t]
                            /\ PushBack(t, c)
                            /\ UNCHANGED <<conn, held>>

ReleaseGuard(t, c) == /\ pc[t] = "idle"
                      /\ c \in held[t]
                      /\ PushBack(t, c)
                      /\ held' = [held EXCEPT ![t] = @ \ {c}]
                      /\ UNCHANGED conn

\* cv_.notify_one(): it is lost when no thread is in the wait set.
Notify(t) ==
  /\ pc[t] = "notifying"
  /\ \/ /\ At("waiting") = {}
        /\ Goto(t, "idle")
     \/ \E w \in At("waiting") :
          pc' = [pc EXCEPT ![t] = "idle", ![w] = "woken"]
  /\ UNCHANGED <<opened, all, available, held, conn, expired, serverVars>>

-----------------------------------------------------------------------------
(* The server, and libpq's knowledge of it: PQstatus turns bad only when a *)
(* command on the connection fails, not when the socket dies.              *)

DropLink(c) == /\ link[c]
               /\ link' = [link EXCEPT ![c] = FALSE]
               /\ UNCHANGED <<poolVars, status, serverUp>>

ServerStop == /\ serverUp
              /\ serverUp' = FALSE
              /\ link' = [c \in Conn |-> FALSE]
              /\ UNCHANGED <<poolVars, status>>

ServerStart == /\ ~serverUp
               /\ serverUp' = TRUE
               /\ UNCHANGED <<poolVars, link, status>>

\* A PQexec of the guard's owner; only one that fails changes anything.
FailedQuery(t, c) == /\ pc[t] = "idle"
                     /\ c \in held[t]
                     /\ ~link[c]
                     /\ status[c] = "OK"
                     /\ status' = [status EXCEPT ![c] = "BAD"]
                     /\ UNCHANGED <<poolVars, link, serverUp>>

-----------------------------------------------------------------------------
\* What the pool's own code does for t once t has called acquire or release.
PoolStep(t) == \/ Recheck(t) \/ CheckStatus(t) \/ Reset(t)
               \/ ReleaseFailed(t) \/ Notify(t)

Caller(t) == \/ Acquire(t)
             \/ \E c \in Conn : ReleaseGuard(t, c) \/ FailedQuery(t, c)

Environment == \/ ServerStop \/ ServerStart
               \/ \E c \in Conn : DropLink(c)

Next == \/ OpenConn \/ Destroy
        \/ \E t \in Thread : PoolStep(t) \/ Caller(t) \/ Expire(t) \/ WakeUnnotified(t)
        \/ Environment

Spec == Init /\ [][Next]_vars

\* The scheduler runs every thread that can run, and time passes: a deadline
\* is reached, and a wait whose deadline has passed ends.  Nothing obliges a
\* caller to acquire or to release, nor the server to stop or to come back.
Fairness == \A t \in Thread : /\ WF_vars(PoolStep(t))
                              /\ WF_vars(Expire(t))
                              /\ WF_vars(expired[t] /\ WakeUnnotified(t))

FairSpec == Spec /\ Fairness

-----------------------------------------------------------------------------
(* Properties *)

InTransit(t) == IF conn[t] = NoConn THEN {} ELSE {conn[t]}

\* A thread is between the pop and the push or hand-over exactly when it has
\* a connection in its local variable.
TransitPC == {"checking", "resetting", "failing"}

TypeOK == /\ opened \in 0 .. Size
          /\ all \subseteq 1 .. opened
          /\ available \in Seq(all)
          /\ held \in [Thread -> SUBSET all]
          /\ pc \in [Thread -> PC]
          /\ conn \in [Thread -> all \cup {NoConn}]
          /\ \A t \in Thread : conn[t] # NoConn <=> pc[t] \in TransitPC
          /\ expired \in [Thread -> BOOLEAN]
          /\ link \in [Conn -> BOOLEAN]
          /\ status \in [Conn -> {"OK", "BAD"}]
          /\ serverUp \in BOOLEAN

\* No two threads ever use one PGconn: what a thread holds or is acquiring,
\* no other thread holds or is acquiring, and it is not in available_.
Exclusive ==
  /\ \A t, u \in Thread : t # u => (held[t] \cup InTransit(t)) \cap (held[u] \cup InTransit(u)) = {}
  /\ \A t \in Thread : /\ (held[t] \cup InTransit(t)) \cap Range(available) = {}
                       /\ conn[t] \notin held[t]

\* No connection leaks and none is queued twice, whatever path an acquire
\* takes (also the one where PQreset fails): every one the constructor opened
\* is idle, held or in transit.
Conserved == /\ IsInjective(available)
             /\ all = Range(available) \cup UNION {held[t] \cup InTransit(t) : t \in Thread}

\* The threads that will look at available_, or make another one look.
Awake == At("woken") \cup At("notifying")

\* No lost wakeup, although release() notifies after it has unlocked, new
\* callers overtake waiting ones and a waiter may leave by its deadline: while
\* a thread sleeps, each idle connection has a thread on its way to take it or
\* a releaser that has still to notify.
NoLostWakeup == At("waiting") # {} =>
                  Len(available) <= Cardinality(Awake)

\* Every acquire and every release returns (by value or exception), even when
\* all connections are held by threads that wait for another one.
CallsReturn == \A t \in Thread : (pc[t] # "idle") ~> (pc[t] = "idle")

\* The pool as its users see it: `conn` in transit already belongs to t.
Abstract == INSTANCE ResourcePool
              WITH Resource <- Conn, stocked <- all, free <- Range(available),
                   owned <- [t \in Thread |-> held[t] \cup InTransit(t)]
\* The pool implements ResourcePool: only free connections are taken, and only
\* the owner's release makes one free again.
ImplementsResourcePool == Abstract!Spec
=============================================================================
