----------------------------- MODULE ThreadPool -----------------------------
(***************************************************************************)
(* server/thread_pool.h: workers around one queue of tasks, clients that   *)
(* enqueue (submit is enqueue of a wrapped task), and the destructor.      *)
(*                                                                         *)
(* A critical section of mutex_ is one action; both notify calls come      *)
(* after the unlock.  The wait set of cv_ is the set of workers whose pc   *)
(* is "waiting".  Tasks are numbered in the order they are accepted.  A    *)
(* task may itself enqueue another one.                                    *)
(***************************************************************************)
EXTENDS Integers, Sequences, FiniteSets, SequencesExt

CONSTANTS Worker, Client,
          MaxTasks   \* bound: tasks accepted in a behaviour

\* The constructor starts at least one worker.
ASSUME ThreadPoolAssumption ==
  /\ IsFiniteSet(Worker) /\ Worker # {}
  /\ IsFiniteSet(Client) /\ Client \cap Worker = {}
  /\ MaxTasks \in Nat

Thread == Worker \cup Client
Task == 1 .. MaxTasks
NoTask == 0

VARIABLES
  queue,     \* queue_
  accepted,  \* number of tasks pushed so far
  stop,      \* stop_
  task,      \* task[w]: the local `task` of worker w
  finished,  \* the tasks whose call has returned
  pc,
  dtor       \* the destructor's progress

vars == <<queue, accepted, stop, task, finished, pc, dtor>>

At(l) == {t \in Thread : pc[t] = l}
Goto(t, l) == pc' = [pc EXCEPT ![t] = l]

Init == /\ queue = <<>>
        /\ accepted = 0
        /\ stop = FALSE
        /\ task = [w \in Worker |-> NoTask]
        /\ finished = {}
        /\ pc = [t \in Thread |-> IF t \in Worker THEN "ready" ELSE "idle"]
        /\ dtor = "alive"

-----------------------------------------------------------------------------
(* enqueue.  What a call does on a destroyed pool is undefined: such a     *)
(* call takes no further step here.                                        *)

\* A client calls; it takes the mutex later, perhaps after the destructor.
Call(c) == /\ pc[c] = "idle"
           /\ dtor # "destroyed"
           /\ Goto(c, "calling")
           /\ UNCHANGED <<queue, accepted, stop, task, finished, dtor>>

\* Mutant: enqueue does not notify.
Push_Silent(t) == /\ accepted < MaxTasks
                  /\ ~stop
                  /\ accepted' = accepted + 1
                  /\ queue' = Append(queue, accepted')
                  /\ Goto(t, IF t \in Worker THEN "running" ELSE "idle")
                  /\ UNCHANGED <<stop, task, finished, dtor>>

Push(t) == /\ accepted < MaxTasks
           /\ ~stop
           /\ accepted' = accepted + 1
           /\ queue' = Append(queue, accepted')
           /\ Goto(t, "notifying")
           /\ UNCHANGED <<stop, task, finished, dtor>>

Enqueue(c) == pc[c] = "calling" /\ dtor # "destroyed" /\ Push(c)

\* The pool is stopped: enqueue throws.
Refuse(c) == /\ pc[c] = "calling"
             /\ dtor # "destroyed"
             /\ stop
             /\ Goto(c, "idle")
             /\ UNCHANGED <<queue, accepted, stop, task, finished, dtor>>

\* A task's own enqueue (a refused one changes nothing).
EnqueueFromTask(w) == pc[w] = "running" /\ Push(w)

\* cv_.notify_one(), lost when no worker waits.
Notify(t) ==
  /\ pc[t] = "notifying"
  /\ dtor # "destroyed"
  /\ LET back == IF t \in Worker THEN "running" ELSE "idle"
     IN  \/ /\ At("waiting") = {}
            /\ Goto(t, back)
         \/ \E w \in At("waiting") :
              pc' = [pc EXCEPT ![t] = back, ![w] = "woken"]
  /\ UNCHANGED <<queue, accepted, stop, task, finished, dtor>>

-----------------------------------------------------------------------------
(* workerLoop *)

\* Mutant: front() is not popped.
Take_Keeps(w) == /\ queue # <<>>
                 /\ task' = [task EXCEPT ![w] = Head(queue)]
                 /\ Goto(w, "running")
                 /\ UNCHANGED queue

Take(w) == /\ queue # <<>>
           /\ task' = [task EXCEPT ![w] = Head(queue)]
           /\ queue' = Tail(queue)
           /\ Goto(w, "running")

\* Mutant: a stopped pool abandons its queue.
Enter_Abandons(w) ==
  /\ pc[w] \in {"ready", "woken"}
  /\ \/ ~stop /\ Take(w)
     \/ stop /\ Goto(w, "exited") /\ UNCHANGED <<task, queue>>
     \/ ~stop /\ queue = <<>> /\ Goto(w, "waiting") /\ UNCHANGED <<task, queue>>
  /\ UNCHANGED <<accepted, stop, finished, dtor>>

\* With the mutex, on the first entry or back from the wait: the predicate
\* fails, or the loop takes a task, or it ends.
Enter(w) ==
  /\ pc[w] \in {"ready", "woken"}
  /\ \/ Take(w)
     \/ /\ queue = <<>>
        /\ Goto(w, IF stop THEN "exited" ELSE "waiting")
        /\ UNCHANGED <<task, queue>>
  /\ UNCHANGED <<accepted, stop, finished, dtor>>

WakeSpuriously(w) == /\ pc[w] = "waiting"
                     /\ Goto(w, "woken")
                     /\ UNCHANGED <<queue, accepted, stop, task, finished, dtor>>

\* task() returns.
Finish(w) == /\ pc[w] = "running"
             /\ finished' = finished \cup {task[w]}
             /\ task' = [task EXCEPT ![w] = NoTask]
             /\ Goto(w, "ready")
             /\ UNCHANGED <<queue, accepted, stop, dtor>>

-----------------------------------------------------------------------------
(* The destructor *)

Stop == /\ dtor = "alive"
        /\ stop' = TRUE
        /\ dtor' = "stopped"
        /\ UNCHANGED <<queue, accepted, task, finished, pc>>

\* Mutant: notify_one for notify_all.
NotifyAll_One == /\ dtor = "stopped"
                 /\ dtor' = "joining"
                 /\ \/ At("waiting") = {} /\ UNCHANGED pc
                    \/ \E w \in At("waiting") : Goto(w, "woken")
                 /\ UNCHANGED <<queue, accepted, stop, task, finished>>

NotifyAll == /\ dtor = "stopped"
             /\ dtor' = "joining"
             /\ pc' = [t \in Thread |-> IF pc[t] = "waiting" THEN "woken" ELSE pc[t]]
             /\ UNCHANGED <<queue, accepted, stop, task, finished>>

\* join() has returned for every worker.
Join == /\ dtor = "joining"
        /\ \A w \in Worker : pc[w] = "exited"
        /\ dtor' = "destroyed"
        /\ UNCHANGED <<queue, accepted, stop, task, finished, pc>>

-----------------------------------------------------------------------------
InEnqueue(c) == Enqueue(c) \/ Refuse(c) \/ Notify(c)
InWorker(w) == Enter(w) \/ Finish(w) \/ Notify(w)
InDestructor == NotifyAll \/ Join

Next == \/ \E c \in Client : Call(c) \/ InEnqueue(c)
        \/ \E w \in Worker : InWorker(w) \/ EnqueueFromTask(w) \/ WakeSpuriously(w)
        \/ Stop \/ InDestructor

Spec == Init /\ [][Next]_vars

\* Every thread keeps running and every task returns.  Nothing obliges a
\* client to call, nor the owner to destroy the pool.
Fairness == /\ \A c \in Client : WF_vars(InEnqueue(c))
            /\ \A w \in Worker : WF_vars(InWorker(w))
            /\ WF_vars(InDestructor)

FairSpec == Spec /\ Fairness

-----------------------------------------------------------------------------
(* Properties *)

TypeOK == /\ accepted \in 0 .. MaxTasks
          /\ queue \in Seq(Task)
          /\ stop = (dtor # "alive")
          /\ task \in [Worker -> Task \cup {NoTask}]
          /\ finished \in SUBSET Task
          /\ pc \in [Thread -> {"ready", "waiting", "woken", "running", "exited",
                                "idle", "calling", "notifying"}]
          /\ \A c \in Client : pc[c] \in {"idle", "calling", "notifying"}
          /\ \A w \in Worker : /\ pc[w] \notin {"idle", "calling"}
                               /\ task[w] # NoTask <=> pc[w] \in {"running", "notifying"}
          /\ dtor \in {"alive", "stopped", "joining", "destroyed"}

Running == {task[w] : w \in Worker} \ {NoTask}

\* An accepted task is never lost and never run twice: it is in the queue, or
\* with one worker, or finished, and only one of these.
EachTaskOnce ==
  /\ 1 .. accepted = Range(queue) \cup Running \cup finished
  /\ Range(queue) \cap (Running \cup finished) = {}
  /\ Running \cap finished = {}
  /\ IsInjective(queue)
  /\ \A v, w \in Worker : v # w /\ task[v] = task[w] => task[v] = NoTask

\* Tasks are started in the order of their acceptance, whatever clients and
\* tasks enqueue and whichever workers are free: the queue holds the newest.
Fifo == \A i \in DOMAIN queue : queue[i] = accepted - Len(queue) + i

\* No lost wakeup, although the notifications follow the unlock: while a worker
\* sleeps, each queued task has a worker on its way to the queue or a thread
\* that has still to notify; and nobody sleeps through notify_all.
NoLostWakeup ==
  At("waiting") # {} =>
    /\ Len(queue) <= Cardinality(At("ready") \cup At("woken") \cup At("notifying"))
    /\ dtor \in {"alive", "stopped"}

\* The destructor drains the queue: every task that was ever accepted has run
\* when it returns.
DrainedWhenDestroyed == dtor = "destroyed" => finished = 1 .. accepted

\* Every accepted task is run, with or without the destructor.
TasksRun == \A k \in Task : (k \in Range(queue)) ~> (k \in finished)

\* The destructor returns, also while clients and tasks keep calling enqueue.
DestructorReturns == stop ~> (dtor = "destroyed")
=============================================================================
