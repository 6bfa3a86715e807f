-------------------------- MODULE ThreadPoolProofs --------------------------
(***************************************************************************)
(* ThreadPool for any number of workers, clients and tasks: each task runs *)
(* once and in order, no wakeup is lost, and the destructor drains the     *)
(* queue.                                                                  *)
(***************************************************************************)
EXTENDS ThreadPool, FiniteSetTheorems, TLAPS

-----------------------------------------------------------------------------
(* The actions and the variables they touch *)

LEMMA Queue ==
  ASSUME NEW q \in Seq(Task)
  PROVE  /\ Len(q) \in Nat /\ DOMAIN q = 1 .. Len(q)
         /\ q = <<>> <=> Len(q) = 0
         /\ \A i \in DOMAIN q : q[i] \in Task
OBVIOUS

LEMMA Enqueued ==
  ASSUME NEW q \in Seq(Task), NEW k \in Task
  PROVE  /\ Append(q, k) \in Seq(Task)
         /\ Len(Append(q, k)) = Len(q) + 1
         /\ \A i \in 1 .. Len(q) : Append(q, k)[i] = q[i]
         /\ Append(q, k)[Len(q) + 1] = k
OBVIOUS

LEMMA Dequeued ==
  ASSUME NEW q \in Seq(Task), q # <<>>
  PROVE  /\ Tail(q) \in Seq(Task)
         /\ Len(Tail(q)) = Len(q) - 1
         /\ \A i \in 1 .. Len(q) - 1 : Tail(q)[i] = q[i + 1]
         /\ Head(q) = q[1] /\ q[1] \in Task
OBVIOUS

\* One step of one thread, or of the destructor.
Step(t) == \/ t \in Client /\ (Call(t) \/ Enqueue(t) \/ Refuse(t) \/ Notify(t))
           \/ t \in Worker /\ (\/ Enter(t) \/ Finish(t) \/ Notify(t)
                               \/ EnqueueFromTask(t) \/ WakeSpuriously(t))

LEMMA Steps == Next => (\E t \in Thread : Step(t)) \/ Stop \/ NotifyAll \/ Join
BY DEF Next, Step, InEnqueue, InWorker, InDestructor, Thread

-----------------------------------------------------------------------------
(* Types *)

LEMMA TypeStart == Init => TypeOK
<1> SUFFICES ASSUME Init PROVE TypeOK
  OBVIOUS
<1> USE ThreadPoolAssumption DEF Init
<1>0. <<>> \in Seq(Task)
  OBVIOUS
<1>1. accepted \in 0 .. MaxTasks /\ queue \in Seq(Task) /\ finished \in SUBSET Task
  BY <1>0
<1>3. stop = (dtor # "alive") /\ dtor = "alive"
  OBVIOUS
<1>4. task \in [Worker -> Task \cup {NoTask}]
  OBVIOUS
<1>2. /\ pc \in [Thread -> {"ready", "idle"}]
      /\ \A c \in Client : pc[c] = "idle"
      /\ \A w \in Worker : pc[w] = "ready" /\ task[w] = NoTask
  BY DEF Thread
<1> QED BY <1>1, <1>2, <1>3, <1>4 DEF TypeOK

LEMMA TypeStep == TypeOK /\ [Next]_vars => TypeOK'
<1> SUFFICES ASSUME TypeOK, [Next]_vars PROVE TypeOK'
  OBVIOUS
<1> USE ThreadPoolAssumption
<1>0. NoTask \notin Task
  BY DEF NoTask, Task
<1>1. ASSUME NEW c \in Client, Call(c) PROVE TypeOK'
  BY <1>1 DEF Call, Goto, TypeOK, Thread
<1>2. ASSUME NEW t \in Thread, Push(t),
             t \in Client \/ (t \in Worker /\ pc[t] = "running")
      PROVE  TypeOK'
  <2>1. accepted' \in 0 .. MaxTasks /\ accepted' \in Task
    BY <1>2 DEF Push, TypeOK, Task
  <2>2. queue' \in Seq(Task)
    BY <1>2, <2>1, Enqueued DEF Push, TypeOK
  <2> QED BY <1>2, <2>1, <2>2 DEF Push, Goto, TypeOK, Thread
<1>3. ASSUME NEW c \in Client, Refuse(c) PROVE TypeOK'
  BY <1>3 DEF Refuse, Goto, TypeOK, Thread
<1>4. ASSUME NEW t \in Thread, Notify(t) PROVE TypeOK'
  <2>1. CASE Goto(t, IF t \in Worker THEN "running" ELSE "idle")
    BY <1>4, <2>1 DEF Notify, Goto, TypeOK, Thread
  <2>2. ASSUME NEW w \in At("waiting"),
               pc' = [pc EXCEPT ![t] = IF t \in Worker THEN "running" ELSE "idle",
                                ![w] = "woken"]
        PROVE  TypeOK'
    <3>1. w \in Worker /\ pc[w] = "waiting" /\ w # t
      BY <1>4, <2>2 DEF Notify, At, TypeOK, Thread
    <3> QED BY <1>4, <2>2, <3>1 DEF Notify, TypeOK, Thread
  <2> QED BY <1>4, <2>1, <2>2 DEF Notify
<1>5. ASSUME NEW w \in Worker, Enter(w) PROVE TypeOK'
  <2>1. CASE Take(w)
    <3>1. Tail(queue) \in Seq(Task) /\ Head(queue) \in Task
      BY <2>1, Dequeued DEF Take, TypeOK
    <3>2. task' \in [Worker -> Task \cup {NoTask}] /\ task'[w] # NoTask
      BY <1>0, <2>1, <3>1 DEF Take, TypeOK
    <3>3. \A v \in Worker : v # w => task'[v] = task[v]
      BY <2>1 DEF Take, TypeOK
    <3> QED BY <1>5, <2>1, <3>1, <3>2, <3>3 DEF Enter, Take, Goto, TypeOK, Thread
  <2>2. CASE ~Take(w)
    BY <1>5, <2>2 DEF Enter, Goto, TypeOK, Thread
  <2> QED BY <2>1, <2>2
<1>6. ASSUME NEW w \in Worker, WakeSpuriously(w) PROVE TypeOK'
  BY <1>6 DEF WakeSpuriously, Goto, TypeOK, Thread
<1>7. ASSUME NEW w \in Worker, Finish(w) PROVE TypeOK'
  BY <1>0, <1>7 DEF Finish, Goto, TypeOK, Thread
<1>8. CASE Stop \/ Join
  BY <1>8 DEF Stop, Join, TypeOK
<1>9. CASE NotifyAll
  <2>1. \A t \in Thread : pc'[t] = IF pc[t] = "waiting" THEN "woken" ELSE pc[t]
    BY <1>9 DEF NotifyAll
  <2>2. DOMAIN pc' = Thread /\ pc' = [t \in Thread |-> pc'[t]]
    BY <1>9 DEF NotifyAll
  <2>3. pc' \in [Thread -> {"ready", "waiting", "woken", "running", "exited",
                            "idle", "calling", "notifying"}]
    BY <2>1, <2>2 DEF TypeOK
  <2>4. \A c \in Client : pc'[c] = pc[c]
    BY <2>1 DEF TypeOK, Thread
  <2>5. \A w \in Worker : /\ pc'[w] \notin {"idle", "calling"}
                          /\ task[w] # NoTask <=> pc'[w] \in {"running", "notifying"}
    BY <2>1 DEF TypeOK, Thread
  <2> QED BY <1>9, <2>3, <2>4, <2>5 DEF NotifyAll, TypeOK
<1>10. CASE UNCHANGED vars
  BY <1>10 DEF vars, TypeOK
<1>11. ASSUME NEW t \in Thread, Step(t) PROVE TypeOK'
  <2>1. CASE t \in Client /\ (Call(t) \/ Enqueue(t) \/ Refuse(t) \/ Notify(t))
    <3>1. CASE Call(t)
      BY <1>1, <2>1, <3>1
    <3>2. CASE Enqueue(t)
      <4>1. Push(t)
        BY <3>2 DEF Enqueue
      <4> QED BY <1>2, <2>1, <4>1
    <3>3. CASE Refuse(t)
      BY <1>3, <2>1, <3>3
    <3>4. CASE Notify(t)
      BY <1>4, <3>4
    <3> QED BY <2>1, <3>1, <3>2, <3>3, <3>4
  <2>2. CASE t \in Worker /\ (\/ Enter(t) \/ Finish(t) \/ Notify(t)
                             \/ EnqueueFromTask(t) \/ WakeSpuriously(t))
    BY <1>2, <1>4, <1>5, <1>6, <1>7, <2>2, Zenon DEF EnqueueFromTask
  <2> QED BY <1>11, <2>1, <2>2 DEF Step
<1> QED BY <1>8, <1>9, <1>10, <1>11, Steps

\* The pool's variables keep their types, and a worker has a task exactly while
\* it runs one (or runs the enqueue of one).
THEOREM TypeCorrect == Spec => []TypeOK
BY TypeStart, TypeStep, PTL DEF Spec

-----------------------------------------------------------------------------
(* Tasks *)

\* How many tasks have been taken from the queue.
taken == accepted - Len(queue)

\* The queue holds the newest tasks in order; the older ones have finished or
\* are with one worker.
History ==
  /\ Len(queue) <= accepted
  /\ \A i \in DOMAIN queue : queue[i] = taken + i
  /\ \A w \in Worker : task[w] # NoTask => task[w] <= taken /\ task[w] \notin finished
  /\ \A k \in finished : k <= taken
  /\ \A k \in Task : k <= taken => k \in finished \/ \E w \in Worker : task[w] = k
  /\ \A v, w \in Worker : v # w /\ task[v] = task[w] => task[v] = NoTask

LEMMA HistoryStart == Init => History
BY DEF Init, History, taken, Task

LEMMA HistoryPush ==
  ASSUME TypeOK, History, NEW t \in Thread, Push(t)
  PROVE  History'
<1> USE ThreadPoolAssumption
<1>1. /\ accepted \in Nat /\ accepted' = accepted + 1 /\ accepted' \in Task
      /\ queue' = Append(queue, accepted') /\ queue \in Seq(Task)
      /\ task' = task /\ finished' = finished
  BY DEF Push, TypeOK, Task
<1>2. /\ Len(queue) \in Nat /\ DOMAIN queue = 1 .. Len(queue)
      /\ Len(queue') = Len(queue) + 1 /\ DOMAIN queue' = 1 .. Len(queue')
      /\ \A i \in 1 .. Len(queue) : queue'[i] = queue[i]
      /\ queue'[Len(queue) + 1] = accepted'
  BY <1>1, Enqueued, Queue
<1>3. taken' = taken
  BY <1>1, <1>2 DEF taken
<1>4. \A i \in DOMAIN queue' : queue'[i] = taken' + i
  BY <1>1, <1>2, <1>3 DEF History, taken
<1> QED BY <1>1, <1>2, <1>3, <1>4 DEF History

LEMMA HistoryTake ==
  ASSUME TypeOK, History, NEW w \in Worker, Take(w), task[w] = NoTask,
         accepted' = accepted, finished' = finished
  PROVE  History'
<1> USE ThreadPoolAssumption
<1>1. /\ accepted \in Nat /\ queue \in Seq(Task) /\ queue # <<>> /\ queue' = Tail(queue)
      /\ task' = [task EXCEPT ![w] = Head(queue)]
      /\ task \in [Worker -> Task \cup {NoTask}] /\ finished \subseteq Task
  BY DEF Take, TypeOK
<1>2. /\ Len(queue) \in Nat /\ Len(queue) > 0 /\ DOMAIN queue = 1 .. Len(queue)
      /\ Len(queue') = Len(queue) - 1 /\ DOMAIN queue' = 1 .. (Len(queue) - 1)
      /\ \A i \in 1 .. Len(queue) - 1 : queue'[i] = queue[i + 1]
      /\ Head(queue) = queue[1] /\ queue[1] \in Task
  <2>1. queue' \in Seq(Task)
    BY <1>1, Dequeued
  <2>2. Len(queue) \in Nat /\ Len(queue) > 0 /\ DOMAIN queue = 1 .. Len(queue)
    BY <1>1, Queue
  <2>3. DOMAIN queue' = 1 .. Len(queue')
    BY <2>1, Queue
  <2> QED BY <1>1, <2>2, <2>3, Dequeued
<1>3. taken \in Int /\ taken' = taken + 1 /\ queue[1] = taken + 1
  BY <1>1, <1>2 DEF taken, History
<1>4. task'[w] = taken + 1 /\ \A v \in Worker : v # w => task'[v] = task[v]
  BY <1>1, <1>2, <1>3
<1>5. \A k \in Task : k \in Int
  BY DEF Task
<1>6. taken + 1 \notin finished
  BY <1>3 DEF History
<1>7. \A i \in DOMAIN queue' : queue'[i] = taken' + i
  <2> TAKE i \in DOMAIN queue'
  <2>1. i \in 1 .. Len(queue) - 1 /\ i + 1 \in DOMAIN queue
    BY <1>2
  <2>2. queue[i + 1] = taken + (i + 1)
    BY <2>1 DEF History
  <2> QED BY <1>2, <1>3, <2>1, <2>2
<1>8. \A v \in Worker : task'[v] # NoTask => task'[v] <= taken' /\ task'[v] \notin finished'
  BY <1>1, <1>3, <1>4, <1>5, <1>6 DEF History
<1>9. \A k \in finished' : k <= taken'
  BY <1>1, <1>3, <1>5 DEF History
<1>10. \A k \in Task : k <= taken' => k \in finished' \/ \E v \in Worker : task'[v] = k
  <2> SUFFICES ASSUME NEW k \in Task, k <= taken', k \notin finished
               PROVE  \E v \in Worker : task'[v] = k
    OBVIOUS
  <2>1. CASE k <= taken
    <3>1. PICK v \in Worker : task[v] = k
      BY <2>1 DEF History
    <3>2. v # w
      BY <3>1 DEF NoTask, Task
    <3> QED BY <1>4, <3>1, <3>2
  <2>2. CASE ~(k <= taken)
    BY <1>3, <1>4, <1>5, <2>2
  <2> QED BY <2>1, <2>2
<1>11. \A u, v \in Worker : u # v /\ task'[u] = task'[v] => task'[u] = NoTask
  <2>1. ASSUME NEW v \in Worker, v # w, task'[v] = taken + 1 PROVE FALSE
    <3>1. task[v] = taken + 1 /\ task[v] # NoTask
      BY <1>2, <1>3, <1>4, <2>1 DEF NoTask, Task
    <3> QED BY <1>3, <3>1 DEF History
  <2> QED BY <1>4, <2>1 DEF History
<1>12. Len(queue') <= accepted'
  BY <1>1, <1>2 DEF History
<1> QED BY <1>7, <1>8, <1>9, <1>10, <1>11, <1>12 DEF History

LEMMA HistoryFinish ==
  ASSUME TypeOK, History, NEW w \in Worker, Finish(w)
  PROVE  History'
<1>1. /\ accepted' = accepted /\ queue' = queue /\ taken' = taken
      /\ task \in [Worker -> Task \cup {NoTask}] /\ task[w] # NoTask
      /\ finished' = finished \cup {task[w]}
  BY DEF Finish, TypeOK, taken
<1>2. task'[w] = NoTask /\ \A v \in Worker : v # w => task'[v] = task[v]
  BY <1>1 DEF Finish
<1> QED BY <1>1, <1>2 DEF History, NoTask, Task

LEMMA HistoryStep == TypeOK /\ History /\ [Next]_vars => History'
<1> SUFFICES ASSUME TypeOK, History, [Next]_vars PROVE History'
  OBVIOUS
<1>1. CASE UNCHANGED <<queue, accepted, task, finished>>
  BY <1>1 DEF History, taken
<1>2. ASSUME NEW t \in Thread, Step(t) PROVE History'
  <2>1. CASE Call(t) \/ Refuse(t) \/ Notify(t) \/ WakeSpuriously(t)
    BY <1>1, <2>1 DEF Call, Refuse, Notify, WakeSpuriously
  <2>2. CASE Enqueue(t) \/ EnqueueFromTask(t)
    BY <2>2, HistoryPush DEF Enqueue, EnqueueFromTask
  <2>3. CASE t \in Worker /\ Enter(t)
    <3>1. task[t] = NoTask
      BY <2>3 DEF Enter, TypeOK
    <3>2. CASE Take(t)
      BY <2>3, <3>1, <3>2, HistoryTake DEF Enter
    <3>3. CASE ~Take(t)
      BY <1>1, <2>3, <3>3 DEF Enter
    <3> QED BY <3>2, <3>3
  <2>4. CASE t \in Worker /\ Finish(t)
    BY <2>4, HistoryFinish
  <2> QED BY <1>2, <2>1, <2>2, <2>3, <2>4 DEF Step
<1>3. CASE Stop \/ NotifyAll \/ Join
  BY <1>1, <1>3 DEF Stop, NotifyAll, Join
<1>4. CASE UNCHANGED vars
  BY <1>1, <1>4 DEF vars
<1> QED BY <1>2, <1>3, <1>4, Steps

LEMMA HistoryInvariant == Spec => []History
BY TypeStart, TypeStep, HistoryStart, HistoryStep, PTL DEF Spec

\* Tasks start in the order in which enqueue accepted them.
THEOREM StartedInOrder == Spec => []Fifo
<1>1. TypeOK /\ History => Fifo
  BY Queue DEF TypeOK, History, Fifo, taken
<1> QED BY <1>1, TypeCorrect, HistoryInvariant, PTL

\* Every accepted task is in the queue, with one worker, or finished, and in
\* one of these places only: workerLoop neither loses nor repeats one.
THEOREM TasksRunOnce == Spec => []EachTaskOnce
<1>1. ASSUME TypeOK, History PROVE EachTaskOnce
  <2> USE <1>1, ThreadPoolAssumption
  <2>1. /\ queue \in Seq(Task) /\ Len(queue) \in Nat /\ DOMAIN queue = 1 .. Len(queue)
        /\ accepted \in 0 .. MaxTasks /\ taken \in Nat /\ accepted = taken + Len(queue)
    BY Queue DEF TypeOK, History, taken
  <2>2. \A k : k \in Range(queue) <=> k \in (taken + 1) .. accepted
    <3>1. ASSUME NEW k \in Range(queue) PROVE k \in (taken + 1) .. accepted
      BY <2>1 DEF Range, History
    <3>2. ASSUME NEW k \in (taken + 1) .. accepted PROVE k \in Range(queue)
      <4>1. k - taken \in DOMAIN queue
        BY <2>1
      <4>2. queue[k - taken] = k
        BY <2>1, <4>1 DEF History
      <4> QED BY <4>1, <4>2 DEF Range
    <3> QED BY <3>1, <3>2
  <2>3. \A k : k \in Running => k \in Task /\ k <= taken /\ k \notin finished
    BY DEF Running, TypeOK, History
  <2>4. \A k \in finished : k \in Task /\ k <= taken
    BY DEF TypeOK, History
  <2>5. \A k \in Task : k <= taken => k \in Running \cup finished
    BY DEF Running, History, Task, NoTask
  <2>6. \A k : k \in 1 .. accepted <=> k \in Range(queue) \cup Running \cup finished
    BY <2>1, <2>2, <2>3, <2>4, <2>5 DEF Task
  <2>7. Range(queue) \cap (Running \cup finished) = {}
    BY <2>1, <2>2, <2>3, <2>4 DEF Task
  <2>8. IsInjective(queue)
    BY <2>1 DEF IsInjective, History
  <2> QED BY <2>3, <2>6, <2>7, <2>8 DEF EachTaskOnce, History
<1> QED BY <1>1, TypeCorrect, HistoryInvariant, PTL

-----------------------------------------------------------------------------
(* The destructor *)

\* Workers leave only a stopped pool with an empty queue, and ~ThreadPool
\* outlives them.
Exits == /\ (\E w \in Worker : pc[w] = "exited") => stop /\ queue = <<>>
         /\ dtor = "destroyed" => \A w \in Worker : pc[w] = "exited"

LEMMA ExitsStep == TypeOK /\ Exits /\ [Next]_vars => Exits'
<1> SUFFICES ASSUME TypeOK, Exits, [Next]_vars PROVE Exits'
  OBVIOUS
<1> USE ThreadPoolAssumption
<1>1. ASSUME NEW t \in Thread, Step(t) PROVE Exits'
  <2>1. CASE Call(t) \/ Refuse(t)
    BY <2>1 DEF Call, Refuse, Goto, Exits, TypeOK, Thread
  <2>2. CASE Notify(t)
    BY <2>2 DEF Notify, Goto, At, Exits, TypeOK, Thread
  <2>3. CASE Enqueue(t) \/ EnqueueFromTask(t)
    BY <2>3 DEF Enqueue, EnqueueFromTask, Push, Goto, Exits, TypeOK, Thread
  <2>4. CASE t \in Worker /\ Enter(t)
    <3>1. CASE Take(t)
      BY <2>4, <3>1 DEF Enter, Take, Goto, Exits, TypeOK, Thread
    <3>2. CASE ~Take(t)
      BY <2>4, <3>2 DEF Enter, Goto, Exits, TypeOK, Thread
    <3> QED BY <3>1, <3>2
  <2>5. CASE t \in Worker /\ (Finish(t) \/ WakeSpuriously(t))
    BY <2>5 DEF Finish, WakeSpuriously, Goto, Exits, TypeOK, Thread
  <2> QED BY <1>1, <2>1, <2>2, <2>3, <2>4, <2>5 DEF Step
<1>2. CASE Stop \/ Join
  BY <1>2 DEF Stop, Join, Exits, TypeOK
<1>3. CASE NotifyAll
  BY <1>3 DEF NotifyAll, Exits, TypeOK, Thread
<1>4. CASE UNCHANGED vars
  BY <1>4 DEF vars, Exits
<1> QED BY <1>1, <1>2, <1>3, <1>4, Steps

LEMMA ExitsInvariant == Spec => []Exits
<1>1. Init => Exits
  BY DEF Init, Exits, Thread
<1> QED BY <1>1, TypeStart, TypeStep, ExitsStep, PTL DEF Spec

\* When ~ThreadPool returns, every task that enqueue ever accepted has run.
THEOREM QueueDrained == Spec => []DrainedWhenDestroyed
<1>1. ASSUME TypeOK, History, Exits PROVE DrainedWhenDestroyed
  <2> USE <1>1, ThreadPoolAssumption
  <2> SUFFICES ASSUME dtor = "destroyed" PROVE finished = 1 .. accepted
    BY DEF DrainedWhenDestroyed
  <2>1. \A w \in Worker : pc[w] = "exited" /\ task[w] = NoTask
    BY DEF Exits, TypeOK
  <2>2. queue = <<>>
    BY <2>1 DEF Exits
  <2>3. taken = accepted /\ accepted \in 0 .. MaxTasks
    BY <2>2 DEF taken, TypeOK
  <2>4. \A k \in Task : k <= accepted => k \in finished
    BY <2>1, <2>3 DEF History, NoTask, Task
  <2>5. \A k \in finished : k \in Task /\ k <= accepted
    BY <2>3 DEF History, TypeOK
  <2>6. \A k \in finished : k \in 1 .. accepted
    BY <2>3, <2>5 DEF Task
  <2>7. \A k \in 1 .. accepted : k \in finished
    BY <2>3, <2>4 DEF Task
  <2> QED BY <2>6, <2>7
<1> QED BY <1>1, TypeCorrect, HistoryInvariant, ExitsInvariant, PTL

-----------------------------------------------------------------------------
(* Wakeups *)

\* The threads on their way to the queue or to notify_one.
Awake == At("ready") \cup At("woken") \cup At("notifying")

LEMMA Count ==
  ASSUME NEW S, S \subseteq Thread, NEW T, T \subseteq Thread
  PROVE  /\ Cardinality(S) \in Nat
         /\ S \subseteq T => Cardinality(S) <= Cardinality(T)
         /\ \A t \in S : Cardinality(S \ {t}) = Cardinality(S) - 1
         /\ \A t : t \notin S => Cardinality(S \cup {t}) = Cardinality(S) + 1
<1>1. IsFiniteSet(Thread)
  BY ThreadPoolAssumption, FS_Union DEF Thread
<1>2. IsFiniteSet(S) /\ IsFiniteSet(T)
  BY <1>1, FS_Subset
<1> QED BY <1>2, FS_CardinalityType, FS_Subset, FS_AddElement, FS_RemoveElement

LEMMA WakeupsStep == TypeOK /\ NoLostWakeup /\ [Next]_vars => NoLostWakeup'
<1> SUFFICES ASSUME TypeOK, NoLostWakeup, [Next]_vars, At("waiting")' # {}
             PROVE  Len(queue') <= Cardinality(Awake') /\ dtor' \in {"alive", "stopped"}
  BY DEF NoLostWakeup, Awake
<1> USE ThreadPoolAssumption
<1>0. TypeOK'
  BY TypeStep
<1>1. /\ Awake \subseteq Thread /\ Awake' \subseteq Thread
      /\ Cardinality(Awake) \in Nat /\ Cardinality(Awake') \in Nat
      /\ Len(queue) \in Nat /\ Len(queue') \in Nat
  <2>1. Awake \subseteq Thread /\ Awake' \subseteq Thread
    BY DEF Awake, At
  <2>2. queue \in Seq(Task) /\ queue' \in Seq(Task)
    BY <1>0 DEF TypeOK
  <2> QED BY <2>1, <2>2, Count, Queue
\* Most steps leave the queue alone and let nobody go.
<1>2. ASSUME At("waiting") # {}, Len(queue') <= Len(queue), Awake \subseteq Awake',
             dtor' = dtor \/ dtor' = "stopped"
      PROVE  Len(queue') <= Cardinality(Awake') /\ dtor' \in {"alive", "stopped"}
  <2>1. Cardinality(Awake) <= Cardinality(Awake')
    BY <1>1, <1>2, Count
  <2>2. Len(queue) <= Cardinality(Awake) /\ dtor \in {"alive", "stopped"}
    BY <1>2 DEF NoLostWakeup, Awake
  <2> QED BY <1>1, <1>2, <2>1, <2>2
<1>3. ASSUME NEW t \in Thread, Call(t) \/ Refuse(t)
      PROVE  At("waiting") # {} /\ Awake \subseteq Awake'
  BY <1>3 DEF Call, Refuse, Goto, At, Awake, TypeOK
<1>4. ASSUME NEW t \in Thread, Push(t), pc[t] \in {"calling", "running"}
      PROVE  Len(queue') <= Cardinality(Awake') /\ dtor' \in {"alive", "stopped"}
  <2>1. At("waiting") # {} /\ t \notin Awake /\ Awake' = Awake \cup {t}
    BY <1>4 DEF Push, Goto, At, Awake, TypeOK
  <2>2. Cardinality(Awake') = Cardinality(Awake) + 1
    BY <1>1, <2>1, Count
  <2>3. Len(queue') = Len(queue) + 1
    <3>1. accepted' \in Task /\ queue \in Seq(Task)
      BY <1>4 DEF Push, TypeOK, Task
    <3> QED BY <1>4, <3>1, Enqueued DEF Push
  <2>4. Len(queue) <= Cardinality(Awake) /\ dtor \in {"alive", "stopped"}
    BY <2>1 DEF NoLostWakeup, Awake
  <2>5. dtor' = dtor
    BY <1>4 DEF Push
  <2> QED BY <1>1, <2>2, <2>3, <2>4, <2>5
<1>5. ASSUME NEW t \in Thread, Notify(t)
      PROVE  Len(queue') <= Cardinality(Awake') /\ dtor' \in {"alive", "stopped"}
  <2>1. At("waiting") # {}
    BY <1>5 DEF Notify, Goto, At, TypeOK
  <2>2. PICK w \in At("waiting") :
          pc' = [pc EXCEPT ![t] = IF t \in Worker THEN "running" ELSE "idle",
                           ![w] = "woken"]
    BY <1>5, <2>1 DEF Notify
  <2>3. t \in Awake /\ w \in Thread /\ w \notin Awake /\ w # t
    BY <1>5, <2>2 DEF Notify, At, Awake
  <2>4. Awake' = (Awake \ {t}) \cup {w}
    BY <2>2, <2>3 DEF At, Awake, TypeOK
  <2>5. Cardinality(Awake') = Cardinality(Awake)
    <3>1. Cardinality(Awake \ {t}) = Cardinality(Awake) - 1
      BY <1>1, <2>3, Count
    <3>2. w \notin Awake \ {t} /\ Awake \ {t} \subseteq Thread
      BY <1>1, <2>3
    <3>3. Cardinality((Awake \ {t}) \cup {w}) = Cardinality(Awake \ {t}) + 1
      BY <3>2, Count
    <3> QED BY <1>1, <2>4, <3>1, <3>3
  <2>6. Len(queue) <= Cardinality(Awake) /\ dtor \in {"alive", "stopped"}
    BY <2>1 DEF NoLostWakeup, Awake
  <2> QED BY <1>5, <2>5, <2>6 DEF Notify
<1>6. ASSUME NEW w \in Worker, Enter(w)
      PROVE  Len(queue') <= Cardinality(Awake') /\ dtor' \in {"alive", "stopped"}
  <2>1. CASE Take(w)
    <3>1. At("waiting") # {} /\ w \in Awake /\ Awake' = Awake \ {w}
      BY <1>6, <2>1 DEF Enter, Take, Goto, At, Awake, TypeOK, Thread
    <3>2. Cardinality(Awake') = Cardinality(Awake) - 1
      BY <1>1, <3>1, Count
    <3>3. Len(queue') = Len(queue) - 1
      BY <2>1, Dequeued DEF Take, TypeOK
    <3>4. Len(queue) <= Cardinality(Awake) /\ dtor \in {"alive", "stopped"}
      BY <3>1 DEF NoLostWakeup, Awake
    <3>5. dtor' = dtor
      BY <1>6 DEF Enter
    <3> QED BY <1>1, <3>2, <3>3, <3>4, <3>5
  <2>2. CASE ~Take(w) /\ ~stop
    <3>1. queue' = <<>> /\ dtor' = dtor /\ dtor = "alive"
      BY <1>6, <2>2 DEF Enter, TypeOK
    <3> QED BY <1>1, <3>1
  <2>3. CASE ~Take(w) /\ stop
    <3>1. queue' = <<>> /\ dtor' = dtor
      BY <1>6, <2>3 DEF Enter
    <3>2. At("waiting") # {}
      BY <1>6, <2>3 DEF Enter, Goto, At, TypeOK
    <3>3. dtor \in {"alive", "stopped"}
      BY <3>2 DEF NoLostWakeup
    <3> QED BY <1>1, <3>1, <3>3
  <2> QED BY <2>1, <2>2, <2>3
<1>7. ASSUME NEW w \in Worker, Finish(w) \/ WakeSpuriously(w)
      PROVE  At("waiting") # {} /\ Awake \subseteq Awake'
  BY <1>7 DEF Finish, WakeSpuriously, Goto, At, Awake, TypeOK, Thread
<1>8. ASSUME NEW t \in Thread, Step(t)
      PROVE  Len(queue') <= Cardinality(Awake') /\ dtor' \in {"alive", "stopped"}
  <2>1. CASE Call(t) \/ Refuse(t)
    BY <1>1, <1>2, <1>3, <2>1 DEF Call, Refuse
  <2>2. CASE Enqueue(t) \/ EnqueueFromTask(t)
    BY <1>4, <2>2 DEF Enqueue, EnqueueFromTask
  <2>3. CASE t \in Worker /\ (Finish(t) \/ WakeSpuriously(t))
    BY <1>1, <1>2, <1>7, <2>3 DEF Finish, WakeSpuriously
  <2> QED BY <1>5, <1>6, <1>8, <2>1, <2>2, <2>3 DEF Step
<1>9. CASE Stop
  <2>1. At("waiting") # {} /\ Awake \subseteq Awake'
    BY <1>9 DEF Stop, At, Awake
  <2> QED BY <1>1, <1>2, <1>9, <2>1 DEF Stop
\* notify_all leaves nobody waiting, and join comes after it.
<1>10. CASE NotifyAll
  BY <1>10 DEF NotifyAll, At
<1>11. CASE Join
  <2>1. At("waiting") # {} /\ dtor = "joining"
    BY <1>11 DEF Join, At
  <2> QED BY <2>1 DEF NoLostWakeup
<1>12. CASE UNCHANGED vars
  BY <1>1, <1>2, <1>12 DEF vars, At, Awake
<1> QED BY <1>8, <1>9, <1>10, <1>11, <1>12, Steps

\* notify_one after the unlock loses no wakeup: while a worker sleeps, each
\* queued task has a worker or a notification on its way, and nobody sleeps
\* through the destructor's notify_all.
THEOREM WakeupsAreNotLost == Spec => []NoLostWakeup
<1>1. Init => NoLostWakeup
  BY DEF Init, NoLostWakeup, At
<1> QED BY <1>1, TypeStart, TypeStep, WakeupsStep, PTL DEF Spec

=============================================================================
