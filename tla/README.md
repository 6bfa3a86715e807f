# Verification of the dating application's server

TLA+ models of the parts of this repository that are hard to test: the connection pool and
the thread pool, the database work of concurrent requests, and the four matching
algorithms with the routes that run them. TLC checks them on small instances; TLAPS proves
the most important results for every value of the constants.

Paths are relative to `src/`. `PROJECT.json` gives the source lines of every definition
(`map`), the hazards each property is about (`hazards`), the runs, the theorems, and for
every property a plausible bug that it detects (`mutants`; the `\* Mutant` operators in
the modules).

## 1. Inventory

| component | state | operations | hard behaviour |
|---|---|---|---|
| **Connection pool** `server/conn_pool.{h,cpp}` | `all_`, `available_`, `mutex_`, `cv_`; libpq's status of each connection | constructor, `acquire`/`acquireWithTimeout` (wait, deadline, reconnect), `release`, `~ConnGuard`, destructor | notification after the unlock, deadlines that race it, spurious wakeups, threads that hold one connection and ask for another, server outages |
| **Background thread pool** `server/thread_pool.h` | `queue_`, `stop_`, `mutex_`, `cv_`, workers | `submit`, `enqueue`, `workerLoop`, destructor | the destructor against clients and against tasks that enqueue tasks; notification after the unlock |
| **Event registration** `db_manager.cpp` 492-677, `schema.sql` | `events`, `event_participants`, row lock | `registerForEvent`, `createEvent` | the capacity is counted in a snapshot older than the lock; error paths must roll back |
| **Match lifecycle and chat** `db_manager.cpp` 806-977, `schema.sql` 349-458 | a row of `matches`, `messages` | `acceptMatch`, `declineMatch`, `getMatch`, `sendMessage`, trigger `sync_match_status` | two sides race; `acceptMatch` needs two connections; `sendMessage` trusts an earlier read |
| **Questionnaires and algorithm runs** `db_manager.cpp` 310-376, 681-773 | rows with `is_current`, `users.has_completed_questionnaire` | `submitQuestionnaire`, `persistAlgorithmRun` | overlapping replacements of "the current row", a unique index, lock cycles |
| **Gale-Shapley** `src/gale_shapley.*` | queue of free proposers, `next`, `matchA_`, `matchB_` | `run`, `isStable` | correctness of the result over long runs, index bounds |
| **Blossom** `src/blossom.*` | `match_`; labels, predecessors, bases, queue of a search | `addCompatiblePair`, `augment` (`lca`, `markPath`), `maxMatching` | contraction of odd cycles |
| **Hopcroft-Karp** `src/hopcroft_karp.*` | `matchLeft_`, `matchRight_`, levels, edge positions | `addCompatiblePair`, `maxMatching` (`bfs`, `dfs`) | searches of a phase use levels that earlier ones made stale; phases must end |
| **Hungarian** `src/hungarian.*` | potentials `u`, `v`, assignment `p`, path `way` | `solve` | optimality over long runs; a large constant as infinity |
| **Runners and comparison** `server/server.cpp` 67-149, 180-256, 609-680 | a constant table of scores | `buildMenPrefs`, `buildWomenPrefs`, the four runners, `matchesToJson`, `/api/algorithms/*` | scores at the threshold, equal scores, vertex numbers translated back |
| **User accounts** `db_manager.cpp` 84-306 and their routes | a row of `users` | `registerUser`, `loginUser`, `listUsers`, `getUser`, `updateUser`, `deleteUser` | `deleteUser` is two autocommitted UPDATEs |
| **Listings and pages** `db_manager.cpp` 156-203, 891-944 | none of their own; a client keeps a page number or a cursor | pages of `listUsers` and `getMessages` | offsets and cursors while rows are stored and deleted |
| **Command-line demo** `main.cpp` | the results of the four algorithms | its copies of the runners, `analysis` | notes about four results whose conditions look at three of them |
| **Other routes** `server/server.cpp` | none | HTTP in, JSON out | match, event and message routes are stubs: they answer with a placeholder (200; 501 for `POST /api/events`) and call nothing |
| Schema, web page, build | – | – | – |

**Interaction.** A request thread of Crow calls a method of `DBManager`. The method takes
a connection from the pool (`ConnGuard` gives it back when it goes out of scope), sends
statements to PostgreSQL, and returns a value or an error; exceptions of the pool unwind
through it. All other shared state is in PostgreSQL, under READ COMMITTED. The algorithms
are sequential and share nothing; a request runs them on objects of its own. `main`
creates a `ThreadPool` of two workers and submits nothing to it yet.

**What makes each correct.** *Connection pool*: a connection has one user, none is lost on
any path, nobody sleeps past an idle connection, every call returns. *Thread pool*: an
accepted task runs exactly once, in order, also when the pool is being destroyed, and the
destructor returns. *Registration*: capacity, no registration for a closed event, honest
"full" answers. *Matches*: identities and chat only after both accepted; no accept is
lost. *Current rows*: a reader always finds a current row. *Gale-Shapley*: stable and
proposer-optimal. *Hopcroft-Karp*, *Blossom*: a valid matching of maximum size.
*Hungarian*: an assignment of the greatest total score. *Runners*: each algorithm keeps
its guarantee on the input the runner builds for it and in the report made of its result.
*User accounts*: a deleted account has no credentials, DELETE's answers can be trusted,
and nothing undoes an erasure. *Pages*: a walk of the messages shows each one once; a walk
of the users drifts no further than the changes of the table explain. *Demo*: its notes are
true of all four results.

## 2. Modules

| module | models | proofs |
|---|---|---|
| `ResourcePool` | what the connection pool promises: free resources, owned resources, `Stock`, `Take`, `Give` | |
| `ConnPool` | the connection pool; implements `ResourcePool` | `ConnPoolProofs` |
| `ThreadPool` | the thread pool with its destructor | `ThreadPoolProofs` |
| `EventRegistration` | `registerForEvent` and the writers of what it reads | `EventRegistrationProofs` |
| `MatchLifecycle` | accept, decline, read, send, over an instance of `ResourcePool` | `MatchLifecycleProofs` |
| `CurrentRows` | `submitQuestionnaire` and `persistAlgorithmRun` | `CurrentRowsProofs` |
| `PageWalks` | the state of `Pages` and what the listings promise | |
| `Pages` | the pages of `getMessages` and `listUsers`, the clients that walk them, the writers | `PagesProofs` |
| `GaleShapley` | `run`, `isStable` | `RunnersProofs` |
| `Blossom` | `maxMatching` and all it calls | `RunnersProofs`, for the runner's graphs |
| `HopcroftKarp` | `maxMatching` with `bfs` and `dfs` | `RunnersProofs` |
| `Hungarian` | `solve` | `RunnersProofs` |
| `Runners` | the runners, the algorithm routes and the demo's notes, over instances of `GaleShapley`, `HopcroftKarp`, `Hungarian`, `Blossom` | `RunnersProofs` |
| `UserAccounts` | the user routes and their methods | `UserAccountsProofs` |
| `MCEventRegistration`, `MCUserAccounts` | symmetry sets for TLC | |
| `MCAccountsAndPages` | `UserAccounts` and `Pages`, side by side | |
| `MCBlossom`, `MCRunners` | Blossom's input graphs, the tables of scores | |

### How they correspond to the code

**ConnPool.** One action per critical section of `mutex_`. Variables carry the names of
the members (`all`, `available`) and of the local `conn`; `pc` says where a thread is in
`acquireWithTimeout` or `release`. `Acquire` is the first evaluation of `wait_for`'s
predicate, `Expire`, `WakeUnnotified` and `Recheck` are the wait, `Pop` the pop under the
mutex, `CheckStatus`/`Reset`/`HandOver`/`ReleaseFailed` the code after the unlock.
`release` is `ReleaseGuard` (the guard dies), `PushBack` (under the mutex) and `Notify`
(after it). Threads may hold several connections because `acceptMatch` does. `Destroy` is
the destructor: `main` reaches it when no handler is left, and the server may then be
started again. Promised in `ResourcePool` as `Clear`. The server
may stop, start and drop connections at any time; `status` is what `PQstatus` answers,
which an idle connection's death does not change.

**ThreadPool.** Tasks are numbered in the order they are accepted; a task may enqueue
another (`EnqueueFromTask`). `Enter` is one pass through the mutex in `workerLoop`: take a
task, go to sleep, or exit. `Stop`, `NotifyAll`, `Join` are the destructor. Calls on a
destroyed object are undefined behaviour in C++; here they take no further step.

**EventRegistration.** A session is a connection and its request; each SQL statement is an
action, the one with `FOR UPDATE` two: `Select` takes the snapshot, in which the
`COUNT(*)` subquery is evaluated, `Lock` returns with the row in its latest version.
`Lost` is a broken connection, with both outcomes when COMMIT was under way.

**MatchLifecycle.** Every statement commits by itself. `Update` is an UPDATE with the
BEFORE trigger and the CHECK. `acceptMatch` goes on to `refetch`: it acquires a second
connection for `getMatch`; `TimesOut` unwinds through the first guard. `sendMessage`'s
documented precondition (the caller has read "accepted" with `getMatch`) is the guard of
`Begin`.

**CurrentRows.** One user, or one event and algorithm. `MarkOld` takes the snapshot of the
marking UPDATE, `MarkRow` visits its rows one at a time: it waits for a transaction that
has the row locked and skips the row if that one made it not current. `Insert` waits for,
and then obeys, `uq_questionnaire_current`, which only the questionnaire table has.
`BreakDeadlock` is PostgreSQL's answer to a cycle of waits; `Lost` is any statement's
failure.

**Pages.** A row is its key: a message's id, or the rank of a user's `registered_at`. Both
are fixed when the INSERT begins, so rows appear in another order than that of their keys
(`Insert`, `Commit`). A page is one SELECT, hence one action, and the client's next request
depends on it: the cursor on its last message, the page number on how many there were. A
failed page is asked for again. `getMessages` has no route yet; its client follows
`db_manager.h:162-168`.

**GaleShapley.** `Propose` is one round of the loop; `Accept`, `Swap`, `Reject` are its
branches. **Blossom.** One action per iteration of each loop, with the code's variables
(the parameters of `markPath` share the variables of `lca`'s). **HopcroftKarp.** `bfs` is
one action, since only its levels and its answer are read; the calls of `dfs` are an
explicit stack, one action per iteration, and a successful search unwinds in one step
(`Augment`), since nothing comes between its returns. **Hungarian.** One action per row,
per column of a row's search, and per step of the flip.

**Runners.** `todo` holds the algorithms a request has still to run: one, or all four for
the comparison; `results` the reports. While an algorithm is the next of `todo` its own
`Next` runs; when it is `Done` the runner reports it. Preference lists are sorted by
score, and lists of equal scores may come in any order, as `std::sort` leaves them. Names,
texts and the average are left out. `analysis` is the demo's: the notes it prints for given
results.

**UserAccounts.** A session is a request's handler. Each method is one autocommitted
statement, hence one action; `deleteUser` is `Erase` and `SoftDelete`. A statement whose
connection breaks may have been carried out or not (`Unknown`). `real_name`, `email` and
`password_hash` are written and cleared together, so `email` stands for the three;
`profile` says whether `bio` or `interests` hold something; of `deleted_at` the model keeps
only whether it is set, so it does not show that the second of two overlapping DELETEs
writes a later time over the first one's. `Crash` restarts the server, and the table stays.

## 3. Runs

| run | instance | question and answer |
|---|---|---|
| `ConnPool` | 3 threads, 2 connections, at most 2 held by a thread | No connection shared, lost or slept past; `ResourcePool` implemented; every call returns. |
| `ThreadPool` | 3 workers, 2 clients, 4 tasks | Each task once, all of them before the destructor returns; no lost wakeup; tasks run; the destructor returns. |
| `EventRegistration` | 2 sessions, 3 users, 1 place | What the row lock does guarantee; each registration is answered. |
| `EventRegistration_capacity` | same | *Violation*: two users get the last place. |
| `MatchLifecycle` | 2 threads, 2 connections, 1 message | Status and flags agree; no accept is lost; chat only after acceptance; no leak; calls return although accepts wait for each other. |
| `MatchLifecycle_decline` | same | *Violation*: a decline that reports success leaves the match accepted. |
| `CurrentRows` | 3 sessions, 2 versions, 4 rows | A current row is never missing, at most one per session is current, and calls return. |
| `Blossom` | all 32768 graphs on 6 vertices, edges added in lexicographic order | Valid, maximum, in bounds, ends. |
| `Blossom_nested` | one graph on 10 vertices | *Violation*: the result is not a matching. |
| `Runners` | 343 tables of scores, 3 a side, each route | Each report keeps its algorithm's guarantee, and the demo's notes are true of it; the states of Hopcroft-Karp and Hungarian are sound; each request is answered. |
| `AccountsAndPages`, its accounts | 3 handlers, 2 accounts, 2 addresses | Credentials go first; DELETE's answers hold; erased for good. |
| `AccountsAndPages`, its pages | 6 rows, 2 on a page | A walk of the messages is complete and repeats nothing; one of the users misses and repeats no more than was deleted and added. |
| `UserAccounts_erasure` | the accounts' | *Violation*: a deleted account keeps a bio or interests. |

`UserAccounts` and `Pages` share no state and have safety properties only, so one run
explores each while the other rests in its initial state; their interleavings would add
nothing to either.

**Bounds, and why they are enough.** *ConnPool*: three threads and two connections give
waiters, a releaser and an overtaking caller at the same time; holding two gives mutual
waits. *ThreadPool* (`MaxTasks` = 4): more tasks than workers, and tasks that enqueue.
*EventRegistration*: the second session is enough to overbook one place by one, which
`OverbookingBounded` says is the worst for two; the third user makes a registration that
is refused. *MatchLifecycle*: two accepts exhaust two connections; `MaxMessages` = 1 since
only the first message is a new situation. *CurrentRows* (`MaxRows` = 4): two overlapping
rows, a third session that clears or joins them, and a later one. *Pages* (`MaxRows` = 6,
`Limit` = 2): walks of three pages, with a row before, on and after each of them; the
theorems cover every number and size. `GaleShapley` is checked through `Runners` (lists of
three have chains of rejections); the theorems about all four
algorithms cover every number of people and every table. *Blossom* with six vertices has
one contraction per search and paths through it, but not the nested ones: a result for six
vertices says nothing of ten, as `Blossom_nested` shows. *Runners*: with three a side an
augmenting path can have five edges and a search of Hopcroft-Karp a nested dead end; the
tables (`SparseTables`) make men compete for few women, have scores at the threshold (65)
and equal scores, and leave some men single. `Blossom` runs there on bipartite graphs
only, which have no odd cycles. *UserAccounts*: two overlapping deletions and a third
request between their statements; the second account and address show that an address
becomes free again.

**Deadlock** is checked except where the system, or the bound, may stop it: `ThreadPool`
ends when the pool is destroyed, the algorithms and the request of `Runners` end, and
`CurrentRows` stops when its `MaxRows` rows are inserted.

**Symmetry** (sessions and users; handlers) is used in `EventRegistration_capacity`,
`AccountsAndPages` and `UserAccounts_erasure`, which check safety only; runs with liveness
properties use none.

### Fairness

| specification | assumed | why the code justifies it |
|---|---|---|
| `ConnPool` | each thread's next step, its deadline and its wakeup after the deadline are weakly fair | the OS schedules threads; mutexes are held for a few instructions; `wait_for` returns after its deadline. No fairness of `notify_one` or of the choice among waiters: the deadline ends a wait that others win. Nobody is obliged to give a connection back: only the steps of a release that has begun are fair. |
| `ThreadPool` | threads inside `enqueue`, workers and the destructor are weakly fair | as above, and a task that returns. Nothing obliges a client to call or the owner to destroy. |
| `EventRegistration` | sessions weakly fair, `Lock` strongly | PostgreSQL queues the waiters of a row lock. |
| `MatchLifecycle` | threads weakly fair | the clock reaches every timeout. |
| `CurrentRows` | sessions strongly fair | row-lock queue, as above; the deadlock detector runs after `deadlock_timeout`. |
| algorithms, `Runners` | next step weakly fair | sequential code. |
| `UserAccounts`, `Pages` | none | safety only: each method is a bounded sequence of statements. |

`Lost`, outages, spurious wakeups and new calls are never assumed to happen.

## 4. Proofs

The proofs assume the named assumptions of the modules only: finite sets of threads or
sessions, numbers that are natural, at least one worker and one session, a page of 1 to 100
rows, scores of 0 to 100. They hold for any number of threads, connections, tasks, users,
accounts, messages and people. Beside the properties of the runs they establish the type
invariants of their modules (which no run repeats), that tasks are started in order
(`Fifo`), that a session past its SELECT holds the row lock (`LockProtects`), that proposal
lists are not overrun (`NextInBounds`), that partners of group B only improve (`Improves`),
that the two match arrays agree (`MatchesAgree`), and that Blossom's searches meet no odd
cycle on the runner's graphs (`NoBlossoms`). `Maximum("Hopcroft-Karp")`,
`Maximum("Blossom")` and `GreatestTotal`, which have theorems of their own, are conjuncts
of `MaximumCardinality` and `OptimalScore`.

**ConnPoolProofs.** `TypeOK` is inductive by itself. For `Exclusive` and `Conserved` the
invariant `Own` is their conjunction; as sets (`OwnAsSets`) it says that idle connections
and each thread's connections partition `all`, so each step of the pool is `Stock`,
`Take`, `Give`, `Clear` or a stutter of `ResourcePool`. This is `Implementation`, and it is also
how `Own` is shown to be preserved. `NoLostWakeup` needs `Filled` (nobody waits while the
constructor runs); each action changes the number of idle connections and of awake threads
by at most one, and a cardinality lemma does the counting.

**EventRegistrationProofs.** `LockHeld` is inductive with `TypeOK`. The capacity bound
needs `BookInv`: sessions past the check counted before the last place went
(`CheckedArePending`), and once the event is full, participants plus pending sessions stay
within the bound (`PendingBound`). A commit moves one session from pending to
participants. `ClosedEventsDoNotGrow` follows from the status being frozen while a session
that found it open holds the row lock. `FullIsFull` needs that no session's count is
above the number of participants (`CountsAreOld`): registrations are not removed, so an old
count can only be too small.

**ThreadPoolProofs.** `History` says that the tasks no longer queued are exactly those
with a worker or finished; with `Fifo` the queue is the interval of the newest tasks,
which gives `EachTaskOnce`. `Exits` says that a worker exits only when the pool is stopped
and the queue empty, and then nothing enters the queue again: with `History`,
`DrainedWhenDestroyed`. `NoLostWakeup` counts as in the connection pool.

**RunnersProofs** is about the algorithms as the routes run them: `Runners` starts an
instance of each on the inputs its runner builds, and no step but those of the instance
touches its variables (`RunsGaleShapley`, `RunsHopcroftKarp`, `RunsHungarian`,
`RunsBlossom`).

*Gale-Shapley.* `GSInv` adds to the types and to `MatchesAgree` that the queue holds
exactly the unmatched proposers (`FreeIsUnmatched`), that everyone a proposer has proposed
to is matched, to somebody at least as good (`Proposed`), and that a matched proposer is
with the last one it proposed to (`Current`). A free proposer that had been through its
list would have everyone of B matched, so by pigeonhole everyone of A (`ListsNotOverrun`).
At the end nobody is free; a pair that preferred each other would contradict `Proposed`
(`StableResult`). For `Optimality`, `KeepsStablePartners` says that nobody has been
rejected by a partner it has in some stable matching: the rejecting one would, in that
matching, form a blocking pair with whom it preferred. `NobodyBlocks` carries stability
from the lists to the scores and to the report: in every list the sort may produce, a
better score comes first. That the loop ends is not stated there: `ListsNotOverrun` bounds
its rounds by n², and `Answered` checks it. The loop of the constructor that fills `rankA_`
and `rankB_` is a definition by choice (`rank`), with lemmas about it.

*Hopcroft-Karp.* `MatchingIsValid` is not inductive: a successful search exchanges partners
along its whole stack. `HKInv` adds that the stack is an alternating path
(`AlternatingPath`): it begins at a free vertex, each call is for the partner of the vertex
its caller looks at, and the levels increase along it. Searches of the same phase have made
the levels out of date, but as they increase no vertex is on the stack twice, so `Augment`
exchanges the partners of distinct vertices. The phases end when a `bfs` finds no free right
vertex. Then the vertices it has reached are closed under alternating steps
(`ReachedIsClosed`), so their neighbours and the left vertices it has not reached cover
every edge, and they are as many as the matching has couples. No matching is larger than
such a cover (`NoLargerMatching`), and `HopcroftKarpIsMaximum` says it of the report. The
adjacency lists and `CompatiblePairs` are folds; `FoldExists` says that such a recursion
has a solution, and `PairsFound` and `AdjacencyLists` say what these two compute.

*Hungarian.* `HungInv` has a part for each place of `solve()`. Between rows (`RowsSoFar`)
the rows so far are assigned and the potentials certify them. During a search (`Growing`)
each `minv[j]` is the least reduced cost between column j and the rows of the tree, and
`way` leads back to the dummy column along tight pairs (an order of the columns shows that
it has no cycle). During a flip (`Flipping`) one column is the hole, and everything holds
but for it. `SearchStep` is the core: delta is the least reduced cost to leave the tree, so
the shift keeps every reduced cost nonnegative and makes one more pair tight. The bounds on
the potentials are part of the invariant; with them every reduced cost of a search's first
step is below `INF`, whatever the number of people, so no column keeps the initial minimum.
(The model's integers are unbounded; the code's would overflow in the dummy column's
potential only beyond twenty million people.) `HungarianIsOptimal` sums the certificate: no assignment
scores more than the potentials, and the one found scores exactly that. `SumInAnyOrder`,
`SumsCompare`, `SumsAdd` and `SumReindexed` are what it needs to know of `MapThenSumSet`.

*Blossom.* The theorems are about `maxMatching` on the graphs `runBlossom` builds, men on one
side and women on the other; on general graphs they are false for this code (section 5).
`BlInv` has a part for each place of a search. The labelled vertices are a tree, whose edges
lead up an order `ord` to the source (`Tree`), so no walk along `pred` is endless or takes
the vertex -1; outer vertices were reached from their mates (`Alternating`), and wait in the
queue or have only inner neighbours (`Frontier`). All outer vertices are on the source's
side, so no edge joins two of them: `lca` and `markPath` are never called
(`NoBlossomsFound`). A flip meets the couples above its free end as the search found them,
and all others intact (`FlipPath`). `BlossomIsValid` and `BlossomWalksInBounds` follow.
For the size, the code never looks back at a vertex whose search has failed, and searches
from the women too, whose trees run the other way. `Closed` remembers a failed search: a
set `D` of men, with every man who was given up, from which an alternating step leads only
into `D`. The tree of a search that fails is added to `D`; a search from a man that succeeds
ends outside it and never passes through it; a search from a woman does not find a way into
it (`NotIntoClosed`) and, as all the men have been searched from by then, always fails. So
at the end the neighbours of `D` and the other men cover every edge, with as many vertices as there are
couples (`NoLargerThanBlossoms`, `BlossomIsMaximum`, `BlossomMaximumWhenDone`).

*Comparison.* A report may leave people single, so its total is a sum over fewer men than an
assignment's. `Completed` says that any matching can be completed to an assignment: it is an
injection of the matched men, and as many women as men are left over. Scores are not
negative, so the assignment has at least its total (`PartialScoresLess`), and the Hungarian
one at least the assignment's: `NoReportScoresMore`. `NotesHold` needs that, and that
Hopcroft-Karp and Blossom, both being of maximum size, match the same number: the notes look
at the first and speak of both.

Where an induction over data is needed (folds, sums, the waves of `bfs`), a smallest
counterexample takes its place: a set of naturals, or of subsets of a finite set, has a
least element (`LeastElement`, `LeastSet`).

**MatchLifecycleProofs.** `Inv` is `TypeOK`, `AcceptedIffBoth`, `AcceptancesCount` and three
facts: a row that was inserted satisfies the CHECK (`RowInserted`), a thread before its `acquire` owns nothing (`GuardsReleased`),
and whoever has read "accepted", or sends, is right about it (`SendersKnow`). The lemma
`UpdateAgrees` says what the trigger makes of an UPDATE: it repairs the status of a row
with both flags, and no UPDATE takes a flag away. So what a sender has read cannot become
false, and `ChatAfterAcceptance` follows. `AcceptancesCount` is inductive with the others:
an accept's UPDATE passes the CHECK whatever the row's status (`AcceptSetsFlag`), and no
later one removes its flag (`NoAcceptLost`).

**CurrentRowsProofs.** Counting current rows is not inductive: what bounds them is that each
belongs to a session, the one that inserted it, and that this session's next transaction
will mark it. `OneEach` is that injection; it says that a transaction past its snapshot has
marked its session's row or has still to visit it. `NoMoreThanSessions` follows.
`ReadersFindARow` needs `HasRow` (a transaction that reaches COMMIT has inserted a row of its
own, so what it marked is replaced in the same step) and `FlagAgrees`.

**PagesProofs.** For a walk of the messages (`MessagesWalk`): the cursor is the oldest
message shown, and a message of the beginning that has not been shown is older than it. A
message that commits late with a smaller id may appear later on, but it was not there at
the beginning. For a walk of the users (`UsersWalk`): a deletion moves each later row one
place forward, so at most one of them across the offset, where it is missed; an insertion
moves at most one back, where it will be repeated. The lemmas about ranks say so, and
`DriftBounded` counts.

**UserAccountsProofs.** `Inv` is `TypeOK`, `CredentialsErasedFirst` and `SessionsKnow`: an
account that is being deleted by some session has lost its credentials and is not absent,
and what a session has answered 204 or 404 about is deleted. `SessionsKnow` is what makes
`SoftDelete` safe: the statement itself does not look at the columns the first one
cleared. `DeletionIsFinal` and `ErasedForGood` follow from it.

**Only model-checked.** All liveness (`CallsReturn`, `TasksRun`, `DestructorReturns`,
`RegistrationReturns`, `Terminates`, `Answered`): fairness is out of the prover's reach.
`Blossom` on graphs with odd cycles: its `MatchingIsValid`, `MaximumWhenDone` and
`NoWildIndex` are theorems for the graphs of the runner, the only ones the program builds,
and the run `Blossom` checks them on every graph of six vertices. Of all graphs the first
two are false (section 5), and `NoWildIndex` is about the same walks through nested
contractions; it has no proof there.

## 5. Where the code and its documentation disagree

1. **Overbooking** (`EventRegistration_capacity`, `db_manager.cpp:617`). The count is a
   subquery of the statement that waits for the row lock, so a registration that waited
   has counted before the other committed. `schema.sql:277-278` describes the intended
   `FOR UPDATE` as the enforcement of the capacity. The damage is bounded:
   fewer extra participants than connections.
2. **Incomplete erasure** (`UserAccounts_erasure`, `db_manager.cpp:284`). An update of the
   profile between `deleteUser`'s two statements fills `bio` or `interests` again, and the
   account is then marked deleted with them. `schema.sql:62-64` says that the application
   "MUST also null out real_name, email, bio, interests". Credentials do not come back
   (`ErasedForGood`).
3. **Nested contractions** (`Blossom_nested`, `blossom.cpp:56`). `markPath` goes on from a
   contracted pair by the predecessor of the outer vertex, not of its mate. On this graph
   (found by comparing random graphs with exhaustive search, and confirmed by running the
   program) `match_` pairs people who share no edge. The run
   `Blossom` finds none on six vertices, for edges added in lexicographic order; other
   orders are not checked.
4. **Declining an accepted match** (`MatchLifecycle_decline`, `db_manager.cpp:880`). Once
   both sides have accepted, the trigger turns the UPDATE's 'declined' back to "accepted",
   and the method reports success. The decline may have begun before
   the other side's accept. (One that came before either accept is lifted by them too, and
   leaves its `declined_by`.) `db_manager.h:156` says "UPDATE matches SET
   status='declined'" and `README.md:264` "Decline; removes pairing";
   `DeclineMatch_SetsDeclinedStatus` (`server/tests/test_db_manager_integration.cpp:695`)
   tries it only on a match nobody has accepted. `MessagesNeedAcceptance` holds because of
   it: with a decline that took effect, a message could be stored after it on the strength
   of an earlier read.

Seen while modelling, and not a run:

- A pool without connections: `conn_pool.h:71-72` says that acquires "will immediately time
  out"; they wait the full timeout (`conn_pool.cpp:63`).
- An `enqueue` that was accepted may call `notify_one` (`thread_pool.h:125`) after the
  destructor has returned; `thread_pool.h:19-20` says the two are safe to call concurrently.
- `acceptMatch` calls `getMatch` while it holds its own connection, so as many accepts as the
  pool has connections wait for each other until a timeout (`CallsReturn` shows that the
  timeout does resolve it).
- Two overlapping `persistAlgorithmRun` leave two current runs, since no index forbids it;
  `CurrentBounded` says how far that goes.
- `updateUser` returns `NotFound` (404) also when the UPDATE itself failed;
  `db_manager.h:72` says "if the user doesn't exist or is soft-deleted". `getUser` (404) and
  `loginUser` (401) do the same.
- `schema.sql:391-393` calls message ids "monotonically increasing" for the cursor; messages
  can become visible in another order. A client that has read the newest page does not see,
  in older pages, a message that commits later with an id between those it has. What was
  there when the walk began is complete (`HistoryComplete`).
- `listUsers` orders by `registered_at` alone. Users of the same microsecond have no order
  between two queries, which the keys of `Pages` leave out.

## 6. Not modelled, and why

- `ConnPool`'s size accessors, and what the other single-statement reads return (lists of
  events, participants, matches, runs and compatibility scores): they read once, convert the
  values, and change nothing.
- `listUsers` with a page so large that `(page - 1) * limit` overflows: undefined behaviour
  that no walk reaches.
- HTTP routing, JSON, the web page, the demo's printed tables, build files: input and output.
- Views, row-level security policies and indexes of the schema other than the constraints
  above: declarative, and not used by this code.

## 7. Plan

Done: the concurrency of the two pools, the groups of database statements, the listings'
pages, the four algorithms with their runners; the proofs of section 4, which cover every
invariant and every action property of the runs (Blossom's own for the runner's graphs).
Left, if the code changes or the tools allow it:

1. Liveness, which the runs check on small instances only. For the algorithms, variants
   (levels of `Tree`, unmatched people, columns left) would give the number of steps, without
   fairness.
2. Blossom on general graphs, once `markPath` is corrected (section 5): its
   search then needs an invariant about nested contractions.

## 8. Running it

`tlc -config ConnPool.cfg ConnPool.tla`, and so on for the runs listed in `PROJECT.json`;
`tlapm ConnPoolProofs.tla` for the proofs. Each run takes at most about two minutes and each
proof module a few minutes, `RunnersProofs` about twenty.
