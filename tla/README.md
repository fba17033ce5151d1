# TLA+ models of multicore-prac

The repository is a student's multicore-programming course: three projects and
nine labs. Each program is small, but all of them are about what threads do to
shared memory, which is why tests say little about them and a model checker
says much. This directory holds TLA+ models of the programs, the TLC
configurations that check them on small instances and TLAPS proofs of the
results that do not depend on the instance.

To check a run: `tlc -config Mvcc.cfg Mvcc`. To check a proof:
`tlapm MvccProofs.tla`. `PROJECT.json` lists the runs, the map from definitions
to source lines, the hazards and the theorems.

## 1. The system and its parts

| Part | State | Operations | What is hard | Model |
|---|---|---|---|---|
| Project2 `MyMutex` (`my_mutex.cpp`) | one word, `throne_` | `Lock`, `Unlock` | `Lock` throws away the outcome of its compare-and-swap and reads `throne_` back in a second access; waiters spin and sleep | `MyMutex` |
| Project2 MVCC store (`mvcc.cpp`, `node.h`) | a version list per thread, the active thread list, the version counter, `g_over` | `UpdateAB`, `GC`, `main` | searches, pushes and the collector work on the same lists without a lock | `Mvcc` |
| Project1 input (`reader.cpp`, `context.h`) | adjacency lists, houses, `visit_bitmap` | `Reader::Read` | fixed arrays | `RoadMap` |
| Project1 parallel search (`bfs.cpp`, `BFSMultiThreadContext`) | found vertices, work slots of the workers, two pairs of bit sets | `Run`, `BeginWorkAt`, `VisitVertex` | vertices are handed to free workers in the middle of a level; hand-made barrier | `ParallelBfs` |
| Project1 house workers (`main.cpp`, `BFSSingleThread`) | house counter, `visit_bitmap`, results | `BFSThread`, `BFSSingleThread`, `JoinAndUpdateResult` | a search stops early because of what other searches have met | `HouseSearch` |
| Project1 division of the cores (`main.cpp`) | the array of shares | loop in `main` | no bound on the index | `WorkerSplit` |
| Project1 `VectorPool` (`util.cpp`) | list of free vectors | `Alloc`, `Free` | test before lock | `VectorPool` |
| Project3 group commit (`log0log.cc`, `trx0trx.cc`) | log sequence numbers, flush events, callback queue | `log_write_up_to`, `log_buffer_flush_to_disk` | commits return before their log is on disk and are answered by whoever flushes | `LogFlush` |
| Project3 pended commands (`ha_innodb.cc`, `sql_connect.cc`, `threadpool_common.cc`) | `is_pended`, `pend_ready_state` | `innobase_commit`, `threadpool_process_request`, `finalize_phase`, `tp_rerun_pended_thd` | the callback races with the worker that drops the connection | `PendedCommit` |
| Project3 thread pool (`threadpool_unix.cc`) | queue, waiting threads, listener, counters of a thread group | `get_event`, `listener`, `wake_or_create_thread`, `wait_begin`, `wait_end`, `check_stall` | few active threads; timeouts of workers that are being woken | `ThreadPool` |
| Project3/ryul (`buf0buf.cc`) | one parameter block, the pool instances | `buf_pool_init` | threads share the parameter block; failures are ignored | not modelled |
| Lab11 lists | sorted list, a mutex per node | `list_add`, `list_remove`, `list_contains` | hand-over-hand and optimistic locking, freed nodes | `Lists`, `SetObject` |
| Lab6 TAS/TTAS/CLH | a word; a queue of nodes | `lock`, `unlock` | freed queue nodes | `SpinLocks` |
| Lab7 rwlock | a flag, two counts of readers | `writelock`, `readlock`, ... | check, then act | `RwLock` |
| Lab3 Peterson lock | two flags, a victim | `Lock`, `Unlock` | a missing fence | `Peterson` |
| Lab4 search per house (`project1_TA.cpp`) | vertex marks, a queue per search | `FindMinMaxPath`, `MakeResult` | who records a meeting; searches that have run ahead or ended | `MeetingSearch` |
| Lab12 queue; Lab5 timers; Lab1, Lab2 counters; Project1TestMaker; the rest of the vendored MariaDB | | | | not modelled |

How the parts interact: in Project2 the store takes `MyMutex` around the
active thread list and nothing else. In Project1 `main` divides the cores
(`WorkerSplit`), starts the HouseWorkers (`HouseSearch`), and each of them runs
either a single-threaded or a parallel search (`ParallelBfs`); all searches
share `visit_bitmap` and `VectorPool`. The labs stand alone; Lab4 solves
Project1's problem another way. Project3 changes three places of MariaDB that
call each other. A commit leaves a callback with the InnoDB log, the worker
drops the connection between the two phases of its command, and the callback,
run by whichever thread flushed, puts the connection back into the queue of its
thread group.

What makes each part correct, in one line each:

* `MyMutex` excludes, is never left locked by a thread that does not know it, and somebody always gets in.
* The MVCC store reads from a snapshot, never reads freed memory, never fails its assertions, and returns.
* The parallel search visits vertices at their true distance, loses no house and ends.
* The house workers print the smallest and the largest distance although most searches stop early.
* The group commit answers a client only when its log is on disk, and answers every client.
* A list or lock of the labs implements the abstract set or lock.
* Lab4's searches all meet, and the distances follow from where they met.

## 2. Modules

### Project2

`Mutex` is the abstract lock: a holder and the set of waiters. `MyMutex` has
one action per access to `throne_`: `Try`/`Retry` are the two calls of
`TakeTheIronThrone`, `Check`/`Recheck` read the word back, `Spin` and `Wake`
are the counted busy wait and `nanosleep`. `Patience` stands for the constant 4
and the counter saturates just above it, which is all the code tells apart.
`ImplementsMutex` maps `throne_` to the holder, so the successful swap is the
acquisition and reading the word back is a stuttering step.

`Mvcc` has the actions of `UpdateAB` (`LoopTest`, `Begin`, `Pick`, `Walk`,
`Push`, `Erase`), of the collector (`GcLoopTest`, `GcLock`, `GcHead`, `GcLoad`,
`GcFind`, `GcErase`) and of `main` (`TimeOver`, `Return`). A list is a set of
live nodes by version with their `next` fields; deleting a node removes it from
the set, so a search that looks at it is caught (`pc = "freed"`). A failing
`assert` is the location `"assert"`. The model does not go on after either. The
sections under `LOCK(g_mutex)` are single steps; that is what `MyMutex`
establishes. Every unlocked load and store of a shared list is a step of its
own, except that `GcHead` compares and assigns one loaded value: `mvcc.cpp`
names the field twice (lines 105-106), and the Makefile's `-O3` build loads it
once. Integers are two's complement of the width given by `IntMax`.

`SnapshotStore` is what the store promises: an update takes a ticket and a
snapshot of the committed versions, reads one record of the snapshot, commits.
`Mvcc` maps to it with `Committed(i)`, the version thread i registered while it
is in the active list and its head otherwise.

### Project1

`RoadMap` holds the input as constants, the adjacency lists `Reader::Read`
builds from it, the order in which a search goes through neighbours, and the
reference: balls around a house and the distance as a least radius.

`ParallelBfs` is one search by several workers. The mutex sections are single
steps (`Hand`, `Pass`, `Goodbye`, `Publish`), every other access is its own
step: `Visit` looks at `check_map_` and `Mark` sets it, so two workers may find
the same vertex. The other searches of the program appear as the action
`Elsewhere`, which sets a bit in the row of our house. The test of the barrier,
`(done & full) != full` on line 338, is two loads of words that other workers
change. C++ leaves their order open; the -O3 build (g++ 12) loads `full` first.
The variable `load_first`, chosen once from the constant `LoadOrders`, is the
order of the build, and x86 keeps the order of loads and of stores, so no other
reordering is modelled.

`HouseSearch` is the whole program when each HouseWorker has one thread: the
shared house counter with its unlocked test, the searches with their early
stop, and the joins. `WorkerSplit` is the loop that divides the cores; its
input is chosen in its initial predicate. `VectorPool` is `Alloc` with its test
outside the mutex, and `Free`. `MCProject1` puts `WorkerSplit` in front of
`HouseSearch`, as `main` does, and runs the pool, Lab4's program and Lab11's
lists beside them as behaviours of their own.

### Project3

`LogFlush` has one action per stretch of `log_write_up_to` between two accesses
that another thread can get between: the three unlocked looks (`Loop`,
`LookPending`, `LookCovered`), the section under the callback mutex
(`LeaveCallback`), the one under the log mutex (`Mutex`, with the start of a
write), the unlocked sync (`Sync`, `Claim`: what the file system has and what
`log_sys` says are two steps), the completion (`Finish`), and the callbacks
(`Collect`, `CallBack`). The callers are commits (`Commit`), threads that need
the log on disk and threads that only start a write (`ForceLog`). `disk` is what
would survive a crash; `returned` and `called` record what callers and clients
were promised. `lsn` 0 is the log at server start. `no_flush_event` and
`one_flushed_event` are one variable, because there is one log group.

`ThreadPool` is one thread group: everything under the group's mutex is one
step. A sleeping worker is woken by `wake_thread`, by its timeout, or for no
reason (`Spurious`), in which case it takes itself off the list and looks again.
`PendedCommit` extends it with the connections. `Handle`, `Phase1`, `Test` and
`Phase2` are the worker's way through `threadpool_process_request`; `Execute`,
`Mark` and `Reset` are `innobase_commit`, which queues the callback first and
stores `is_pended` and `pend_ready_state` afterwards; `finalize_phase` and
`tp_rerun_pended_thd` are the callback. `LogFlush` enters only as "the callback
is called some time after it was queued". After a callback that came too early
two workers may use one connection, which has no defined outcome; the model
records it in `early` and does not follow that connection's second worker
(`callback = "undefined"`).

### Labs

`SpinLocks` has the three locks of Lab6 as three kinds of one lock variable,
with the nodes of the queue lock allocated from a finite set and freed by the
successor. They implement the same `Mutex` as `MyMutex`. `RwLock` has the one
writer and the readers of Lab7's program, which come again and again; the
writer's loop loads one counter of readers after the other, and the counters
wrap at `CounterEnd`, the width of int. `Peterson` gives each thread of Lab3 a
first-in-first-out store buffer (x86), which the one fence in `Lock` empties.
`MCLocks` runs one of the locks per behaviour.

`SetObject` is an abstract
set with operations that are called, take effect at one moment, and return.
`Lists` has Lab11's three lists over one set of node addresses. Each lock and
each unlocked read of the walk is a step. The coarse list holds its mutex
throughout and is one step per operation. `list_init` does not initialise the
sentinels' mutexes, so `Init` lets them be zeroed or garbage.

`MeetingSearch` is Lab4. The test of a vertex's mark and the fetch-and-or are
one step, since nobody else sets the searcher's own bit. The queue of a search
is kept as its levels, the stretches between two depth fences, and as the number
of its entries (`rear`), vertices and fences. It has room for `MAX_VERTICES`; a
behaviour is followed up to the first write behind that (`QueueSuffices`). The
depth of a meeting is stored modulo `DepthEnd`, since the field is a `uint16_t`.
`MakeResult` reads `g_depth_fence_in_queue` past its end when a search ended in
the level of the meeting; the answer of such a test is arbitrary (`Shorter`).
The houses are reachable from each other: with two parts of the map a search
never meets the others and its fences fill the queue until it writes behind it.
(Only `ResultPrinted` needs this; the proofs do not.)

Operators whose comment starts with "Mutated" are not part of the models. Each
is a plausible mistake in the operator that follows it; substituting it makes
the property that `PROJECT.json` pairs it with fail, which shows that the
property depends on that piece of code.

## 3. Runs

| Run | Instance | Shows |
|---|---|---|
| `mvcc` | 2 updaters, 4 updates, `IntMax` 6 | no assertion fails, no freed node is read, wanted versions stay, lists stay linked, `ref_min` is below every running update, the sum `main` prints is the same before and after although A and B overflow; refinement of `SnapshotStore`; once `g_over` is set, everybody returns |
| `mvcc_overflow` | `IntMax` 5, 6 updates | **violation**: `assert(found)` fails after `g_exec_order` overflows |
| `parallel_bfs` | map Tree, 3 threads, either load first | free workers are counted right, the search ends and visits every reachable house; if `done` is loaded first, vertices are found at their true distance and the result is right |
| `parallel_bfs_loads` | map Diamond, 3 threads, `full` loaded first | **violation**: a worker passes the barrier before a helper it has not seen, and `max_dist` is wrong |
| `project1` | cores and houses up to 12; 3 HouseWorkers, 4 houses; 3 threads, 4 vectors; 3 searches; a map of 7 vertices and 10 roads; lists: 2 threads, 4 operations on 2 keys | the division of the cores stays in its array, is even; what has met is recorded somewhere and the printed numbers are right; no vector is shared or lost; Lab4: the meetings give the distance up to one road, the printed numbers are right but for the cases `MinMaxRight` names, the program ends; all three lists are linearizable sets, no freed or unfinished node is used, every operation returns if the sentinels' mutexes work |
| `lab4_min_max` | the same map, depths that do not wrap | **violation**: houses one road apart, and 2 is printed as the smallest distance |
| `vector_pool_empty` | 3 threads, 4 vectors | **violation**: two threads that saw the last vector both pop; the second pops an empty list |
| `log_flush` | 2 committing connections, 1 background thread, 2 commits, `MAX_CALLBACKS` 1 | one write at a time; a call that returns 0 kept its word; a callback is early only during a flush that covers it; no callback is forgotten unless more than `MAX_CALLBACKS` are queued |
| `log_flush_early` | same | **violation**: a callback announces an lsn that is not on disk |
| `pended_commit` | 2 connections, 2 workers, 2 requests; timeouts and spurious wakeups | the counters of the group are right, a connection has one owner or a callback to come, no answer before the callback, every request is answered unless a callback overtakes its worker |
| `pended_lost` | same | **violation**: a callback that ran too early is forgotten and the connection is dropped for ever |
| `locks` | 3 threads (`MyMutex`, Lab6), 1 writer and 2 readers (Lab7), 2 threads (Lab3) | `MyMutex` and Lab6's locks implement `Mutex`; the throne is never stranded; the queue lock serves everybody in its queue and never uses a freed node; Lab7 and Lab3 exclude except through one hole each, and who waits gets in, also the writer while readers keep coming |

### Bounds and why they are enough

* Two updaters already have every pair of roles: reader and owner of a list,
  older and younger update, each with the collector. Four updates and A, B at
  the edge of int make versions be collected while another update with an older
  view still searches, and make A and B overflow. `MvccProofs` removes both
  bounds.
* `IntMax` is 5 or 6, so that overflow happens within the bound; the arithmetic
  is the same at every width.
* The Diamond has a level of three vertices, so a worker hands vertices over
  while others finish, and a house that can be reached on a short and on a long
  way, so that a level taken too early shows. The Tree makes two workers share
  at the same time, makes them find one vertex twice, and has a house that
  cannot be reached, so that a search cannot stop early.
* In the map of `project1` the two houses furthest apart come last in the
  input: no search starts from the last one, and only one search can record
  their distance. A road joins 3 and 4 and three ways of two roads lead around
  it. This is the smallest map we know on which two of Lab4's searches can pass
  each other beside the shortest way, so that both the smallest and the largest
  number printed come out one too large. The other exceptions of `MinMaxRight`
  (no fence, a vertex that lies deeper) occur too, but here no number is wrong
  because of a deeper vertex alone.
* Three threads and four vectors let the free list be filled and emptied while
  two threads are between test and lock.
* In `LogFlush` two commits and a background thread give a flush, a flush that
  starts while the first flusher is on its way out, and a caller that arrives
  between them; with `MAX_CALLBACKS` 1 instead of 32 two callbacks are already
  one too many.
* Two connections on two workers with one of them active make the pool queue,
  sleep, time out, become listener and create a thread; throttling of thread
  creation begins only above three threads.
* Two threads and two keys let one thread remove the node, or the neighbour of
  the node, that the other is about to lock or free.
* The readers of `RwLock` read without end. Their counters wrap at
  `CounterEnd` 4, which is more than the two readers that can be inside: the
  writer compares for equality, and needs no more of them.
* On the map of `project1` a search writes up to 10 entries and no depth exceeds
  2, so `MAX_VERTICES` 10 and `DepthEnd` 3 are just large enough: with 9 entries
  a search is stopped at the end of its queue and `ResultPrinted` fails.
* `MCLocks` and `MCProject1` compose parts that never meet: a behaviour is one of
  them, and the properties of the others hold of their initial states.
* The `TypeOK` of the searches, lists and lab locks documents their variables;
  the runs spend their properties elsewhere.
* The programs return, so deadlock is not checked in their runs
  (`CHECK_DEADLOCK FALSE`); that they get to the end is what the `Terminates`,
  `ResultPrinted`, `OperationsReturn` and `EveryCallbackRuns` properties say.
  `locks` and `pended_commit` never stop and are checked for deadlock.

### Fairness

Weak fairness of each thread's steps: every thread is a pthread the scheduler
runs, and no step waits for anything but the state its guard names. The locked
sections of `Mvcc` and `ParallelBfs` are single steps under weak fairness. For
the pthread mutex of Project1 and for `MyMutex` this is more than the lock
itself guarantees, since neither is fair; it is justified where it is used,
because once `g_over` is set every thread asks for the lock a bounded number of
times, and deadlock freedom (`SomebodyEnters`, part of `WaitersEnter`) then serves them all. The same
holds of one search, which hands over and leaves boundedly often. No fairness is
assumed of calls to `Lock`, of choosing to start an update, or of the other
searches (`Elsewhere`).

In `LogFlush` a thread inside `log_write_up_to` keeps running; nothing makes a
client commit or a background thread write. In `PendedCommit` workers inside
the server and callbacks keep running and the pool's timer ticks; that a queued
callback is called is what `EveryCallbackRuns` of `LogFlush` says, short of the
queue's limit. Clients, kills, timeouts, spurious wakeups and waits need not happen.
Lab7's readers need never stop: only that a critical section ends and that the
writer's loop keeps running is assumed. The spin
locks and lists have weak fairness of each thread; in the lists an operation is
retried only because another one succeeded, and there are finitely many. Store
buffers drain. Lab4's searches and `main` share one fairness condition, which
is enough because every step of a search uses up part of a finite queue.

## 4. Proofs

**`MCLocksProofs`, `MyMutex`**, for any set of threads. The inductive invariant is
`TypeOK`, `ThroneNotStranded` (whoever the throne names is about to read it or
is inside) and `OwnerOnThrone` (who is inside is named by the throne). Exclusion
follows because the throne names one thread. `RefinesMutexSafety` shows that
every step is a step of `Mutex` or a stuttering step.

**`MvccProofs`**, for any number of threads, any number of updates and any int,
as long as the version counter does not overflow (`NoOverflow`:
`N + MaxUpdates <= IntMax`; the run `mvcc_overflow` shows the assumption is
needed). The properties are not inductive. The invariant adds:

* `OrderInv`: an update's number is above everything in its own list until it is pushed, and below the counter;
* `ActiveInv`: the active list names each running update once, with its head at registration;
* `SnapInv`: between the version a read view names and the update that owns the view, the list has at most one version, the one its thread was working on. This is the fact that makes two surviving versions enough;
* `WalkInv`: a search has not run past its target and stands on a live node;
* `GcInv`: `ref_min` is not above any head, and while the collector erases, a version below `ref_min` and above `prev_node` stays.

Together: a victim has two younger versions below `ref_min`, a view can skip at
most one version, and every running update is above `ref_min`, so nobody wants
the victim or stands on it.

**`MCProject1Proofs`, division of the cores**, for any `MaxSize`. `RoundedUp` says what rounding up
gives, `LoopInv` that the first `idx` workers have lost exactly one thread. As
rounding up adds less than one thread per worker, the loop ends before `idx`
reaches the end of the array, and the shares differ by at most one.

**`MvccProofs`, second part**: `UpdatesReadFromSnapshot`, the refinement of
`SnapshotStore`, under the same `NoOverflow`. It needs `SnapshotInv`, which adds
to the invariant above that where a view names no version of a thread (it had no
update running when the view was taken) the thread's list still has a newest
version older than the reader (`ViewInv`). `Begin` is the abstract `Begin`, the step of `Walk`
that finds its version the abstract `Read`, `Erase` the abstract `Commit`, and
all steps of the collector stutter.

**`MvccProofs`, third part**: `SumNeverChanges`. `Balanced` says that A and
B of every live node add up to `A_PLUS_B` modulo the width of int (`Congruent`);
`Push` keeps it because it adds to A what it takes from B. The head of a list is a
node, so each turn of the loop of `PrintSum` adds something congruent to
`A_PLUS_B`; by induction over the turns its result is congruent to
`N * A_PLUS_B`, and two ints that are congruent are equal. No bound on A and B is
needed: they do overflow.

**`LogFlushProofs`**, for any sets of connections and background threads, any
number of commits (`MaxLsn`) and any `MAX_CALLBACKS`. The invariant: one thread
writes and the event is reset exactly while it does (`WriterInv`); how far
written, flushed and claimed log stand to each other, and what the writer may
claim at each of its steps (`StageInv`); what each caller may count on where it
stands (`CallInv`), without which a return of 0 says nothing; and that a pended
caller is in the queue or in one flusher's hands, once (`QueueInv`).

**`PendedCommitProofs`**, for any finite set of connections and any number of
requests, with two or three workers: above three the pool throttles the
creation of threads, which is not modelled (`PoolAssumption`; the server's
default is 1000, so these theorems are about a group that has not grown further).
`PoolInv` says
that the workers outside the idle places are as many as `active_thread_count`,
that the sleeping ones are in `waiting_threads` once, and that a worker has a
connection exactly while it handles one. `OwnerInv` says of each connection that
no callback has overtaken: it is in at most one place; if it is in none, its
worker dropped it with `is_pended` and `pend_ready_state` set and a callback is
still to come; and a callback is out only for such a connection or for one whose
worker is in the three steps between the commit and the test.

**`MCLocksProofs`, labs**, for any threads, nodes and readers. Lab6: the lock word is
set while somebody is inside (`WordInv`); each node of the queue lock has one
owner and one successor and is not freed while either may look at it
(`NodesInv`); the right to enter is with the thread inside or with the one node
that is 1 (`TokenInv`). Lab7, for fewer readers than int
has values: the two counts of readers differ, modulo that number, by the readers
inside, and while the flag is up and nobody was overtaken no reader is on its
way in (`RwInv`). Lab3: what the store buffers can hold at each place, and that
the other thread is held back while one is inside (`PetersonInv`). `SpinLocksRefineMutexSafety` maps the
three locks to `Mutex` as `RefinesMutexSafety` does. `NodesAssumption` only says that
the null pointer is not a node.

**`ListsProofs`**, for any threads, any set of integer keys with a least and a
greatest one (`ListAssumption`; the keys of the sentinels lie outside) and any
number of operations. The invariant:

* `Calls`: which places the three programs have, and what a thread has set at each;
* `Sorted`: from head the `next` fields lead through ever greater keys to tail, past no freed node;
* `Owned`: a node that is not linked yet, or unlinked and not freed, is known to one thread only;
* `Locked`: who holds which mutex at each place, and that nobody holds that of a freed node;
* `Placed`: with both locks held, `prev` is in the list, `curr` is its successor, and the key belongs between them;
* `Optimistic`: without locks a thread stands on a node that is or was in the list (`optimistic.cpp` frees nothing). A locked `prev` that has left the list is not met from head, which is why validation is right.

What is reached from head is an iteration over `next`; it is turned into closed
sets (`From`) by induction over the steps. `ListNodesSafe` follows from `Owned`
and `Locked`. In `ListsAreLinearizable` the abstract set is the set of keys
reached from head; an operation takes effect where it links or unlinks its node,
or reads, under its locks, that there is nothing to do. The proof corrected
`NodesSafe`: its first form spoke of every pointer a thread has, also of those
it will not use any more, and with five operations, one more than the run has,
such a pointer names a new node.

**`RoadMapProofs`** holds what the proofs about the three searches share, for
any map: what the adjacency lists hold (`AdjlistIs`), that the reference
distances are symmetric (`DistanceSymmetric`), obey the triangle inequality
(`Triangle`), pass through every smaller value on the way (`Halfway`), and that
the neighbours of one sphere lead to the next (`NextLevel`).

**`MCProject1Proofs`, house workers**, for any map, any houses and any number of
HouseWorkers (`WorkersAssumption`: there is a worker, and `INT_MAX` is above
every distance). `SearchInv`: a search is level by level at its sphere, with the
rest of the next one still to visit (`SearchRight`); a house that was taken has
met all it can, or somebody is still searching from it (`TakenRight`); the bits
of `visit_bitmap` come with an entry in a result (`MetIsRecorded`); and all
results hold only distances. So a search that stops because others have filled
its row loses nothing, and the join of all results is right.

**`MCProject1Proofs`, Lab4**, for any map of at most `MAX_VERTICES` vertices and
any 2 to 64 houses in it (`MeetingAssumption`), up to the first write behind a
queue. The two theorems about distances speak of houses less than `DepthEnd`
(2^16) roads apart: the depths of others wrap. `MeetingInv`:

* `LevelsRight`: all levels of a search but the newest are full spheres, and of the newest the vertices it has marked;
* `MeetingRight`: the vertex where t first met u is marked by both, its stored depth is t's distance modulo `DepthEnd`; and every vertex marked by both is no nearer than the first meeting of one of them;
* `EndRight`: who has ended has met everybody.

The distance of two houses is at most the sum of the two depths by the triangle
inequality. Were it two roads less, there would be a vertex on the shortest way
nearer to both than their first meetings (`Halfway`), marked by both, hence a
meeting before the first. Neither depth exceeds the distance of the houses, so
below `DepthEnd` what is stored is the depth itself. This is the claim of the comment at
`project1_TA.cpp:241-244`, and it is right for these houses. Once all have ended, every level is a
sphere, so each of `MakeResult`'s tests compares a distance with a depth, and
`MinMaxRight` follows by cases.

**`MCProject1Proofs`, vector pool**, for any threads and vectors: the vectors listed and held
are apart and none is missing (`PoolInv`). That the second of two threads finds
the list empty (run `vector_pool_empty`) breaks `Alloc`'s own call of
`pop_front`, not this.

**`ParallelBfsProofs`**, for any map and 2 to 64 workers, the width of the bit
sets. `CountInv`: only a worker marked busy is in the loop, nobody has work
before `Run` gives it away, and a worker returns only when all are free for
good; hence the count is right, the search for a free worker succeeds, and no
vertex goes to a worker that has returned. `BarrierInv`: there is a latest level
L whose `full` bits are exactly the busy workers. A busy worker is in L, or
still on its way out of L - 1 through a barrier somebody has passed; only
workers at the end of L have set their `done` bit; what a worker has loaded from
`done` is still set; and as soon as one is through the test at the end of L, all
are at the end of L. The last part holds because `full` is loaded after `done`;
with the other order it fails, as `parallel_bfs_loads` shows. `LevelsTogether`
follows: the workers that visit vertices are all in one level. `DataInv`, for
both load orders: the neighbours of a marked vertex are marked, or wait in the
list of some worker, so when all lists are empty everything reachable is marked
(`NoHouseIsLost`). `LevelInv`, for `done` loaded first: when level L begins all
vertices up to L are marked, unless all houses have been seen, and what a worker
visits in L lies at distance L; hence `TrueDistances`, and with `ResultInv`
(results are distances, and enclose those of the houses marked) `ResultsRight`.

Every invariant of the passing runs is proved, and the safety part of every
refinement. Recursive functions (`adjlist`, balls, the loop of `PrintSum`,
`FlattenSeq`) are handled without the library's induction theorems, whose
operator parameter the provers cannot instantiate: `FromZeroUp` states induction
for sets of numbers, and `RecursionExists` that a recursively defined function
exists, so its equations can be used.

Only model-checked:

* everything with liveness (`Terminates`, `EveryCallbackRuns`,
  `EveryRequestAnswered`, `OperationsReturn`, `ResultPrinted`, `WaitersEnter`,
  and the fairness in `LocksImplementMutex`), which is out of the prover's reach.

## 5. What the models found

Six runs end in a counterexample on purpose; `PROJECT.json` quotes the line
each one contradicts.

1. `bfs.cpp:338`: the level barrier of the parallel search depends on which of
   two words is loaded first. With the order of the build a worker can enter
   the next level while a helper is still in the old one, and a vertex is
   found one level too far. The search still ends and visits every house.
2. `util.cpp:37`: `Alloc` may pop an empty list.
3. `mvcc.cpp:167`: the version counter overflows int in a run of some minutes,
   after which an assertion fails.
4. `log0log.cc:1841`: callbacks are taken after the log mutex has been left, so
   one that waits for the next flush is called while that flush still runs; its
   client is told that a commit is durable which is not.
5. `ha_innodb.cc:4917`: a callback that runs before `pend_ready_state` is set is
   forgotten, and its connection is never answered.

6. `project1_TA.cpp:323`: Lab4's comment says that when V1, where A first met B,
   is in the part B searched at depth D2, the distance is D1 + D2 (lines
   246-250). It may be D1 + D2 - 1: if there are several ways, each search can
   first meet the other beside the shortest one, and then both meetings look as
   if there were no shorter way (`Hidden`). `MakeResult` prints a number one too
   large, the largest or the smallest.

The properties of the passing runs name further flaws as their exceptions. Such a
property does not catch the flaw; it shows that there is no other one of its kind.

* `MakeResult` says that a meeting vertex not found at depth D2 was found
  at D2 - 1 (`project1_TA.cpp:309-313`). When the other search has run ahead the
  vertex may lie at D2 + 1 instead, and the smallest distance is printed one too
  small (`Deeper`). The largest is looked for at D2 - 1 itself and is not affected.
* The same function reads past `g_depth_fence_in_queue` when a search ended in
  the level of its last meeting; the smallest distance may then be one off
  either way.
* Lab4 stores the depth of a meeting in a `uint16_t` (`project1_TA.cpp:222`) while
  a map may have 10000000 vertices: for houses 2^16 roads or more apart the depth
  wraps, and a third case arises where the comment at line 244 guarantees that
  there are two (`MeetingDistance`).
* Lab4's queue has one entry per possible vertex, which the comment at line 153
  calls ample, and also holds the depth fences: on a map of the largest size a
  search writes behind it (the guard `QueueSuffices`).
* Lab7's `readlock` lets a reader in that tested `writing` before the writer
  raised it and had not counted itself; both then increment the counter the
  test compares (`WriterAlone` in `LabLocksExclude`).
* Lab3's `Lock` has one fence where it needs two
  (`OnlyTheMissingFence`); Lab11's sentinels have uninitialised mutexes
  (`OperationsReturn`).
* More than `MAX_CALLBACKS` queued callbacks wait for the next flush, and if
  nobody commits any more, for ever (`EveryCallbackRuns`).
* A callback that came too early may put a connection into the queue that its
  worker still uses (`OneOwner`; `pended_lost` shows the other outcome).
* By reading only: `log_sys` is allocated without constructing `lsn_callbacks`,
  a `std::vector`; and the waiting branch of `log_write_up_to` (lines 1864-1881)
  falls off the end of a function that returns int. The model takes the vector
  for empty and the missing result for 0.

A smaller difference, without a run of its own: that README says `ref_min` takes
the smallest version of the active list. `GC` takes the last entry
(`mvcc.cpp:98`, action `GcLock`), the update that registered first, whose
version need not be the smallest. Lowering `ref_min` to the heads afterwards
makes this harmless (`RefMinBelowReaders`).

## 6. Not modelled, and the plan

Left out of the modelled parts: output, timing figures, parsing of numbers,
and the throughput counters. `num_free_threads_` of the parallel search is
written and never read. `LogFlush` leaves out callers with `LSN_MAX`, the hook
to the binary log, recovery, and several log groups. `ThreadPool` and
`PendedCommit` leave out shutdown, moving a connection to another group,
throttling above three threads, failing thread creation, and commands with two
commits, hence two callbacks.

Not modelled at all:

* Project3/ryul: `buf_pool_init` hands all threads the same parameter block and
  joins them through an uninitialised pointer; every outcome is possible, and a
  model could only say so.
* Lab12: the first `enqueue` of a new queue never returns. It raises
  `prod_counter` to `capacity`, reduces `cnsu_counter` to `capacity - 1` and
  waits for the second to exceed the first; both test programs start with an
  `enqueue`.
* Lab5: two handlers and a counter around boost::asio, which is not in the
  repository. `timer_fix_race.cpp` wraps only the first round in the strand.
* Lab1 and Lab2 (a counter without and with a mutex), Project1TestMaker (a
  sequential generator), the empty list templates of Lab11, and MariaDB apart
  from the changes made in this repository.

Next: the parts of Project3 left out above, first the commands with two commits.

The project keeps to a dozen runs, one per question, so that all of it is
checked in minutes; small components share a run.
