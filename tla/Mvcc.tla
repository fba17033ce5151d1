-------------------------------- MODULE Mvcc --------------------------------
(***************************************************************************)
(* Project2's multi-version store (src/Project2/src/mvcc.cpp, node.h).     *)
(*                                                                         *)
(* Each of N updater threads owns a singly linked list of versions, newest *)
(* first.  An update registers itself in the active thread list and copies *)
(* that list (its read view), reads one version of a randomly chosen       *)
(* thread WITHOUT a lock, pushes a new version in front of its own list,   *)
(* and removes itself from the active list.  One garbage collector thread  *)
(* frees old versions, also without a lock.                                *)
(*                                                                         *)
(* The sections between LOCK(g_mutex) and UNLOCK(g_mutex) are single steps *)
(* (MyMutex shows that lock excludes); every other access to a list that   *)
(* another thread may write is a step of its own.                          *)
(***************************************************************************)
EXTENDS Integers, Sequences, FiniteSets, FiniteSetsExt

CONSTANTS N,         \* g_num_threads
          IntMax,    \* INT_MAX of the build's int
          MaxUpdates,\* bound: updates started in one run of the program
          A_PLUS_B,  \* sum of the two fields of every version (100); also the modulus
          InitialA,  \* the values rand() % A_PLUS_B may give a first version
          NULL       \* nullptr

ASSUME NAssumption == N \in Nat \ {0} /\ N <= IntMax
ASSUME IntMaxAssumption == IntMax \in Nat
ASSUME MaxUpdatesAssumption == MaxUpdates \in 0..2 * IntMax
ASSUME NullAssumption == NULL \notin Int \cup (Int \X Int) \cup [0..N - 1 -> Int]
ASSUME AAssumption == A_PLUS_B \in 1..IntMax /\ InitialA \subseteq 0..A_PLUS_B - 1

Threads == 0..N - 1

(* Two's complement int: what the build's arithmetic gives on overflow. *)
Wrap(x) == ((x + IntMax + 1) % (2 * IntMax + 2)) - IntMax - 1
Ints == -IntMax - 1..IntMax

(* The value g_exec_order has when the bound is reached. *)
LastOrder == Wrap(N + MaxUpdates)

(* C++'s % truncates towards zero. *)
Remainder(a, m) == IF a >= 0 THEN a % m ELSE -((-a) % m)

VARIABLES
  g_exec_order, \* global execution order, the next version number
  g_over,       \* main's time is up
  active,       \* g_active_thread_head: records [id, version], newest first
  head,         \* data_head of every thread: the version of its first node
  node,         \* node[i]: the live nodes of i's list, by version
  pc,           \* where each updater is in UpdateAB
  my_version,   \* locals of UpdateAB ...
  rv,           \* ... the read view: version it lists for each id, or NULL
  sel,          \* ... i, the thread chosen by rand()
  cur,          \* ... data_node, the version of the node being looked at
  data_i,       \* ... the copied version and its A
  gpc,          \* where the collector is in GC
  ref_min,      \* locals of GC: ref_min_version ...
  gi,           \* ... the thread being looked at
  gnode,        \* ... node while searching, prev_node while erasing
  main          \* main: "sleep", "join" or "returned"

updater == <<my_version, rv, sel, cur, data_i>>
collector == <<gpc, ref_min, gi, gnode>>
vars == <<g_exec_order, g_over, active, head, node, pc, my_version, rv, sel, cur,
          data_i, gpc, ref_min, gi, gnode, main>>

NoData == [version |-> NULL, A |-> 0]
NoView == [i \in Threads |-> NULL]

UpdaterLocations ==
  {"top", "begin", "pick", "walk", "push", "erase", "done", "assert", "freed"}
CollectorLocations == {"top", "lock", "heads", "load", "find", "erase", "done"}

(* Updates that registered themselves and still read through their view. *)
Reading(t) == pc[t] \in {"pick", "walk"}

(* Updates whose version exists nowhere but in their local variable yet. *)
Unpublished(t) == pc[t] \in {"pick", "walk", "push"}

Ptr == Ints \cup {NULL}

TypeOK ==
  /\ g_exec_order \in Ints
  /\ g_over \in BOOLEAN
  /\ active \in Seq([id : Threads, version : Ints])
  /\ head \in [Threads -> Ints]
  /\ node = [i \in Threads |-> node[i]]
  /\ \A i \in Threads :
       /\ DOMAIN node[i] \subseteq Ints
       /\ node[i] \in [DOMAIN node[i] -> [next : Ptr, A : Ints, B : Ints]]
  /\ pc \in [Threads -> UpdaterLocations]
  /\ my_version \in [Threads -> Ptr]
  /\ rv \in [Threads -> [Threads -> Ptr]]
  /\ sel \in [Threads -> Threads]
  /\ cur \in [Threads -> Ptr]
  /\ data_i \in [Threads -> [version : Ptr, A : Ints]]
  /\ gpc \in CollectorLocations
  /\ ref_min \in Ints
  /\ gi \in Threads
  /\ gnode \in Ptr
  /\ main \in {"sleep", "join", "returned"}

(* main pushes one version per thread before it creates any thread. *)
Init ==
  /\ g_exec_order = N
  /\ g_over = FALSE
  /\ active = <<>>
  /\ head = [i \in Threads |-> i]
  /\ \E a \in [Threads -> InitialA] :
       node = [i \in Threads |->
                [v \in {i} |-> [next |-> NULL, A |-> a[i], B |-> A_PLUS_B - a[i]]]]
  /\ pc = [t \in Threads |-> "top"]
  /\ my_version = [t \in Threads |-> NULL]
  /\ rv = [t \in Threads |-> NoView]
  /\ sel = [t \in Threads |-> t]
  /\ cur = [t \in Threads |-> NULL]
  /\ data_i = [t \in Threads |-> NoData]
  /\ gpc = "top" /\ ref_min = IntMax /\ gi = 0 /\ gnode = NULL
  /\ main = "sleep"

-----------------------------------------------------------------------------
(* The list operations of node.h, on what a list holds.                    *)

(* NodePushFront on a version list: the new node points at the old head. *)
PushData(nodes, first, v, a, b) ==
  [w \in DOMAIN nodes \cup {v} |->
     IF w = v THEN [next |-> first, A |-> a, B |-> b] ELSE nodes[w]]

(* Mutated EraseData: the node is deleted but never unlinked. *)
EraseWithoutUnlink(nodes, prev, victim) ==
  [w \in DOMAIN nodes \ {victim} |-> nodes[w]]

(* NodeErase(prev, victim) on a version list: unlink, then delete. *)
EraseData(nodes, prev, victim) ==
  [w \in DOMAIN nodes \ {victim} |->
     IF w = prev THEN [nodes[w] EXCEPT !.next = nodes[victim].next] ELSE nodes[w]]

(* NodeErase(&g_active_thread_head, my_node): a thread has one node there. *)
EraseActive(list, t) ==
  LET k == CHOOSE j \in 1..Len(list) : list[j].id = t
  IN  [j \in 1..Len(list) - 1 |-> IF j < k THEN list[j] ELSE list[j + 1]]

(* What searching the copied list for an id finds.  The copy is in reverse *)
(* order, so a search from its front meets the oldest entry first.         *)
ReadView(list) ==
  [i \in Threads |->
     LET found == {k \in 1..Len(list) : list[k].id = i}
     IN  IF found = {} THEN NULL ELSE list[Max(found)].version]

-----------------------------------------------------------------------------
(* UpdateAB                                                                *)

Goto(t, from, to) ==
  /\ pc[t] = from
  /\ pc' = [pc EXCEPT ![t] = to]

(* Bound of the model: enough numbers are left before LastOrder for the    *)
(* threads that have already entered the loop body and for one more.       *)
RoomForUpdate ==
  Cardinality({t \in Threads : pc[t] = "begin"})
    < (LastOrder - g_exec_order) % (2 * IntMax + 2)

(* while (!g_over) *)
LoopTest(t) ==
  /\ g_over \/ RoomForUpdate
  /\ Goto(t, "top", IF g_over THEN "done" ELSE "begin")
  /\ UNCHANGED <<g_exec_order, g_over, active, head, node, main>>
  /\ UNCHANGED updater
  /\ UNCHANGED collector

(* The first locked section: take a version number, register with the      *)
(* version of our own newest data, copy the read view.                     *)
Begin(t) ==
  /\ g_exec_order # LastOrder
  /\ Goto(t, "begin", "pick")
  /\ my_version' = [my_version EXCEPT ![t] = g_exec_order]
  /\ g_exec_order' = Wrap(g_exec_order + 1)
  /\ active' = <<[id |-> t, version |-> head[t]]>> \o active
  /\ rv' = [rv EXCEPT ![t] = ReadView(active')]
  /\ UNCHANGED <<g_over, head, node, sel, cur, data_i, main>>
  /\ UNCHANGED collector

(* Choose thread i and load the head of its list. *)
Pick(t) ==
  /\ Goto(t, "pick", "walk")
  /\ \E i \in Threads :
       /\ sel' = [sel EXCEPT ![t] = i]
       /\ cur' = [cur EXCEPT ![t] = head[i]]
  /\ UNCHANGED <<g_exec_order, g_over, active, head, node, my_version, rv, data_i, main>>
  /\ UNCHANGED collector

(* Mutated IsTarget: the read view is ignored, the newest older version is *)
(* taken although its thread may not have committed it.                    *)
NewestOlder(t, i, v) == v < my_version[t]

(* Is version v of thread i the one update t is looking for? *)
IsTarget(t, i, v) ==
  IF rv[t][i] # NULL THEN v = rv[t][i] ELSE v < my_version[t]

(* One round of the search through i's list: stop at the target, or go on. *)
(* Falling off the end violates assert(found), meeting an older version    *)
(* than the one in the view violates the assertion in the loop, and        *)
(* looking at a deleted node is a read of freed memory; what the program   *)
(* does after one of these three is not modelled.                          *)
Walk(t) ==
  LET i == sel[t]
      v == cur[t]
      live == v \in DOMAIN node[i]
      passed == rv[t][i] # NULL /\ v < rv[t][i]
  IN  /\ \/ /\ live /\ ~passed /\ IsTarget(t, i, v)
            /\ Goto(t, "walk", "push")
            /\ data_i' = [data_i EXCEPT ![t] = [version |-> v, A |-> node[i][v].A]]
            /\ UNCHANGED cur
         \/ /\ live /\ ~passed /\ ~IsTarget(t, i, v)
            /\ Goto(t, "walk", "walk")
            /\ cur' = [cur EXCEPT ![t] = node[i][v].next]
            /\ UNCHANGED data_i
         \/ /\ v = NULL \/ (live /\ passed)
            /\ Goto(t, "walk", "assert")
            /\ UNCHANGED <<cur, data_i>>
         \/ /\ v # NULL /\ ~live
            /\ Goto(t, "walk", "freed")
            /\ UNCHANGED <<cur, data_i>>
      /\ UNCHANGED <<g_exec_order, g_over, active, head, node, my_version, rv, sel, main>>
      /\ UNCHANGED collector

(* Mutated Push: what is added to A is not taken from B. *)
PushUnbalanced(t) ==
  LET x == node[t][head[t]]
      d == Remainder(data_i[t].A, A_PLUS_B)
  IN  /\ Goto(t, "push", "erase")
      /\ node' = [node EXCEPT ![t] =
                    PushData(@, head[t], my_version[t], Wrap(x.A + d), x.B)]
      /\ head' = [head EXCEPT ![t] = my_version[t]]
      /\ UNCHANGED <<g_exec_order, g_over, active, main>>
      /\ UNCHANGED updater
      /\ UNCHANGED collector

(* Push the new version, computed from our own newest one and data_i. *)
Push(t) ==
  LET x == node[t][head[t]]
      d == Remainder(data_i[t].A, A_PLUS_B)
  IN  /\ Goto(t, "push", "erase")
      /\ node' = [node EXCEPT ![t] =
                    PushData(@, head[t], my_version[t], Wrap(x.A + d), Wrap(x.B - d))]
      /\ head' = [head EXCEPT ![t] = my_version[t]]
      /\ UNCHANGED <<g_exec_order, g_over, active, main>>
      /\ UNCHANGED updater
      /\ UNCHANGED collector

(* The second locked section, and the end of the loop body: the copied     *)
(* view is destroyed and the locals go out of scope.                       *)
Erase(t) ==
  /\ Goto(t, "erase", "top")
  /\ active' = EraseActive(active, t)
  /\ my_version' = [my_version EXCEPT ![t] = NULL]
  /\ rv' = [rv EXCEPT ![t] = NoView]
  /\ sel' = [sel EXCEPT ![t] = t]
  /\ cur' = [cur EXCEPT ![t] = NULL]
  /\ data_i' = [data_i EXCEPT ![t] = NoData]
  /\ UNCHANGED <<g_exec_order, g_over, head, node, main>>
  /\ UNCHANGED collector

UpdateAB(t) == LoopTest(t) \/ Begin(t) \/ Pick(t) \/ Walk(t) \/ Push(t) \/ Erase(t)

-----------------------------------------------------------------------------
(* GC and ScheduleGC                                                       *)

Collector(from, to) == gpc = from /\ gpc' = to

UpdatersUnchanged ==
  /\ UNCHANGED <<g_exec_order, g_over, active, head, pc, main>>
  /\ UNCHANGED updater

(* Mutated GcLoopTest: the collector does not look at g_over. *)
GcLoopForever ==
  /\ Collector("top", "lock")
  /\ UNCHANGED <<ref_min, gi, gnode, node>>
  /\ UpdatersUnchanged

(* while (!g_over) *)
GcLoopTest ==
  /\ Collector("top", IF g_over THEN "done" ELSE "lock")
  /\ UNCHANGED <<ref_min, gi, gnode, node>>
  /\ UpdatersUnchanged

(* The locked section: the version in the LAST node of the active list,    *)
(* which is the update that registered first.                              *)
GcLock ==
  /\ Collector("lock", "heads")
  /\ ref_min' = IF active = <<>> THEN IntMax ELSE active[Len(active)].version
  /\ gi' = 0
  /\ UNCHANGED <<gnode, node>>
  /\ UpdatersUnchanged

(* Mutated GcHead: ref_min comes from the active list alone. *)
GcHeadIgnored ==
  /\ Collector("heads", IF gi = N - 1 THEN "load" ELSE "heads")
  /\ gi' = IF gi = N - 1 THEN 0 ELSE gi + 1
  /\ UNCHANGED <<ref_min, gnode, node>>
  /\ UpdatersUnchanged

(* Lower ref_min to the head version of the next thread.  The build loads  *)
(* the head once for the comparison and the assignment.                    *)
GcHead ==
  /\ Collector("heads", IF gi = N - 1 THEN "load" ELSE "heads")
  /\ ref_min' = IF head[gi] < ref_min THEN head[gi] ELSE ref_min
  /\ gi' = IF gi = N - 1 THEN 0 ELSE gi + 1
  /\ UNCHANGED <<gnode, node>>
  /\ UpdatersUnchanged

(* Mutated NextList: the index of the list runs past the last thread. *)
NextListPastEnd ==
  /\ gpc' = IF gi = N - 1 THEN "top" ELSE "load"
  /\ gi' = gi + 1
  /\ ref_min' = IF gi = N - 1 THEN IntMax ELSE ref_min
  /\ gnode' = NULL
  /\ UNCHANGED node

(* Done with the list of thread gi: on to the next, or the end of GC. *)
NextList ==
  /\ gpc' = IF gi = N - 1 THEN "top" ELSE "load"
  /\ gi' = IF gi = N - 1 THEN 0 ELSE gi + 1
  /\ ref_min' = IF gi = N - 1 THEN IntMax ELSE ref_min
  /\ gnode' = NULL
  /\ UNCHANGED node

(* Load the head of the next list. *)
GcLoad ==
  /\ Collector("load", "find")
  /\ gnode' = head[gi]
  /\ UNCHANGED <<ref_min, gi, node>>
  /\ UpdatersUnchanged

(* Mutated GcFind: only the first version below ref_min stays. *)
GcFindKeepsOne ==
  /\ gpc = "find"
  /\ \/ /\ gnode = NULL
        /\ NextList
     \/ /\ gnode # NULL /\ gnode < ref_min
        /\ gpc' = "erase"
        /\ UNCHANGED <<ref_min, gi, gnode, node>>
     \/ /\ gnode # NULL /\ gnode >= ref_min
        /\ gnode' = node[gi][gnode].next
        /\ UNCHANGED <<gpc, ref_min, gi, node>>
  /\ UpdatersUnchanged

(* Find the first version below ref_min; it stays, and so does the one     *)
(* after it, which becomes prev_node.                                      *)
GcFind ==
  /\ gpc = "find"
  /\ \/ /\ gnode = NULL
        /\ NextList
     \/ /\ gnode # NULL /\ gnode < ref_min
        /\ IF node[gi][gnode].next = NULL
             THEN NextList
             ELSE /\ gpc' = "erase"
                  /\ gnode' = node[gi][gnode].next
                  /\ UNCHANGED <<ref_min, gi, node>>
     \/ /\ gnode # NULL /\ gnode >= ref_min
        /\ gnode' = node[gi][gnode].next
        /\ UNCHANGED <<gpc, ref_min, gi, node>>
  /\ UpdatersUnchanged

(* Erase the node after prev_node until there is none. *)
GcErase ==
  /\ gpc = "erase"
  /\ LET victim == node[gi][gnode].next
     IN  \/ /\ victim = NULL
            /\ NextList
         \/ /\ victim # NULL
            /\ node' = [node EXCEPT ![gi] = EraseData(@, gnode, victim)]
            /\ UNCHANGED <<gpc, ref_min, gi, gnode>>
  /\ UpdatersUnchanged

GC == GcLoopTest \/ GcLock \/ GcHead \/ GcLoad \/ GcFind \/ GcErase

-----------------------------------------------------------------------------
(* main                                                                    *)

(* sleep(g_dura) is over. *)
TimeOver ==
  /\ main = "sleep"
  /\ main' = "join"
  /\ g_over' = TRUE
  /\ UNCHANGED <<g_exec_order, active, head, node, pc>>
  /\ UNCHANGED updater
  /\ UNCHANGED collector

(* Every thread has been joined; main prints and returns. *)
Return ==
  /\ main = "join"
  /\ gpc = "done"
  /\ \A t \in Threads : pc[t] = "done"
  /\ main' = "returned"
  /\ UNCHANGED <<g_exec_order, g_over, active, head, node, pc>>
  /\ UNCHANGED updater
  /\ UNCHANGED collector

Next == (\E t \in Threads : UpdateAB(t)) \/ GC \/ TimeOver \/ Return

(* Threads and the collector run until they return; sleep returns.         *)
Fairness ==
  /\ \A t \in Threads : WF_vars(UpdateAB(t))
  /\ WF_vars(GC)
  /\ WF_vars(TimeOver)
  /\ WF_vars(Return)

Spec == Init /\ [][Next]_vars /\ Fairness

-----------------------------------------------------------------------------
(* Properties                                                              *)

(* Versions of thread i. *)
Live(i) == DOMAIN node[i]

(* The version of thread i that the snapshot of update t designates: the   *)
(* one in its read view, or the newest one older than t itself.            *)
Wanted(t, i) ==
  LET older == {v \in Live(i) : v < my_version[t]}
  IN  IF rv[t][i] # NULL THEN rv[t][i]
      ELSE IF older = {} THEN NULL ELSE Max(older)

(* Neither assertion of UpdateAB can fail: whatever thread i an update     *)
(* picks, and however its unlocked search interleaves with pushes and      *)
(* with the collector, it finds a version.                                 *)
AssertionsHold == \A t \in Threads : pc[t] # "assert"

(* An update searching a list without a lock never looks at a node the     *)
(* collector has deleted.                                                  *)
NoFreedRead == \A t \in Threads : pc[t] # "freed"

(* For every update that has not read yet and every thread it may still    *)
(* pick, the list holds the version its view names or, when the view names *)
(* none, some version older than the update.                               *)
WantedIsLive ==
  \A t, i \in Threads : Reading(t) =>
    IF rv[t][i] # NULL THEN rv[t][i] \in Live(i)
                       ELSE \E v \in Live(i) : v < my_version[t]

(* Lists are linked newest first from data_head and reach every live node: *)
(* each node points at the next older live version of its thread, so no    *)
(* interleaving of unlocked pushes and erasures loses or leaks a node.     *)
NewestFirst ==
  \A i \in Threads :
    /\ head[i] \in Live(i)
    /\ \A v \in Live(i) :
         /\ v <= head[i]
         /\ node[i][v].next = NULL => \A w \in Live(i) : v <= w
         /\ node[i][v].next # NULL =>
              /\ node[i][v].next \in Live(i)
              /\ node[i][v].next < v
              /\ \A w \in Live(i) : w < v => w <= node[i][v].next

(* Once ref_min is known no running search is older than it, though        *)
(* updates come and go while the heads are read one by one.                *)
RefMinBelowReaders ==
  gpc \in {"load", "find", "erase"} =>
    \A t \in Threads : Unpublished(t) => ref_min < my_version[t]

(* The loop of PrintSum: two additions of int for each thread. *)
PrintSum ==
  LET sum[n \in 0..N] ==
        IF n = 0 THEN 0
        ELSE LET data == node[n - 1][head[n - 1]]
             IN  Wrap(Wrap(sum[n - 1] + data.A) + data.B)
  IN  sum[N]

(* The value PrintSum prints never changes, in the int arithmetic of the   *)
(* build and even after A and B have overflowed.                           *)
SumUnchanged == PrintSum = Wrap(N * A_PLUS_B)

(* Once g_over is set every thread returns and main is able to join them.  *)
Terminates == g_over ~> main = "returned"

(* The committed version of record i: what its owner registered while it   *)
(* is in the active list, the head of its list otherwise.                  *)
Committed(i) ==
  LET entries == {k \in 1..Len(active) : active[k].id = i}
  IN  IF entries = {} THEN head[i] ELSE active[Max(entries)].version

Store == INSTANCE SnapshotStore WITH
  FirstOrder <- N,
  NoSnapshot <- NULL,
  NoRead     <- NULL,
  order      <- g_exec_order,
  committed  <- [i \in Threads |-> Committed(i)],
  ticket     <- my_version,
  snap       <- [t \in Threads |->
                   IF Reading(t) THEN [i \in Threads |-> Wanted(t, i)] ELSE NULL],
  read       <- [t \in Threads |->
                   IF pc[t] \in {"push", "erase"}
                     THEN <<sel[t], data_i[t].version>> ELSE NULL]

(* Updates read from a snapshot: the version an update reads of thread i   *)
(* is the one i had committed when the update registered itself, although  *)
(* the read takes no lock and i may have pushed several versions since.    *)
ReadsFromSnapshot == Store!Spec
=============================================================================
