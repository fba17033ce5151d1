------------------------- MODULE ParallelBfsProofs -------------------------
(***************************************************************************)
(* For any map and any number of workers: the count of free workers of a   *)
(* search is right, so a hand-over always finds one; no vertex is handed   *)
(* to a worker that has returned; no house that can be reached is missed.  *)
(* With done loaded before full, the barrier keeps all workers that visit  *)
(* vertices in one level, vertices are found at their true distance, and   *)
(* the result is right.                                                    *)
(***************************************************************************)
EXTENDS ParallelBfs, RoadMapProofs

(* A worker outside the loop over the levels. *)
Idle == {"new", "busy?", "all free?", "exit"}

CountTypes ==
  /\ pc \in [Workers -> Locations]
  /\ param = [w \in Workers |-> [start_vertex |-> param[w].start_vertex, dist |-> param[w].dist,
                                 is_busy |-> param[w].is_busy]]
  /\ \A w \in Workers : param[w].is_busy \in BOOLEAN
  /\ num_free \in Int
  /\ run \in {"start", "join", "returned"}

(* Only a worker marked busy is in the loop. *)
AtWorkIsBusy == \A w \in Workers : pc[w] \notin Idle => param[w].is_busy

(* Before Run gives the start house away, nobody has work and nobody can   *)
(* take the count for complete.                                            *)
NothingYet ==
  run = "start" => /\ num_free = 0
                   /\ \A w \in Workers : ~param[w].is_busy /\ pc[w] # "exit"

(* A worker returns only when there is nobody left who could give it work: *)
(* from then on all are free.                                              *)
ReturnedForGood == (\E w \in Workers : pc[w] = "exit") => FreeWorkers = Workers

CountInv == CountTypes /\ AtWorkIsBusy /\ NothingYet /\ ReturnedForGood /\ FreeCountRight

-----------------------------------------------------------------------------
(* The workers are a finite set of num_threads. *)
LEMMA WorkersCount ==
  /\ Workers \subseteq Nat /\ IsFiniteSet(Workers) /\ Cardinality(Workers) = num_threads
  /\ num_threads \in Nat /\ num_threads > 1 /\ 0 \in Workers
<1>1. num_threads \in Nat /\ num_threads > 1
  BY SearchAssumption
<1>2. IsFiniteSet(Workers) /\ Cardinality(Workers) = num_threads
  <2>1. /\ IsFiniteSet(0..num_threads - 1)
        /\ Cardinality(0..num_threads - 1) = IF 0 > num_threads - 1 THEN 0 ELSE num_threads - 1 - 0 + 1
    BY <1>1, FS_Interval
  <2>2. QED
    BY <1>1, <2>1 DEF Workers
<1>3. QED
  BY <1>1, <1>2 DEF Workers

LEMMA FreeFinite ==
  /\ FreeWorkers \subseteq Workers /\ IsFiniteSet(FreeWorkers)
  /\ Cardinality(FreeWorkers) \in Nat
  /\ Cardinality(FreeWorkers) = num_threads => FreeWorkers = Workers
  /\ Cardinality(FreeWorkers) > 0 => FreeWorkers # {}
<1>1. FreeWorkers \in SUBSET Workers
  BY DEF FreeWorkers
<1>2. IsFiniteSet(FreeWorkers) /\ (Cardinality(Workers) = Cardinality(FreeWorkers) => Workers = FreeWorkers)
  BY <1>1, WorkersCount, FS_Subset
<1>3. Cardinality(FreeWorkers) \in Nat
  BY <1>2, FS_CardinalityType
<1>4. Cardinality(FreeWorkers) > 0 => FreeWorkers # {}
  BY FS_EmptySet
<1>5. QED
  BY <1>1, <1>2, <1>3, <1>4, WorkersCount

(* The first free worker is free. *)
LEMMA FirstFree ==
  ASSUME FreeWorkers # {}
  PROVE  Min(FreeWorkers) \in FreeWorkers
<1>1. FreeWorkers \in SUBSET Nat
  BY WorkersCount, FreeFinite
<1>2. \E x \in FreeWorkers : \A y \in FreeWorkers : x <= y
  BY <1>1, LeastElement
<1>3. QED
  BY <1>2 DEF Min

LEMMA CountInit == Init => CountInv
<1> SUFFICES ASSUME Init PROVE CountInv
  OBVIOUS
<1>1. /\ \A w \in Workers : param[w] = [start_vertex |-> start_house, dist |-> 0, is_busy |-> FALSE]
      /\ param = [w \in Workers |-> param[w]]
      /\ \A w \in Workers : pc[w] \in {"new", "busy?"}
      /\ pc \in [Workers -> Locations] /\ num_free = 0 /\ run = "start"
  BY DEF Init, Locations
<1>2. \A w \in Workers : /\ param[w].is_busy = FALSE /\ param[w].start_vertex = start_house
                         /\ param[w].dist = 0
  BY <1>1
<1>3. param = [w \in Workers |-> [start_vertex |-> param[w].start_vertex, dist |-> param[w].dist,
                                  is_busy |-> param[w].is_busy]]
  BY <1>1, <1>2
<1>4. CountTypes
  <2>1. \A w \in Workers : param[w].is_busy \in BOOLEAN
    BY <1>2
  <2>2. num_free \in Int /\ run \in {"start", "join", "returned"}
    BY <1>1
  <2>3. QED
    BY <1>1, <1>3, <2>1, <2>2 DEF CountTypes
<1>5. AtWorkIsBusy /\ NothingYet /\ ReturnedForGood /\ FreeCountRight
  BY <1>1, <1>2 DEF AtWorkIsBusy, NothingYet, ReturnedForGood, FreeCountRight, Idle
<1>6. QED
  BY <1>4, <1>5 DEF CountInv

(* Steps of one worker that leave param and num_free alone: from work to   *)
(* work, or between idle places.                                           *)
LEMMA MoveKeeps ==
  ASSUME CountInv, UNCHANGED <<param, num_free, run>>, NEW w \in Workers, NEW to \in Locations,
         pc' = [pc EXCEPT ![w] = to],
         to \notin Idle => param[w].is_busy,
         to = "exit" => num_free = num_threads
  PROVE  CountInv'
<1> USE DEF CountInv
<1>1. pc'[w] = to /\ \A v \in Workers : v # w => pc'[v] = pc[v]
  BY DEF CountTypes
<1>2. FreeWorkers' = FreeWorkers
  BY DEF FreeWorkers
<1>3. CountTypes' /\ AtWorkIsBusy' /\ FreeCountRight'
  BY <1>1, <1>2 DEF CountTypes, AtWorkIsBusy, FreeCountRight
<1>4. to = "exit" => run # "start" /\ FreeWorkers = Workers
  BY WorkersCount, FreeFinite DEF NothingYet, FreeCountRight
<1>5. NothingYet'
  BY <1>1, <1>4 DEF NothingYet
<1>6. ReturnedForGood'
  BY <1>1, <1>2, <1>4 DEF ReturnedForGood
<1>7. QED
  BY <1>3, <1>5, <1>6

(* What giving work to worker i, or taking it away, does to the types and  *)
(* to the set of free workers.                                             *)
LEMMA BusyChange ==
  ASSUME CountInv, NEW i \in Workers, NEW v, NEW d, NEW b \in BOOLEAN,
         param' = [param EXCEPT ![i] = [start_vertex |-> v, dist |-> d, is_busy |-> b]]
  PROVE  /\ param' = [w \in Workers |->
              [start_vertex |-> param'[w].start_vertex, dist |-> param'[w].dist,
               is_busy |-> param'[w].is_busy]]
         /\ \A w \in Workers : param'[w].is_busy \in BOOLEAN
         /\ FreeWorkers' = IF b THEN FreeWorkers \ {i} ELSE FreeWorkers \cup {i}
         /\ param'[i].is_busy = b
         /\ \A w \in Workers : w # i => param'[w].is_busy = param[w].is_busy
<1> USE DEF CountInv
<1> DEFINE r == [start_vertex |-> v, dist |-> d, is_busy |-> b]
<1>1. r.start_vertex = v /\ r.dist = d /\ r.is_busy = b
  OBVIOUS
<1>2. r = [start_vertex |-> r.start_vertex, dist |-> r.dist, is_busy |-> r.is_busy]
  OBVIOUS
<1>3. \A w \in Workers : param[w] =
        [start_vertex |-> param[w].start_vertex, dist |-> param[w].dist, is_busy |-> param[w].is_busy]
  BY DEF CountTypes
<1>4. /\ param' = [w \in Workers |-> param'[w]] /\ param'[i] = r
      /\ \A w \in Workers : w # i => param'[w] = param[w]
  BY DEF CountTypes
<1> HIDE DEF r
<1>5. \A w \in Workers : param'[w] =
        [start_vertex |-> param'[w].start_vertex, dist |-> param'[w].dist, is_busy |-> param'[w].is_busy]
  BY <1>2, <1>3, <1>4
<1>6. param' = [w \in Workers |->
        [start_vertex |-> param'[w].start_vertex, dist |-> param'[w].dist, is_busy |-> param'[w].is_busy]]
  BY <1>4, <1>5
<1>7. param'[i].is_busy = b /\ \A w \in Workers : w # i => param'[w].is_busy = param[w].is_busy
  BY <1>1, <1>4
<1>8. \A w \in Workers : param'[w].is_busy \in BOOLEAN
  BY <1>7 DEF CountTypes
<1>9. FreeWorkers' = IF b THEN FreeWorkers \ {i} ELSE FreeWorkers \cup {i}
  BY <1>7 DEF FreeWorkers
<1>10. QED
  BY <1>6, <1>7, <1>8, <1>9

(* Assigning is_busy replaces the whole record. *)
LEMMA FlagChange ==
  ASSUME CountInv, NEW i \in Workers, NEW b \in BOOLEAN,
         param' = [param EXCEPT ![i].is_busy = b]
  PROVE  \E x, d : param' = [param EXCEPT ![i] = [start_vertex |-> x, dist |-> d, is_busy |-> b]]
<1> DEFINE x == param[i].start_vertex
           d == param[i].dist
           y == param[i].is_busy
<1>1. \A u, v, f : [[start_vertex |-> u, dist |-> v, is_busy |-> f] EXCEPT !.is_busy = b]
                     = [start_vertex |-> u, dist |-> v, is_busy |-> b]
  OBVIOUS
<1>2. param[i] = [start_vertex |-> x, dist |-> d, is_busy |-> y]
  BY DEF CountInv, CountTypes
<1>3. param' = [param EXCEPT ![i] = [param[i] EXCEPT !.is_busy = b]]
  OBVIOUS
<1> HIDE DEF x, d, y
<1>4. param' = [param EXCEPT ![i] = [start_vertex |-> x, dist |-> d, is_busy |-> b]]
  <2>1. [param[i] EXCEPT !.is_busy = b] = [start_vertex |-> x, dist |-> d, is_busy |-> b]
    BY <1>1, <1>2
  <2>2. QED
    BY <1>3, <2>1, Zenon
<1>5. QED
  BY <1>4

(* The start house goes to worker 0; all others are free. *)
LEMMA StartKeeps ==
  ASSUME CountInv, Start
  PROVE  CountInv'
<1> USE DEF CountInv
<1>1. /\ run = "start" /\ run' = "join" /\ num_free' = num_threads - 1 /\ 0 \in Workers
      /\ pc' = [pc EXCEPT ![0] = "busy?"]
      /\ param' = [param EXCEPT ![0].is_busy = TRUE]
  BY WorkersCount DEF Start, OthersFree
<1>2. /\ pc'[0] = "busy?" /\ \A v \in Workers : v # 0 => pc'[v] = pc[v]
      /\ pc' \in [Workers -> Locations]
  BY <1>1 DEF CountTypes, Locations
<1>3. /\ param' = [v \in Workers |->
           [start_vertex |-> param'[v].start_vertex, dist |-> param'[v].dist,
            is_busy |-> param'[v].is_busy]]
      /\ \A v \in Workers : param'[v].is_busy \in BOOLEAN
      /\ FreeWorkers' = FreeWorkers \ {0}
  <2>1. PICK x, d :
          param' = [param EXCEPT ![0] = [start_vertex |-> x, dist |-> d, is_busy |-> TRUE]]
    BY <1>1, FlagChange
  <2>2. QED
    BY <1>1, <2>1, BusyChange
<1>4. CountTypes'
  <2>1. num_free' \in Int /\ run' \in {"start", "join", "returned"}
    BY <1>1, WorkersCount
  <2>2. QED
    BY <1>2, <1>3, <2>1 DEF CountTypes
<1>5. \A v \in Workers : ~param[v].is_busy /\ pc[v] # "exit" /\ pc[v] \in Idle
  BY <1>1 DEF NothingYet, AtWorkIsBusy
<1>6. FreeWorkers' = Workers \ {0}
  BY <1>3, <1>5 DEF FreeWorkers
<1>7. Cardinality(FreeWorkers') = num_threads - 1
  BY <1>6, WorkersCount, FS_RemoveElement
<1>8. AtWorkIsBusy' /\ NothingYet' /\ ReturnedForGood' /\ FreeCountRight'
  BY <1>1, <1>2, <1>5, <1>7 DEF AtWorkIsBusy, NothingYet, ReturnedForGood, FreeCountRight, Idle
<1>9. QED
  BY <1>4, <1>8

(* The second test of num_free is under the lock: there is a free worker.  *)
LEMMA HandKeeps ==
  ASSUME CountInv, NEW w \in Workers, Hand(w)
  PROVE  CountInv'
<1> USE DEF CountInv
<1>1. pc[w] = "hand" /\ param[w].is_busy /\ run # "start" /\ run' = run
  BY DEF Hand, Goto, AtWorkIsBusy, NothingYet, Idle
<1>2. CASE num_free <= 0
  <2>1. pc' = [pc EXCEPT ![w] = "visit"] /\ UNCHANGED <<param, num_free>>
    BY <1>2 DEF Hand, Goto, CountTypes
  <2>2. "visit" \in Locations
    BY DEF Locations
  <2>3. QED
    BY <1>1, <2>1, <2>2, MoveKeeps
<1>3. CASE ~(num_free <= 0)
  <2>1. PICK i : i = Min(FreeWorkers)
    OBVIOUS
  <2>2. /\ num_free > 0 /\ num_free' = num_free - 1 /\ pc' = [pc EXCEPT ![w] = "share"]
        /\ param' = [param EXCEPT ![i] = [start_vertex |-> Last(cur_vertices[w]),
                                          dist |-> dist[w], is_busy |-> TRUE]]
    BY <1>3, <2>1 DEF Hand, Goto
  <2>3. num_free = Cardinality(FreeWorkers) /\ FreeWorkers # {}
    BY <1>1, <2>2, FreeFinite DEF FreeCountRight
  <2>4. i \in FreeWorkers /\ i \in Workers
    BY <2>1, <2>3, FirstFree, FreeFinite
  <2>5. /\ param' = [v \in Workers |->
             [start_vertex |-> param'[v].start_vertex, dist |-> param'[v].dist,
              is_busy |-> param'[v].is_busy]]
        /\ \A v \in Workers : param'[v].is_busy \in BOOLEAN
        /\ FreeWorkers' = FreeWorkers \ {i}
        /\ param'[i].is_busy = TRUE
        /\ \A v \in Workers : v # i => param'[v].is_busy = param[v].is_busy
    <3> DEFINE x == Last(cur_vertices[w])
               d == dist[w]
    <3>1. param' = [param EXCEPT ![i] = [start_vertex |-> x, dist |-> d, is_busy |-> TRUE]]
      BY <2>2
    <3> HIDE DEF x, d
    <3>2. QED
      BY <2>4, <3>1, BusyChange
  <2>6. Cardinality(FreeWorkers') = num_free - 1
    BY <2>3, <2>4, <2>5, FreeFinite, FS_RemoveElement
  <2>7. /\ pc'[w] = "share" /\ \A v \in Workers : v # w => pc'[v] = pc[v]
        /\ pc' \in [Workers -> Locations]
    BY <2>2 DEF CountTypes, Locations
  <2>8. CountTypes'
    <3>1. num_free' \in Int /\ run' \in {"start", "join", "returned"}
      BY <1>1, <2>2 DEF CountTypes
    <3>2. QED
      BY <2>5, <2>7, <3>1 DEF CountTypes
  <2>9. \A v \in Workers : pc[v] # "exit"
    BY <1>1 DEF ReturnedForGood, FreeWorkers
  <2>10. AtWorkIsBusy'
    BY <1>1, <2>5, <2>7 DEF AtWorkIsBusy
  <2>11. NothingYet' /\ ReturnedForGood' /\ FreeCountRight'
    BY <1>1, <2>2, <2>6, <2>7, <2>9 DEF NothingYet, ReturnedForGood, FreeCountRight
  <2>12. QED
    BY <2>8, <2>10, <2>11
<1>4. QED
  BY <1>2, <1>3

(* The worker is busy until it counts itself as free. *)
LEMMA GoodbyeKeeps ==
  ASSUME CountInv, NEW w \in Workers, Goodbye(w)
  PROVE  CountInv'
<1> USE DEF CountInv
<1>1. /\ pc[w] = "bye" /\ param[w].is_busy /\ run # "start" /\ run' = run
      /\ pc' = [pc EXCEPT ![w] = "busy?"] /\ num_free' = num_free + 1
      /\ param' = [param EXCEPT ![w].is_busy = FALSE]
  BY DEF Goodbye, Goto, Freed, AtWorkIsBusy, NothingYet, Idle
<1>2. /\ param' = [v \in Workers |->
           [start_vertex |-> param'[v].start_vertex, dist |-> param'[v].dist,
            is_busy |-> param'[v].is_busy]]
      /\ \A v \in Workers : param'[v].is_busy \in BOOLEAN
      /\ FreeWorkers' = FreeWorkers \cup {w}
      /\ param'[w].is_busy = FALSE
      /\ \A v \in Workers : v # w => param'[v].is_busy = param[v].is_busy
  <2>1. PICK x, d :
          param' = [param EXCEPT ![w] = [start_vertex |-> x, dist |-> d, is_busy |-> FALSE]]
    BY <1>1, FlagChange
  <2>2. QED
    BY <2>1, BusyChange
<1>3. Cardinality(FreeWorkers') = num_free + 1
  <2>1. w \notin FreeWorkers /\ num_free = Cardinality(FreeWorkers)
    BY <1>1 DEF FreeWorkers, FreeCountRight
  <2>2. QED
    BY <1>2, <2>1, FreeFinite, FS_AddElement
<1>4. /\ pc'[w] = "busy?" /\ \A v \in Workers : v # w => pc'[v] = pc[v]
      /\ pc' \in [Workers -> Locations]
  BY <1>1 DEF CountTypes, Locations
<1>5. CountTypes'
  <2>1. num_free' \in Int /\ run' \in {"start", "join", "returned"}
    BY <1>1 DEF CountTypes
  <2>2. QED
    BY <1>2, <1>4, <2>1 DEF CountTypes
<1>6. \A v \in Workers : pc[v] # "exit"
  BY <1>1 DEF ReturnedForGood, FreeWorkers
<1>7. AtWorkIsBusy'
  BY <1>2, <1>4 DEF AtWorkIsBusy, Idle
<1>8. NothingYet' /\ ReturnedForGood' /\ FreeCountRight'
  BY <1>1, <1>3, <1>4, <1>6 DEF NothingYet, ReturnedForGood, FreeCountRight
<1>9. QED
  BY <1>5, <1>7, <1>8

(* All other steps of a worker only move it. *)
LEMMA WorkerKeeps ==
  ASSUME CountInv, NEW w \in Workers, BeginWorkAt(w)
  PROVE  CountInv'
<1>1. CASE Hand(w)
  BY <1>1, HandKeeps
<1>2. CASE Goodbye(w)
  BY <1>2, GoodbyeKeeps
<1>3. CASE AwaitWork(w)
  <2>1. PICK to \in {"level", "all free?"} :
          /\ pc' = [pc EXCEPT ![w] = to] /\ UNCHANGED <<param, num_free, run>>
          /\ to = "level" => param[w].is_busy
    BY <1>3 DEF AwaitWork, Goto, shared
  <2>2. to \in Locations /\ to # "exit" /\ (to \notin Idle => param[w].is_busy)
    BY <2>1 DEF Locations, Idle
  <2>3. QED
    BY <2>1, <2>2, MoveKeeps
<1>4. CASE AllFree(w)
  <2>1. PICK to \in {"exit", "busy?"} :
          /\ pc' = [pc EXCEPT ![w] = to] /\ UNCHANGED <<param, num_free, run>>
          /\ to = "exit" => num_free = num_threads
    BY <1>4 DEF AllFree, Goto, shared
  <2>2. to \in Locations /\ to \in Idle
    BY <2>1 DEF Locations, Idle
  <2>3. QED
    BY <2>1, <2>2, MoveKeeps
<1>5. CASE \/ Level(w) \/ Share(w) \/ Visit(w) \/ Mark(w) \/ UpdateResult(w) \/ Publish(w)
           \/ Finish(w) \/ Load(w) \/ Test(w) \/ Pass(w)
  <2>1. pc[w] \notin Idle /\ UNCHANGED <<param, num_free, run>>
    BY <1>5 DEF Level, Share, Visit, Mark, UpdateResult, Publish, Finish, Load, Test, Pass,
                Goto, Idle, shared, local
  <2>2. PICK to \in Locations \ Idle : pc' = [pc EXCEPT ![w] = to]
    BY <1>5 DEF Level, Share, Visit, Mark, UpdateResult, Publish, Finish, Load, Test, Pass,
                Goto, Locations, Idle
  <2>3. to # "exit" /\ param[w].is_busy
    BY <2>1, <2>2 DEF Idle, CountInv, AtWorkIsBusy
  <2>4. QED
    BY <2>1, <2>2, <2>3, MoveKeeps
<1>6. QED
  BY <1>1, <1>2, <1>3, <1>4, <1>5 DEF BeginWorkAt

LEMMA CountStep == CountInv /\ [Next]_vars => CountInv'
<1> SUFFICES ASSUME CountInv, [Next]_vars PROVE CountInv'
  OBVIOUS
<1>1. CASE UNCHANGED <<pc, param, num_free>> /\ (run' = run \/ (run = "join" /\ run' = "returned"))
  <2>1. FreeWorkers' = FreeWorkers
    BY <1>1 DEF FreeWorkers
  <2>2. CountTypes' /\ AtWorkIsBusy'
    BY <1>1 DEF CountInv, CountTypes, AtWorkIsBusy
  <2>3. NothingYet' /\ ReturnedForGood' /\ FreeCountRight'
    BY <1>1, <2>1 DEF CountInv, NothingYet, ReturnedForGood, FreeCountRight
  <2>4. QED
    BY <2>2, <2>3 DEF CountInv
<1>2. CASE \E w \in Workers : BeginWorkAt(w)
  BY <1>2, WorkerKeeps
<1>3. CASE Start
  BY <1>3, StartKeeps
<1>4. QED
  BY <1>1, <1>2, <1>3 DEF Next, Return, Elsewhere, shared, local, vars

-----------------------------------------------------------------------------
(* The invariant of the free workers, for any map and number of workers. *)
THEOREM CountInvariant == Spec => []CountInv
<1>1. QED
  BY CountInit, CountStep, PTL DEF Spec

(* num_free_workers_ counts the workers that are not busy, so the search   *)
(* for one in a hand-over never runs past the end of workers_.             *)
THEOREM FreeWorkersCounted == Spec => []FreeCountRight
<1>1. CountInv => FreeCountRight
  BY DEF CountInv
<1>2. QED
  BY <1>1, CountInvariant, PTL

(* A hand-over never picks a worker whose thread has returned: the vertex  *)
(* would be lost, and its bit in the full set would hold the others at the *)
(* barrier for ever.                                                       *)
HandedToWaiting ==
  \A w, i \in Workers : pc[w] = "hand" => pc[i] # "exit"

THEOREM WorkGoesToLiveWorkers == Spec => []HandedToWaiting
<1>1. CountInv => HandedToWaiting
  BY DEF CountInv, AtWorkIsBusy, ReturnedForGood, FreeWorkers, HandedToWaiting, Idle
<1>2. QED
  BY <1>1, CountInvariant, PTL

-----------------------------------------------------------------------------
(* The barrier between two levels                                          *)

Busy == {w \in Workers : param[w].is_busy}

(* The level a busy worker is in, or has been given and not begun. *)
LevelOf(w) == IF pc[w] \in Idle THEN param[w].dist ELSE dist[w]

(* Where a worker is that has finished its part of a level. *)
AtBarrier(w) == pc[w] \in {"load", "test", "pass"}

(* Where a worker does its part of a level. *)
InLevel(w) == pc[w] \in {"share", "hand", "visit", "mark", "update", "publish", "finish"}

BarrierTypes ==
  /\ full \in [0..1 -> SUBSET Workers]
  /\ done \in [0..1 -> SUBSET Workers]
  /\ done_flag \in [0..1 -> BOOLEAN]
  /\ loaded \in [Workers -> SUBSET Workers]
  /\ dist \in [Workers -> Nat]
  /\ \A w \in Workers : param[w].dist \in Nat

(* L is the latest level anybody has reached and b its pair of bit sets:   *)
(* all busy workers are expected at its end; one that is still in the      *)
(* level before is on its way through a barrier that somebody has passed;  *)
(* only workers at the end of L have reported; and as soon as one is       *)
(* through the test, all are at the end of L.                              *)
BarrierAt(L, b) ==
  /\ b = L % 2
  /\ full[b] = Busy
  /\ ~done_flag[b]
  /\ \A w \in Busy : \/ LevelOf(w) = L
                     \/ LevelOf(w) = L - 1 /\ AtBarrier(w) /\ done_flag[1 - b]
  /\ \A w \in done[b] : w \in Busy /\ LevelOf(w) = L /\ AtBarrier(w)
  /\ \A w \in Busy : pc[w] = "test" => loaded[w] \subseteq done[dist[w] % 2]
  /\ \A w, v \in Busy : pc[w] = "pass" /\ dist[w] = L => LevelOf(v) = L /\ AtBarrier(v)

(* Nothing has happened to the bit sets before worker 0 gets its vertex. *)
AtStart ==
  run = "start" => /\ \A b \in 0..1 : done[b] = {} /\ full[b] = {} /\ ~done_flag[b]
                   /\ param[0].dist = 0

BarrierInv ==
  /\ BarrierTypes /\ AtStart
  /\ load_first = "done" => \E L \in Nat : \E b \in 0..1 : BarrierAt(L, b)

LEMMA Parities ==
  \A n \in Nat : /\ n % 2 \in 0..1 /\ 1 - (n % 2) \in 0..1
                 /\ (n + 1) % 2 = 1 - (n % 2)
                 /\ n - 1 \in Nat => (n - 1) % 2 = 1 - (n % 2)
OBVIOUS

(* What holds of busy workers when the barrier invariant does, in the      *)
(* form the steps below use it.                                            *)
LEMMA AtWork ==
  ASSUME CountInv, NEW w \in Workers, pc[w] \notin Idle
  PROVE  w \in Busy /\ LevelOf(w) = dist[w]
BY DEF CountInv, AtWorkIsBusy, Busy, LevelOf

(* A worker inside a level is in the latest one. *)
LEMMA InLatest ==
  ASSUME CountInv, NEW L \in Nat, NEW b \in 0..1, BarrierAt(L, b),
         NEW w \in Workers, pc[w] \notin Idle, ~AtBarrier(w)
  PROVE  /\ w \in Busy /\ LevelOf(w) = L /\ dist[w] = L /\ w \notin done[b]
         /\ \A v \in Busy : ~(pc[v] = "pass" /\ dist[v] = L)
<1>1. w \in Busy /\ LevelOf(w) = dist[w]
  BY AtWork
<1>2. QED
  BY <1>1 DEF BarrierAt

(* A step of one worker that stays in its level and on its side of the     *)
(* end of the level, and changes none of the bit sets.                     *)
LEMMA QuietBarrier ==
  ASSUME CountInv, NEW L \in Nat, NEW b \in 0..1, BarrierAt(L, b),
         UNCHANGED <<param, full, done, done_flag>>,
         NEW w \in Workers,
         \A v \in Workers : v # w => pc'[v] = pc[v] /\ dist'[v] = dist[v] /\ loaded'[v] = loaded[v],
         LevelOf(w)' = LevelOf(w),
         AtBarrier(w)' <=> AtBarrier(w),
         w \in Busy /\ pc'[w] = "test" => loaded'[w] \subseteq done[dist'[w] % 2],
         w \in Busy /\ pc'[w] = "pass" /\ dist'[w] = L =>
           \A v \in Busy : LevelOf(v) = L /\ AtBarrier(v)
  PROVE  BarrierAt(L, b)'
<1>1. Busy' = Busy /\ Busy \subseteq Workers
  BY DEF Busy
<1>2. \A v \in Workers : LevelOf(v)' = LevelOf(v) /\ (AtBarrier(v)' <=> AtBarrier(v))
  BY DEF LevelOf, AtBarrier
<1>3. full'[b] = Busy' /\ ~done_flag'[b] /\ b = L % 2
  BY <1>1 DEF BarrierAt
<1>4. \A v \in Busy' : \/ LevelOf(v)' = L
                       \/ LevelOf(v)' = L - 1 /\ AtBarrier(v)' /\ done_flag'[1 - b]
  BY <1>1, <1>2 DEF BarrierAt
<1>5. \A v \in done'[b] : v \in Busy' /\ LevelOf(v)' = L /\ AtBarrier(v)'
  BY <1>1, <1>2 DEF BarrierAt
<1>6. \A v \in Busy' : pc'[v] = "test" => loaded'[v] \subseteq done'[dist'[v] % 2]
  BY <1>1 DEF BarrierAt
<1>7. \A u, v \in Busy' : pc'[u] = "pass" /\ dist'[u] = L => LevelOf(v)' = L /\ AtBarrier(v)'
  BY <1>1, <1>2 DEF BarrierAt
<1>8. QED
  BY <1>3, <1>4, <1>5, <1>6, <1>7 DEF BarrierAt

(* Steps outside the barrier that change none of its variables: from       *)
(* before the end of a level to before it.                                 *)
LEMMA InsideBarrier ==
  ASSUME CountInv, NEW L \in Nat, NEW b \in 0..1, BarrierAt(L, b),
         NEW w \in Workers, NEW to \in Locations,
         pc' = [pc EXCEPT ![w] = to],
         UNCHANGED <<param, full, done, done_flag, dist, loaded>>,
         pc[w] \in Idle <=> to \in Idle,
         ~AtBarrier(w), to \notin {"load", "test", "pass"}
  PROVE  BarrierAt(L, b)'
<1>1. pc'[w] = to /\ \A v \in Workers : v # w => pc'[v] = pc[v]
  BY DEF CountInv, CountTypes
<1>2. LevelOf(w)' = LevelOf(w) /\ ~AtBarrier(w)'
  BY <1>1 DEF LevelOf, AtBarrier
<1>3. QED
  BY <1>1, <1>2, QuietBarrier

(* A helper takes up its vertex at the level it was given. *)
LEMMA AwaitBarrier ==
  ASSUME CountInv, BarrierTypes, NEW L \in Nat, NEW b \in 0..1, BarrierAt(L, b),
         NEW w \in Workers, AwaitWork(w)
  PROVE  BarrierAt(L, b)'
<1>1. UNCHANGED <<param, full, done, done_flag, loaded>>
  BY DEF AwaitWork, shared
<1>a. pc[w] = "busy?"
  BY DEF AwaitWork, Goto
<1>2. CASE param[w].is_busy
  <2>1. pc' = [pc EXCEPT ![w] = "level"] /\ dist' = [dist EXCEPT ![w] = param[w].dist]
    BY <1>2, Zenon DEF AwaitWork, Goto
  <2>2. /\ pc'[w] = "level" /\ dist'[w] = param[w].dist
        /\ \A v \in Workers : v # w => pc'[v] = pc[v] /\ dist'[v] = dist[v]
    BY <2>1 DEF CountInv, CountTypes, BarrierTypes
  <2>3. LevelOf(w)' = LevelOf(w) /\ ~AtBarrier(w)' /\ ~AtBarrier(w)
    BY <1>1, <1>a, <2>2 DEF LevelOf, AtBarrier, Idle
  <2>4. QED
    BY <1>1, <2>2, <2>3, QuietBarrier
<1>3. CASE ~param[w].is_busy
  <2>1. pc' = [pc EXCEPT ![w] = "all free?"]
    BY <1>3, Zenon DEF AwaitWork, Goto
  <2>2. dist' = dist
    BY <1>3 DEF AwaitWork
  <2>3. /\ pc[w] \in Idle /\ "all free?" \in Idle /\ ~AtBarrier(w)
        /\ "all free?" \in Locations /\ "all free?" \notin {"load", "test", "pass"}
    BY <1>a DEF Idle, Locations, AtBarrier
  <2>4. QED
    BY <1>1, <2>1, <2>2, <2>3, InsideBarrier
<1>4. QED
  BY <1>2, <1>3

(* Loading done: what is loaded has been reported. *)
LEMMA LoadBarrier ==
  ASSUME CountInv, BarrierTypes, load_first = "done",
         NEW L \in Nat, NEW b \in 0..1, BarrierAt(L, b), NEW w \in Workers, Load(w)
  PROVE  BarrierAt(L, b)'
<1>1. /\ UNCHANGED <<param, full, done, done_flag, dist>> /\ pc[w] = "load"
      /\ pc' = [pc EXCEPT ![w] = "test"]
      /\ loaded' = [loaded EXCEPT ![w] = done[dist[w] % 2]]
  BY DEF Load, Goto, shared, Parity
<1>2. /\ pc'[w] = "test" /\ loaded'[w] = done[dist[w] % 2]
      /\ \A v \in Workers : v # w => pc'[v] = pc[v] /\ loaded'[v] = loaded[v]
  BY <1>1 DEF CountInv, CountTypes, BarrierTypes
<1>3. /\ pc[w] \notin Idle /\ pc'[w] \notin Idle
      /\ AtBarrier(w)' /\ AtBarrier(w) /\ pc'[w] # "pass"
  BY <1>1, <1>2 DEF AtBarrier, Idle
<1>a. LevelOf(w)' = LevelOf(w)
  BY <1>1, <1>3 DEF LevelOf
<1>4. QED
  BY <1>1, <1>2, <1>3, <1>a, QuietBarrier

(* The test: who gets through it in the latest level sees that all busy    *)
(* workers have reported, since full is loaded after done.                 *)
LEMMA TestBarrier ==
  ASSUME CountInv, BarrierTypes, load_first = "done",
         NEW L \in Nat, NEW b \in 0..1, BarrierAt(L, b), NEW w \in Workers, Test(w)
  PROVE  BarrierAt(L, b)'
<1>1. /\ UNCHANGED <<param, full, done, done_flag, dist>> /\ pc[w] = "test"
      /\ pc' = [pc EXCEPT ![w] = IF full[dist[w] % 2] \subseteq loaded[w] THEN "pass" ELSE "load"]
      /\ loaded' = [loaded EXCEPT ![w] = {}]
  BY DEF Test, Goto, shared, Parity
<1>2. /\ pc'[w] = IF full[dist[w] % 2] \subseteq loaded[w] THEN "pass" ELSE "load"
      /\ \A v \in Workers : v # w => pc'[v] = pc[v] /\ loaded'[v] = loaded[v]
  BY <1>1 DEF CountInv, CountTypes, BarrierTypes
<1>3. pc'[w] \in {"load", "pass"}
  BY <1>2
<1>a. /\ pc[w] \notin Idle /\ pc'[w] \notin Idle
      /\ AtBarrier(w)' /\ AtBarrier(w) /\ pc'[w] # "test"
  BY <1>1, <1>3 DEF AtBarrier, Idle
<1>b. LevelOf(w)' = LevelOf(w)
  BY <1>1, <1>a DEF LevelOf
<1>4. ASSUME w \in Busy, pc'[w] = "pass", dist[w] = L, NEW v \in Busy
      PROVE  LevelOf(v) = L /\ AtBarrier(v)
  <2>1. full[b] \subseteq loaded[w] /\ loaded[w] \subseteq done[b]
    BY <1>1, <1>2, <1>4 DEF BarrierAt
  <2>2. v \in done[b]
    BY <2>1 DEF BarrierAt
  <2>3. QED
    BY <2>2 DEF BarrierAt
<1>5. QED
  BY <1>1, <1>2, <1>a, <1>b, <1>4, QuietBarrier

(* A worker reports that it has finished the level: it is in the latest. *)
LEMMA FinishBarrier ==
  ASSUME CountInv, BarrierTypes,
         NEW L \in Nat, NEW b \in 0..1, BarrierAt(L, b), NEW w \in Workers, Finish(w)
  PROVE  BarrierAt(L, b)'
<1>1. /\ UNCHANGED <<param, full, done_flag, dist, loaded>> /\ pc[w] = "finish"
      /\ pc' = [pc EXCEPT ![w] = "load"]
      /\ done' = [done EXCEPT ![dist[w] % 2] = @ \cup {w}]
  BY DEF Finish, Goto, local, Parity
<1>2. pc[w] \notin Idle /\ ~AtBarrier(w)
  BY <1>1 DEF Idle, AtBarrier
<1>3. /\ w \in Busy /\ LevelOf(w) = L /\ dist[w] = L
      /\ \A v \in Busy : ~(pc[v] = "pass" /\ dist[v] = L)
  BY <1>2, InLatest
<1>4. pc'[w] = "load" /\ \A v \in Workers : v # w => pc'[v] = pc[v]
  BY <1>1 DEF CountInv, CountTypes
<1>5. b = L % 2 /\ done'[b] = done[b] \cup {w} /\ \A c \in 0..1 : done[c] \subseteq done'[c]
  BY <1>1, <1>3 DEF BarrierAt, BarrierTypes
<1>6. Busy' = Busy /\ Busy \subseteq Workers
  BY <1>1 DEF Busy
<1>7. \A v \in Workers : LevelOf(v)' = LevelOf(v)
  <2>1. pc'[w] \notin Idle
    BY <1>4 DEF Idle
  <2>2. QED
    BY <1>1, <1>2, <1>4, <2>1 DEF LevelOf
<1>8. AtBarrier(w)' /\ \A v \in Workers : AtBarrier(v) => AtBarrier(v)'
  BY <1>4 DEF AtBarrier
<1>9. full'[b] = Busy' /\ ~done_flag'[b]
  BY <1>1, <1>6 DEF BarrierAt
<1>10. \A v \in Busy' : \/ LevelOf(v)' = L
                        \/ LevelOf(v)' = L - 1 /\ AtBarrier(v)' /\ done_flag'[1 - b]
  BY <1>1, <1>6, <1>7, <1>8 DEF BarrierAt
<1>11. \A v \in done'[b] : v \in Busy' /\ LevelOf(v)' = L /\ AtBarrier(v)'
  BY <1>3, <1>5, <1>6, <1>7, <1>8 DEF BarrierAt
<1>12. \A v \in Busy' : pc'[v] = "test" => loaded'[v] \subseteq done'[dist'[v] % 2]
  <2>1. SUFFICES ASSUME NEW v \in Busy, pc'[v] = "test"
                 PROVE  loaded[v] \subseteq done'[dist[v] % 2]
    BY <1>1, <1>6
  <2>2. pc[v] = "test"
    BY <1>4, <1>6, <2>1
  <2>3. loaded[v] \subseteq done[dist[v] % 2]
    BY <2>2 DEF BarrierAt
  <2>4. dist[v] % 2 \in 0..1
    BY <1>6, Parities DEF BarrierTypes
  <2>5. QED
    BY <1>5, <2>3, <2>4
<1>13. \A u, v \in Busy' : pc'[u] = "pass" /\ dist'[u] = L => LevelOf(v)' = L /\ AtBarrier(v)'
  BY <1>1, <1>3, <1>4, <1>6
<1>14. QED
  BY <1>5, <1>9, <1>10, <1>11, <1>12, <1>13 DEF BarrierAt

(* A worker that leaves the search is in the latest level and has not      *)
(* reported there.                                                         *)
LEMMA GoodbyeBarrier ==
  ASSUME CountInv, BarrierTypes,
         NEW L \in Nat, NEW b \in 0..1, BarrierAt(L, b), NEW w \in Workers, Goodbye(w)
  PROVE  BarrierAt(L, b)'
<1>1. /\ UNCHANGED <<done, done_flag, dist, loaded>> /\ pc[w] = "bye"
      /\ pc' = [pc EXCEPT ![w] = "busy?"]
      /\ full' = [c \in 0..1 |-> full[c] \ {w}]
      /\ param' = [param EXCEPT ![w].is_busy = FALSE]
  BY DEF Goodbye, Goto, Leave, Freed, local
<1>2. pc[w] \notin Idle /\ ~AtBarrier(w)
  BY <1>1 DEF Idle, AtBarrier
<1>3. /\ w \notin done[b]
      /\ \A v \in Busy : ~(pc[v] = "pass" /\ dist[v] = L)
  BY <1>2, InLatest
<1>4. \A v \in Workers : v # w => pc'[v] = pc[v] /\ param'[v] = param[v]
  BY <1>1 DEF CountInv, CountTypes
<1>5. param'[w].is_busy = FALSE
  <2>1. param = [v \in Workers |-> [start_vertex |-> param[v].start_vertex, dist |-> param[v].dist,
                                    is_busy |-> param[v].is_busy]]
    BY DEF CountInv, CountTypes
  <2>2. QED
    BY <1>1, <2>1
<1>6. Busy' = Busy \ {w} /\ Busy \subseteq Workers
  BY <1>4, <1>5 DEF Busy
<1>7. \A v \in Workers : v # w => LevelOf(v)' = LevelOf(v) /\ (AtBarrier(v)' <=> AtBarrier(v))
  BY <1>1, <1>4 DEF LevelOf, AtBarrier
<1>8. b = L % 2 /\ full'[b] = Busy' /\ ~done_flag'[b]
  BY <1>1, <1>6 DEF BarrierAt
<1>9. \A v \in Busy' : \/ LevelOf(v)' = L
                       \/ LevelOf(v)' = L - 1 /\ AtBarrier(v)' /\ done_flag'[1 - b]
  BY <1>1, <1>6, <1>7 DEF BarrierAt
<1>10. \A v \in done'[b] : v \in Busy' /\ LevelOf(v)' = L /\ AtBarrier(v)'
  BY <1>1, <1>3, <1>6, <1>7 DEF BarrierAt
<1>11. \A v \in Busy' : pc'[v] = "test" => loaded'[v] \subseteq done'[dist'[v] % 2]
  BY <1>1, <1>4, <1>6 DEF BarrierAt
<1>12. \A u, v \in Busy' : pc'[u] = "pass" /\ dist'[u] = L => LevelOf(v)' = L /\ AtBarrier(v)'
  BY <1>1, <1>3, <1>4, <1>6
<1>13. QED
  BY <1>8, <1>9, <1>10, <1>11, <1>12 DEF BarrierAt

(* What a hand-over does: a free worker, outside the loop, gets a vertex   *)
(* at the level of the one who hands it over.                              *)
LEMMA HandOver ==
  ASSUME CountInv, BarrierTypes, NEW w \in Workers, Hand(w), ~(num_free <= 0)
  PROVE  /\ UNCHANGED <<done, done_flag, dist, loaded>>
         /\ pc[w] = "hand" /\ pc' = [pc EXCEPT ![w] = "share"]
         /\ \E i \in Workers :
              /\ ~param[i].is_busy /\ pc[i] \in Idle /\ i # w
              /\ param'[i].is_busy = TRUE /\ param'[i].dist = dist[w]
              /\ param'[i].start_vertex = Last(cur_vertices[w])
              /\ \A v \in Workers : v # i => param'[v] = param[v]
              /\ full' = [full EXCEPT ![dist[w] % 2] = @ \cup {i}]
<1>1. PICK i : i = Min(FreeWorkers)
  OBVIOUS
<1>2. pc[w] = "hand" /\ param[w].is_busy /\ run # "start"
  BY DEF Hand, Goto, CountInv, AtWorkIsBusy, NothingYet, Idle
<1>3. /\ num_free > 0 /\ pc' = [pc EXCEPT ![w] = "share"]
      /\ param' = [param EXCEPT ![i] = [start_vertex |-> Last(cur_vertices[w]),
                                        dist |-> dist[w], is_busy |-> TRUE]]
      /\ full' = [full EXCEPT ![dist[w] % 2] = @ \cup {i}]
  BY <1>1 DEF Hand, Goto, Join, Parity
<1>4. UNCHANGED <<done, done_flag, dist, loaded>>
  BY DEF Hand
<1>5. FreeWorkers # {}
  BY <1>2, <1>3, FreeFinite DEF CountInv, FreeCountRight
<1>6. i \in FreeWorkers /\ i \in Workers
  BY <1>1, <1>5, FirstFree, FreeFinite
<1>7. ~param[i].is_busy /\ pc[i] \in Idle /\ i # w
  BY <1>2, <1>6 DEF FreeWorkers, CountInv, AtWorkIsBusy
<1>8. PICK x : x = Last(cur_vertices[w])
  OBVIOUS
<1>9. param'[i] = [start_vertex |-> x, dist |-> dist[w], is_busy |-> TRUE]
  BY <1>3, <1>6, <1>8 DEF CountInv, CountTypes
<1>10. \A v \in Workers : v # i => param'[v] = param[v]
  BY <1>3, <1>6 DEF CountInv, CountTypes
<1>11. param'[i].is_busy = TRUE /\ param'[i].dist = dist[w] /\ param'[i].start_vertex = Last(cur_vertices[w])
  BY <1>8, <1>9
<1>12. QED
  BY <1>2, <1>3, <1>4, <1>6, <1>7, <1>10, <1>11

LEMMA HandBarrier ==
  ASSUME CountInv, BarrierTypes,
         NEW L \in Nat, NEW b \in 0..1, BarrierAt(L, b), NEW w \in Workers, Hand(w)
  PROVE  BarrierAt(L, b)'
<1>1. CASE num_free <= 0
  <2>1. /\ UNCHANGED <<param, full, done, done_flag, dist, loaded>> /\ pc[w] = "hand"
        /\ pc' = [pc EXCEPT ![w] = "visit"]
    BY <1>1 DEF Hand, Goto, CountInv, CountTypes
  <2>2. /\ pc[w] \notin Idle /\ "visit" \notin Idle /\ ~AtBarrier(w)
        /\ "visit" \in Locations /\ "visit" \notin {"load", "test", "pass"}
    BY <2>1 DEF Idle, Locations, AtBarrier
  <2>3. QED
    BY <2>1, <2>2, InsideBarrier
<1>2. CASE ~(num_free <= 0)
  <2>1. /\ UNCHANGED <<done, done_flag, dist, loaded>> /\ pc[w] = "hand"
        /\ pc' = [pc EXCEPT ![w] = "share"]
    BY <1>2, HandOver
  <2>2. PICK i \in Workers :
              /\ ~param[i].is_busy /\ pc[i] \in Idle /\ i # w
              /\ param'[i].is_busy = TRUE /\ param'[i].dist = dist[w]
              /\ \A v \in Workers : v # i => param'[v] = param[v]
              /\ full' = [full EXCEPT ![dist[w] % 2] = @ \cup {i}]
    BY <1>2, HandOver
  <2>3. pc[w] \notin Idle /\ ~AtBarrier(w)
    BY <2>1 DEF Idle, AtBarrier
  <2>4. /\ w \in Busy /\ dist[w] = L /\ w \notin done[b]
        /\ \A v \in Busy : ~(pc[v] = "pass" /\ dist[v] = L)
    BY <2>3, InLatest
  <2>5. pc'[w] = "share" /\ \A v \in Workers : v # w => pc'[v] = pc[v]
    BY <2>1 DEF CountInv, CountTypes
  <2>6. Busy' = Busy \cup {i} /\ i \notin Busy /\ Busy \subseteq Workers
    BY <2>2 DEF Busy
  <2>7. pc'[w] \notin Idle /\ ~AtBarrier(w)'
    BY <2>5 DEF Idle, AtBarrier
  <2>8. LevelOf(i)' = L
    BY <2>2, <2>4, <2>5 DEF LevelOf
  <2>9. \A v \in Workers : v # i => LevelOf(v)' = LevelOf(v) /\ (AtBarrier(v)' <=> AtBarrier(v))
    <3>1. \A v \in Workers : v # i => LevelOf(v)' = LevelOf(v)
      BY <2>1, <2>2, <2>3, <2>5, <2>7 DEF LevelOf
    <3>2. \A v \in Workers : AtBarrier(v)' <=> AtBarrier(v)
      BY <2>3, <2>5, <2>7 DEF AtBarrier
    <3>3. QED
      BY <3>1, <3>2
  <2>10. pc'[i] \notin {"test", "pass"}
    BY <2>2, <2>5 DEF Idle
  <2>11. b = L % 2 /\ full'[b] = Busy' /\ ~done_flag'[b]
    BY <2>1, <2>2, <2>4, <2>6 DEF BarrierAt, BarrierTypes
  <2>12. \A v \in Busy' : \/ LevelOf(v)' = L
                          \/ LevelOf(v)' = L - 1 /\ AtBarrier(v)' /\ done_flag'[1 - b]
    BY <2>1, <2>6, <2>8, <2>9 DEF BarrierAt
  <2>13. \A v \in done'[b] : v \in Busy' /\ LevelOf(v)' = L /\ AtBarrier(v)'
    BY <2>1, <2>6, <2>9 DEF BarrierAt
  <2>14. \A v \in Busy' : pc'[v] = "test" => loaded'[v] \subseteq done'[dist'[v] % 2]
    BY <2>1, <2>5, <2>6, <2>10 DEF BarrierAt
  <2>15. \A u, v \in Busy' : pc'[u] = "pass" /\ dist'[u] = L => LevelOf(v)' = L /\ AtBarrier(v)'
    BY <2>1, <2>4, <2>5, <2>6, <2>10
  <2>16. QED
    BY <2>11, <2>12, <2>13, <2>14, <2>15 DEF BarrierAt
<1>3. QED
  BY <1>1, <1>2

(* The first worker past the barrier opens the next level with the other   *)
(* pair of bit sets; the others follow it.                                 *)
LEMMA PassBarrier ==
  ASSUME CountInv, BarrierTypes,
         NEW L \in Nat, NEW b \in 0..1, BarrierAt(L, b), NEW w \in Workers, Pass(w)
  PROVE  \/ /\ dist[w] = L /\ BarrierAt(L + 1, 1 - b)'
            /\ \A v \in Busy : LevelOf(v) = L /\ AtBarrier(v)
         \/ dist[w] = L - 1 /\ BarrierAt(L, b)'
<1>1. /\ UNCHANGED <<param, loaded>> /\ pc[w] = "pass"
      /\ pc' = [pc EXCEPT ![w] = "level"] /\ dist' = [dist EXCEPT ![w] = dist[w] + 1]
  BY DEF Pass, Goto
<1>2. /\ pc'[w] = "level" /\ dist'[w] = dist[w] + 1
      /\ \A v \in Workers : v # w => pc'[v] = pc[v] /\ dist'[v] = dist[v]
  BY <1>1 DEF CountInv, CountTypes, BarrierTypes
<1>3. pc[w] \notin Idle /\ pc'[w] \notin Idle /\ ~AtBarrier(w)'
  BY <1>1, <1>2 DEF Idle, AtBarrier
<1>4. w \in Busy /\ LevelOf(w) = dist[w]
  BY <1>3, AtWork
<1>5. Busy' = Busy /\ Busy \subseteq Workers
  BY <1>1 DEF Busy
<1>6. LevelOf(w)' = dist[w] + 1
  BY <1>2, <1>3 DEF LevelOf
<1>7. \A v \in Workers : v # w => LevelOf(v)' = LevelOf(v) /\ (AtBarrier(v)' <=> AtBarrier(v))
  BY <1>1, <1>2 DEF LevelOf, AtBarrier
<1>8. CASE dist[w] = L
  <2> DEFINE c == 1 - b
  <2>1. b = L % 2 /\ c \in 0..1 /\ c # b /\ 1 - c = b /\ c = (L + 1) % 2
    BY Parities DEF BarrierAt
  <2>2. /\ done' = [done EXCEPT ![c] = {}] /\ full' = [full EXCEPT ![c] = full[b]]
        /\ done_flag' = [done_flag EXCEPT ![b] = TRUE, ![c] = FALSE]
    BY <1>8, <2>1 DEF Pass, Parity, BarrierAt
  <2> HIDE DEF c
  <2>3. /\ done'[c] = {} /\ done'[b] = done[b] /\ full'[c] = full[b]
        /\ done_flag'[b] = TRUE /\ done_flag'[c] = FALSE
    BY <2>1, <2>2 DEF BarrierTypes
  <2>4. \A v \in Busy : LevelOf(v) = L /\ AtBarrier(v)
    BY <1>1, <1>4, <1>8 DEF BarrierAt
  <2>5. \A v \in Busy : dist[v] = L
    BY <1>5, <2>4 DEF LevelOf, AtBarrier, Idle
  <2>6. full'[c] = Busy' /\ ~done_flag'[c]
    BY <1>5, <2>3 DEF BarrierAt
  <2>7. \A v \in Busy' : \/ LevelOf(v)' = L + 1
                         \/ LevelOf(v)' = L + 1 - 1 /\ AtBarrier(v)' /\ done_flag'[1 - c]
    BY <1>5, <1>6, <1>7, <1>8, <2>1, <2>3, <2>4
  <2>8. \A v \in done'[c] : v \in Busy' /\ LevelOf(v)' = L + 1 /\ AtBarrier(v)'
    BY <2>3
  <2>9. \A v \in Busy' : pc'[v] = "test" => loaded'[v] \subseteq done'[dist'[v] % 2]
    <3>1. SUFFICES ASSUME NEW v \in Busy, pc'[v] = "test"
                   PROVE  loaded[v] \subseteq done'[dist'[v] % 2]
      BY <1>1, <1>5
    <3>2. v # w /\ pc[v] = "test" /\ dist'[v] = L /\ dist[v] = L
      BY <1>2, <1>5, <2>5, <3>1
    <3>3. loaded[v] \subseteq done[b]
      BY <2>1, <3>2 DEF BarrierAt
    <3>4. QED
      BY <2>1, <2>3, <3>2, <3>3
  <2>10. \A u, v \in Busy' : pc'[u] = "pass" /\ dist'[u] = L + 1 =>
                               LevelOf(v)' = L + 1 /\ AtBarrier(v)'
    BY <1>2, <1>5, <2>5
  <2>11. BarrierAt(L + 1, c)'
    BY <2>1, <2>6, <2>7, <2>8, <2>9, <2>10 DEF BarrierAt
  <2>12. QED
    BY <1>8, <2>4, <2>11 DEF c
<1>9. CASE dist[w] # L
  <2>1. dist[w] = L - 1 /\ done_flag[1 - b] /\ dist[w] % 2 = 1 - b
    BY <1>4, <1>9, Parities DEF BarrierAt, BarrierTypes
  <2>2. UNCHANGED <<done, full, done_flag>>
    BY <2>1 DEF Pass, Parity
  <2>3. w \notin done[b] /\ \A u \in Busy : ~(pc[u] = "pass" /\ dist[u] = L)
    BY <1>4, <1>9 DEF BarrierAt
  <2>4. b = L % 2 /\ full'[b] = Busy' /\ ~done_flag'[b]
    BY <1>5, <2>2 DEF BarrierAt
  <2>5. LevelOf(w)' = L
    BY <1>6, <2>1
  <2>6. \A v \in Busy' : \/ LevelOf(v)' = L
                         \/ LevelOf(v)' = L - 1 /\ AtBarrier(v)' /\ done_flag'[1 - b]
    BY <1>5, <1>7, <2>2, <2>5 DEF BarrierAt
  <2>7. \A v \in done'[b] : v \in Busy' /\ LevelOf(v)' = L /\ AtBarrier(v)'
    BY <1>5, <1>7, <2>2, <2>3 DEF BarrierAt
  <2>8. \A v \in Busy' : pc'[v] = "test" => loaded'[v] \subseteq done'[dist'[v] % 2]
    BY <1>1, <1>2, <1>5, <2>2 DEF BarrierAt
  <2>9. \A u, v \in Busy' : pc'[u] = "pass" /\ dist'[u] = L => LevelOf(v)' = L /\ AtBarrier(v)'
    BY <1>2, <1>5, <2>3
  <2>10. BarrierAt(L, b)'
    BY <2>4, <2>6, <2>7, <2>8, <2>9 DEF BarrierAt
  <2>11. QED
    BY <2>1, <2>10
<1>10. QED
  BY <1>8, <1>9

(* Worker 0 gets the start house: level 0, and only worker 0 in it. *)
LEMMA StartBarrier ==
  ASSUME CountInv, BarrierTypes, AtStart, Start
  PROVE  BarrierAt(0, 0)'
<1>1. /\ run = "start" /\ UNCHANGED <<done, done_flag, dist, loaded>> /\ 0 \in Workers
      /\ pc' = [pc EXCEPT ![0] = "busy?"]
      /\ param' = [param EXCEPT ![0].is_busy = TRUE]
      /\ full' = [full EXCEPT ![0] = {0}]
  BY WorkersCount DEF Start, local
<1>2. pc'[0] = "busy?" /\ full'[0] = {0} /\ done'[0] = {} /\ ~done_flag'[0]
  BY <1>1 DEF CountInv, CountTypes, BarrierTypes, AtStart
<1>3. /\ param'[0].is_busy = TRUE /\ param'[0].dist = 0
      /\ \A v \in Workers : v # 0 => param'[v] = param[v]
  <2>1. param = [v \in Workers |-> [start_vertex |-> param[v].start_vertex, dist |-> param[v].dist,
                                    is_busy |-> param[v].is_busy]]
    BY DEF CountInv, CountTypes
  <2>2. param[0].dist = 0
    BY <1>1 DEF AtStart
  <2>3. QED
    BY <1>1, <2>1, <2>2
<1>4. Busy' = {0}
  BY <1>1, <1>3 DEF Busy, CountInv, NothingYet
<1>5. pc'[0] \in Idle /\ pc'[0] \notin {"test", "pass"}
  BY <1>2 DEF Idle
<1>6. LevelOf(0)' = 0
  BY <1>3, <1>5 DEF LevelOf
<1>7. QED
  BY <1>2, <1>4, <1>5, <1>6 DEF BarrierAt

(* Every other step of a worker. *)
LEMMA WorkerBarrier ==
  ASSUME CountInv, BarrierTypes, load_first = "done",
         NEW L \in Nat, NEW b \in 0..1, BarrierAt(L, b), NEW w \in Workers, BeginWorkAt(w), ~Pass(w)
  PROVE  BarrierAt(L, b)'
<1>1. CASE AwaitWork(w)
  BY <1>1, AwaitBarrier
<1>2. CASE Hand(w)
  BY <1>2, HandBarrier
<1>3. CASE Finish(w)
  BY <1>3, FinishBarrier
<1>4. CASE Load(w)
  BY <1>4, LoadBarrier
<1>5. CASE Test(w)
  BY <1>5, TestBarrier
<1>6. CASE Goodbye(w)
  BY <1>6, GoodbyeBarrier
<1>7. CASE AllFree(w)
  <2>1. UNCHANGED <<param, full, done, done_flag, dist, loaded>> /\ pc[w] = "all free?"
    BY <1>7 DEF AllFree, Goto, shared, local
  <2>2. PICK to \in {"exit", "busy?"} : pc' = [pc EXCEPT ![w] = to]
    BY <1>7 DEF AllFree, Goto
  <2>3. /\ pc[w] \in Idle /\ to \in Idle /\ ~AtBarrier(w)
        /\ to \in Locations /\ to \notin {"load", "test", "pass"}
    BY <2>1, <2>2 DEF Idle, Locations, AtBarrier
  <2>4. QED
    BY <2>1, <2>2, <2>3, InsideBarrier
<1>8. CASE Level(w) \/ Share(w) \/ Visit(w) \/ Mark(w) \/ UpdateResult(w) \/ Publish(w)
  <2>1. UNCHANGED <<param, full, done, done_flag, dist, loaded>>
    BY <1>8 DEF Level, Share, Visit, Mark, UpdateResult, Publish, shared, local
  <2>2. pc[w] \in {"level", "share", "visit", "mark", "update", "publish"}
    BY <1>8 DEF Level, Share, Visit, Mark, UpdateResult, Publish, Goto
  <2>3. PICK to \in {"share", "bye", "hand", "visit", "finish", "mark", "update", "publish"} :
          pc' = [pc EXCEPT ![w] = to]
    BY <1>8 DEF Level, Share, Visit, Mark, UpdateResult, Publish, Goto
  <2>4. /\ pc[w] \notin Idle /\ to \notin Idle /\ ~AtBarrier(w)
        /\ to \in Locations /\ to \notin {"load", "test", "pass"}
    BY <2>2, <2>3 DEF Idle, Locations, AtBarrier
  <2>5. QED
    BY <2>1, <2>3, <2>4, InsideBarrier
<1>9. QED
  BY <1>1, <1>2, <1>3, <1>4, <1>5, <1>6, <1>7, <1>8 DEF BeginWorkAt

(* Steps that no worker takes. *)
LEMMA OutsideBarrier ==
  ASSUME NEW L \in Nat, NEW b \in 0..1, BarrierAt(L, b),
         Return \/ (\E h \in Houses : Elsewhere(h)) \/ UNCHANGED vars
  PROVE  BarrierAt(L, b)'
<1>1. UNCHANGED <<pc, param, full, done, done_flag, dist, loaded>>
  BY DEF Return, Elsewhere, shared, local, vars
<1>2. Busy' = Busy
  BY <1>1 DEF Busy
<1>3. \A w : LevelOf(w)' = LevelOf(w) /\ (AtBarrier(w)' <=> AtBarrier(w))
  BY <1>1 DEF LevelOf, AtBarrier
<1>4. QED
  BY <1>1, <1>2, <1>3 DEF BarrierAt

(* The variables of the barrier keep their types. *)
LEMMA BarrierTypesKept ==
  ASSUME CountInv, BarrierTypes, [Next]_vars
  PROVE  BarrierTypes'
<1>1. CASE UNCHANGED <<full, done, done_flag, loaded, dist, param>>
  BY <1>1 DEF BarrierTypes
<1>2. CASE Start
  <2>1. /\ UNCHANGED <<done, done_flag, dist, loaded>> /\ 0 \in Workers
        /\ param' = [param EXCEPT ![0].is_busy = TRUE]
        /\ full' = [full EXCEPT ![0] = {0}]
    BY <1>2, WorkersCount DEF Start, local
  <2>2. param = [v \in Workers |-> [start_vertex |-> param[v].start_vertex, dist |-> param[v].dist,
                                    is_busy |-> param[v].is_busy]]
    BY DEF CountInv, CountTypes
  <2>3. \A v \in Workers : param'[v].dist = param[v].dist
    BY <2>1, <2>2
  <2>4. QED
    BY <2>1, <2>3 DEF BarrierTypes
<1>3. ASSUME NEW w \in Workers, AwaitWork(w)
      PROVE  BarrierTypes'
  <2>1. UNCHANGED <<param, full, done, done_flag, loaded>>
    BY <1>3 DEF AwaitWork, shared
  <2>2. dist' = [dist EXCEPT ![w] = param[w].dist] \/ dist' = dist
    BY <1>3 DEF AwaitWork
  <2>3. QED
    BY <2>1, <2>2 DEF BarrierTypes
<1>4. ASSUME NEW w \in Workers, Hand(w)
      PROVE  BarrierTypes'
  <2>1. CASE num_free <= 0
    <3>1. UNCHANGED <<param, full, done, done_flag, dist, loaded>>
      BY <1>4, <2>1 DEF Hand, CountInv, CountTypes
    <3>2. QED
      BY <3>1 DEF BarrierTypes
  <2>2. CASE ~(num_free <= 0)
    <3>1. UNCHANGED <<done, done_flag, dist, loaded>>
      BY <1>4, <2>2, HandOver
    <3>2. PICK i \in Workers :
              /\ param'[i].dist = dist[w]
              /\ \A v \in Workers : v # i => param'[v] = param[v]
              /\ full' = [full EXCEPT ![dist[w] % 2] = @ \cup {i}]
      BY <1>4, <2>2, HandOver
    <3>3. full' \in [0..1 -> SUBSET Workers] /\ \A v \in Workers : param'[v].dist \in Nat
      BY <3>2, Parities DEF BarrierTypes
    <3>4. QED
      BY <3>1, <3>3 DEF BarrierTypes
  <2>3. QED
    BY <2>1, <2>2
<1>5. ASSUME NEW w \in Workers, Finish(w) \/ Load(w) \/ Test(w)
      PROVE  BarrierTypes'
  <2>1. dist[w] % 2 \in 0..1
    BY Parities DEF BarrierTypes
  <2>2. UNCHANGED <<param, full, done_flag, dist>>
    BY <1>5 DEF Finish, Load, Test, shared, local
  <2>3. done' = done \/ done' = [done EXCEPT ![dist[w] % 2] = @ \cup {w}]
    BY <1>5 DEF Finish, Load, Test, shared, Parity
  <2>4. \/ loaded' = loaded
        \/ loaded' = [loaded EXCEPT ![w] = full[dist[w] % 2]]
        \/ loaded' = [loaded EXCEPT ![w] = done[dist[w] % 2]]
        \/ loaded' = [loaded EXCEPT ![w] = {}]
    BY <1>5 DEF Finish, Load, Test, local, Parity
  <2>5. done' \in [0..1 -> SUBSET Workers] /\ loaded' \in [Workers -> SUBSET Workers]
    BY <2>1, <2>3, <2>4 DEF BarrierTypes
  <2>6. QED
    BY <2>2, <2>5 DEF BarrierTypes
<1>6. ASSUME NEW w \in Workers, Pass(w)
      PROVE  BarrierTypes'
  <2>1. dist[w] % 2 \in 0..1 /\ 1 - (dist[w] % 2) \in 0..1
    BY Parities DEF BarrierTypes
  <2>2. UNCHANGED <<param, loaded>> /\ dist' \in [Workers -> Nat]
    BY <1>6 DEF Pass, BarrierTypes
  <2>3. CASE done_flag[dist[w] % 2]
    <3>1. UNCHANGED <<done, full, done_flag>>
      BY <1>6, <2>3 DEF Pass, Parity
    <3>2. QED
      BY <2>2, <3>1 DEF BarrierTypes
  <2>4. CASE ~done_flag[dist[w] % 2]
    <3>1. PICK b : b = dist[w] % 2
      OBVIOUS
    <3>2. done' = [done EXCEPT ![1 - b] = {}] /\ full' = [full EXCEPT ![1 - b] = full[b]]
      BY <1>6, <2>4, <3>1 DEF Pass, Parity
    <3>a. done_flag' = [done_flag EXCEPT ![b] = TRUE, ![1 - b] = FALSE]
      BY <1>6, <2>4, <3>1 DEF Pass, Parity
    <3>b. done' \in [0..1 -> SUBSET Workers] /\ full' \in [0..1 -> SUBSET Workers]
      BY <2>1, <3>1, <3>2 DEF BarrierTypes
    <3>3. done_flag' \in [0..1 -> BOOLEAN]
      BY <2>1, <3>1, <3>a DEF BarrierTypes
    <3>4. QED
      BY <2>2, <3>b, <3>3 DEF BarrierTypes
  <2>5. QED
    BY <2>3, <2>4
<1>7. ASSUME NEW w \in Workers, Goodbye(w)
      PROVE  BarrierTypes'
  <2>1. /\ UNCHANGED <<done, done_flag, dist, loaded>>
        /\ full' = [c \in 0..1 |-> full[c] \ {w}]
        /\ param' = [param EXCEPT ![w].is_busy = FALSE]
    BY <1>7 DEF Goodbye, Leave, Freed, local
  <2>2. param = [v \in Workers |-> [start_vertex |-> param[v].start_vertex, dist |-> param[v].dist,
                                    is_busy |-> param[v].is_busy]]
    BY DEF CountInv, CountTypes
  <2>3. \A v \in Workers : param'[v].dist = param[v].dist
    BY <2>1, <2>2
  <2>4. QED
    BY <2>1, <2>3 DEF BarrierTypes
<1>8. ASSUME NEW w \in Workers, AllFree(w) \/ Level(w) \/ Share(w) \/ Visit(w) \/ Mark(w)
                                \/ UpdateResult(w) \/ Publish(w)
      PROVE  UNCHANGED <<full, done, done_flag, loaded, dist, param>>
  BY <1>8 DEF AllFree, Level, Share, Visit, Mark, UpdateResult, Publish, shared, local
<1>9. ASSUME Return \/ (\E h \in Houses : Elsewhere(h)) \/ UNCHANGED vars
      PROVE  UNCHANGED <<full, done, done_flag, loaded, dist, param>>
  BY <1>9 DEF Return, Elsewhere, shared, local, vars
<1>10. QED
  BY <1>1, <1>2, <1>3, <1>4, <1>5, <1>6, <1>7, <1>8, <1>9 DEF Next, BeginWorkAt

LEMMA BarrierInit == Init => BarrierInv
<1> SUFFICES ASSUME Init PROVE BarrierInv
  OBVIOUS
<1>1. /\ \A b \in 0..1 : done[b] = {} /\ full[b] = {} /\ done_flag[b] = FALSE
      /\ done \in [0..1 -> SUBSET Workers] /\ full \in [0..1 -> SUBSET Workers]
      /\ done_flag \in [0..1 -> BOOLEAN]
      /\ dist \in [Workers -> Nat] /\ loaded \in [Workers -> SUBSET Workers]
  BY DEF Init
<1>2. \A w \in Workers : param[w] = [start_vertex |-> start_house, dist |-> 0, is_busy |-> FALSE]
  BY DEF Init
<1>3. \A w \in Workers : param[w].dist = 0 /\ ~param[w].is_busy
  BY <1>2
<1>4. BarrierTypes /\ AtStart
  BY <1>1, <1>3, WorkersCount DEF BarrierTypes, AtStart
<1>5. Busy = {}
  BY <1>3 DEF Busy
<1>6. BarrierAt(0, 0)
  BY <1>1, <1>5 DEF BarrierAt
<1>7. QED
  BY <1>4, <1>6 DEF BarrierInv

LEMMA BarrierStep == CountInv /\ BarrierInv /\ [Next]_vars => BarrierInv'
<1> SUFFICES ASSUME CountInv, BarrierInv, [Next]_vars PROVE BarrierInv'
  OBVIOUS
<1>1. BarrierTypes /\ BarrierTypes'
  BY BarrierTypesKept DEF BarrierInv
<1>2. AtStart'
  <2>1. SUFFICES ASSUME run' = "start"
                 PROVE  UNCHANGED <<done, full, done_flag, param>> /\ run = "start"
    BY DEF BarrierInv, AtStart
  <2>2. run = "start"
    BY <2>1 DEF Next, Start, Return, Elsewhere, BeginWorkAt, AwaitWork, AllFree, Level, Share, Hand, Visit,
                Mark, UpdateResult, Publish, Finish, Load, Test, Pass, Goodbye, vars
  <2>3. \A w \in Workers : pc[w] \in Idle
    BY <2>2 DEF CountInv, NothingYet, AtWorkIsBusy
  <2>4. ASSUME NEW w \in Workers, BeginWorkAt(w)
        PROVE  AwaitWork(w) \/ AllFree(w)
    BY <2>3, <2>4 DEF BeginWorkAt, Level, Share, Hand, Visit, Mark, UpdateResult, Publish, Finish,
                      Load, Test, Pass, Goodbye, Goto, Idle
  <2>5. ASSUME NEW w \in Workers, BeginWorkAt(w)
        PROVE  UNCHANGED <<done, full, done_flag, param>>
    BY <2>4, <2>5 DEF AwaitWork, AllFree, shared
  <2>6. ~Start /\ ~Return
    BY <2>1, <2>2 DEF Start, Return
  <2>7. QED
    BY <2>2, <2>5, <2>6 DEF Next, Elsewhere, vars
<1>3. ASSUME load_first' = "done"
      PROVE  \E L \in Nat : \E b \in 0..1 : BarrierAt(L, b)'
  <2>1. load_first = "done"
    BY <1>3 DEF Next, Start, Return, Elsewhere, BeginWorkAt, AwaitWork, AllFree, Level, Share, Hand, Visit,
                Mark, UpdateResult, Publish, Finish, Load, Test, Pass, Goodbye, vars, shared
  <2>2. PICK L \in Nat, b \in 0..1 : BarrierAt(L, b)
    BY <2>1 DEF BarrierInv
  <2>3. CASE Start
    BY <1>1, <2>3, StartBarrier DEF BarrierInv
  <2>4. CASE \E w \in Workers : BeginWorkAt(w)
    <3>1. PICK w \in Workers : BeginWorkAt(w)
      BY <2>4
    <3>2. CASE Pass(w)
      <4>1. L + 1 \in Nat /\ 1 - b \in 0..1
        OBVIOUS
      <4>2. QED
        BY <1>1, <2>2, <3>2, <4>1, PassBarrier
    <3>3. QED
      BY <1>1, <2>1, <2>2, <3>1, <3>2, WorkerBarrier
  <2>5. CASE Return \/ (\E h \in Houses : Elsewhere(h)) \/ UNCHANGED vars
    BY <2>2, <2>5, OutsideBarrier
  <2>6. QED
    BY <2>3, <2>4, <2>5 DEF Next
<1>4. QED
  BY <1>1, <1>2, <1>3 DEF BarrierInv

-----------------------------------------------------------------------------
(* The invariant of the barrier, for any map and number of workers. *)
THEOREM BarrierInvariant == Spec => []BarrierInv
<1>1. QED
  BY CountInvariant, BarrierInit, BarrierStep, PTL DEF Spec

(* All workers that are visiting vertices visit them at the same distance, *)
(* however they hand vertices over, leave and meet at the two pairs of bit *)
(* sets: no worker starts a level while another is still in the one        *)
(* before, in a build that loads done_bits before full_bits.               *)
SameLevel ==
  load_first = "done" => \A v, w \in Workers : InLevel(v) /\ InLevel(w) => dist[v] = dist[w]

THEOREM LevelsTogether == Spec => []SameLevel
<1>1. ASSUME CountInv, BarrierInv
      PROVE  SameLevel
  <2>1. SUFFICES ASSUME load_first = "done", NEW v \in Workers, NEW w \in Workers,
                        InLevel(v), InLevel(w)
                 PROVE  dist[v] = dist[w]
    BY DEF SameLevel
  <2>2. PICK L \in Nat, b \in 0..1 : BarrierAt(L, b)
    BY <1>1, <2>1 DEF BarrierInv
  <2>3. pc[v] \notin Idle /\ ~AtBarrier(v) /\ pc[w] \notin Idle /\ ~AtBarrier(w)
    BY <2>1 DEF InLevel, AtBarrier, Idle
  <2>4. dist[v] = L /\ dist[w] = L
    BY <1>1, <2>2, <2>3, InLatest
  <2>5. QED
    BY <2>4
<1>2. QED
  BY <1>1, CountInvariant, BarrierInvariant, PTL

-----------------------------------------------------------------------------
(* What the search has found                                               *)

Reach == {v \in Vertices : Distance[start_house][v] # Unreachable}
AllSeen == visit_bits = full_visit_bits

(* Where a worker goes through the neighbours of its vertices. *)
AtTodo(w) == pc[w] \in {"visit", "mark", "update", "publish"}

DataTypes ==
  /\ check_map \subseteq Reach /\ start_house \in check_map
  /\ visit_bits \subseteq Reachable(start_house)
  /\ cur_vertices \in [Workers -> Seq(Reach)]
  /\ next_vertices \in [Workers -> Seq(Reach)]
  /\ todo \in [Workers -> Seq(Reach)]
  /\ \A w \in Workers : param[w].start_vertex \in Reach
  /\ run = "start" => check_map = {start_house} /\ param[0].start_vertex = start_house

(* The vertex a worker is about to find, or has found and not published,   *)
(* and what a worker leaves behind when it is free.                        *)
HeadRight(w) ==
  /\ pc[w] \in {"mark", "update", "publish"} => todo[w] # <<>> /\ Head(todo[w]) # start_house
  /\ pc[w] \in {"update", "publish"} => Head(todo[w]) \in Houses \cap check_map
  /\ pc[w] = "hand" => cur_vertices[w] # <<>>
  /\ pc[w] \in Idle \cup {"bye"} => AllSeen \/ next_vertices[w] = <<>>

(* Worker w has still to collect the neighbours of v. *)
PendingAt(w, v) ==
  \/ param[w].is_busy /\ pc[w] \in Idle /\ param[w].start_vertex = v
  \/ Holds(next_vertices[w], v)
  \/ pc[w] \in {"share", "hand"} /\ Holds(cur_vertices[w], v)

Pending(v) == \E w \in Workers : PendingAt(w, v)

Coming(v) == v \in check_map \/ \E w \in Workers : AtTodo(w) /\ Holds(todo[w], v)

(* No vertex is lost between two workers: one that was found is pending or *)
(* its neighbours are found or about to be.                                *)
Closed ==
  run # "start" /\ ~AllSeen => \A v \in check_map :
    Pending(v) \/ \A u \in Vertices : Adjacent(v, u) => Coming(u)

(* A house that was found is published, or will be. *)
Marked ==
  \A h \in (Houses \cap check_map) \ {start_house} :
    h \in visit_bits \/ \E w \in Workers : pc[w] \in {"update", "publish"} /\ Head(todo[w]) = h

DataInv == DataTypes /\ (\A w \in Workers : HeadRight(w)) /\ Closed /\ Marked


(* A step of worker w leaves the other workers where they are. *)
OthersStay(w) ==
  \A x \in Workers : x # w =>
    /\ pc'[x] = pc[x] /\ dist'[x] = dist[x] /\ todo'[x] = todo[x]
    /\ cur_vertices'[x] = cur_vertices[x] /\ next_vertices'[x] = next_vertices[x]

LEMMA StepFrame ==
  ASSUME CountInv, BarrierTypes, DataTypes, NEW w \in Workers, BeginWorkAt(w)
  PROVE  OthersStay(w) /\ run' = run /\ load_first' = load_first
<1>1. \E e : pc' = [pc EXCEPT ![w] = e]
  BY Zenon DEF BeginWorkAt, AwaitWork, AllFree, Level, Share, Hand, Visit, Mark, UpdateResult, Publish,
         Finish, Load, Test, Pass, Goodbye, Goto
<1>2. dist' = dist \/ \E e : dist' = [dist EXCEPT ![w] = e]
  BY Zenon DEF BeginWorkAt, AwaitWork, AllFree, Level, Share, Hand, Visit, Mark, UpdateResult, Publish,
         Finish, Load, Test, Pass, Goodbye, local
<1>3. todo' = todo \/ \E e : todo' = [todo EXCEPT ![w] = e]
  BY Zenon DEF BeginWorkAt, AwaitWork, AllFree, Level, Share, Hand, Visit, Mark, UpdateResult, Publish,
         Finish, Load, Test, Pass, Goodbye, local
<1>4. cur_vertices' = cur_vertices \/ \E e : cur_vertices' = [cur_vertices EXCEPT ![w] = e]
  BY Zenon DEF BeginWorkAt, AwaitWork, AllFree, Level, Share, Hand, Visit, Mark, UpdateResult, Publish,
         Finish, Load, Test, Pass, Goodbye, local
<1>5. next_vertices' = next_vertices \/ \E e : next_vertices' = [next_vertices EXCEPT ![w] = e]
  BY Zenon DEF BeginWorkAt, AwaitWork, AllFree, Level, Share, Hand, Visit, Mark, UpdateResult, Publish,
         Finish, Load, Test, Pass, Goodbye, local
<1>6. run' = run /\ load_first' = load_first
  BY Zenon DEF BeginWorkAt, AwaitWork, AllFree, Level, Share, Hand, Visit, Mark, UpdateResult, Publish,
         Finish, Load, Test, Pass, Goodbye, shared, local
<1>7. \A x \in Workers : x # w => pc'[x] = pc[x]
  BY <1>1 DEF CountInv, CountTypes
<1>8. \A x \in Workers : x # w => dist'[x] = dist[x]
  BY <1>2 DEF BarrierTypes
<1>9. \A x \in Workers : x # w => todo'[x] = todo[x]
  BY <1>3 DEF DataTypes
<1>10. \A x \in Workers : x # w => cur_vertices'[x] = cur_vertices[x]
  BY <1>4 DEF DataTypes
<1>11. \A x \in Workers : x # w => next_vertices'[x] = next_vertices[x]
  BY <1>5 DEF DataTypes
<1>12. QED
  BY <1>6, <1>7, <1>8, <1>9, <1>10, <1>11 DEF OthersStay

LEMMA ReachFacts ==
  /\ Reach \subseteq Vertices /\ start_house \in Reach /\ start_house \in Houses
  /\ Reachable(start_house) = (Houses \cap Reach) \ {start_house}
  /\ Reachable(start_house) \subseteq full_visit_bits
  /\ \A u \in Reach : \A v \in Vertices : Adjacent(u, v) => v \in Reach
  /\ \A d \in Nat : Sphere(start_house, d) \subseteq Reach /\ Ball(start_house, d) \subseteq Reach
<1>1. start_house \in Houses /\ Houses \subseteq Vertices /\ num_vertices \in Nat
  BY SearchAssumption, HousesAreVertices
<1>2. start_house \in Reach
  <2>1. start_house \in Vertices /\ Distance[start_house][start_house] = 0
    BY <1>1, DistanceFacts, HousesAreVertices
  <2>2. num_vertices # 0
    BY <2>1, <1>1 DEF Vertices
  <2>3. QED
    BY <2>1, <2>2 DEF Reach, Unreachable
<1>3. \A u \in Reach : \A v \in Vertices : Adjacent(u, v) => v \in Reach
  BY <1>1, DistanceFacts, HousesAreVertices DEF Reach
<1>4. QED
  BY <1>1, <1>2, <1>3 DEF Reach, Reachable, full_visit_bits, Sphere, Ball

(* All houses stay seen. *)
LEMMA SeenStays ==
  ASSUME DataTypes', visit_bits \subseteq visit_bits', AllSeen
  PROVE  AllSeen'
BY ReachFacts DEF AllSeen, DataTypes

(* What a step of one worker has to keep so that nothing found is lost. *)
LEMMA DataKept ==
  ASSUME DataInv, DataTypes', NEW w \in Workers, run' = run, OthersStay(w),
         \A x \in Workers : x # w /\ param[x].is_busy => param'[x] = param[x],
         check_map \subseteq check_map', visit_bits \subseteq visit_bits',
         HeadRight(w)',
         \A v \in check_map' : v \in check_map \/ Holds(next_vertices'[w], v),
         \A v \in check_map : PendingAt(w, v) =>
           Pending(v)' \/ \A u \in Vertices : Adjacent(v, u) => Coming(u)',
         \A u : AtTodo(w) /\ Holds(todo[w], u) => Coming(u)',
         \A h \in check_map' : h \in check_map \/ h \notin Houses \/ (pc'[w] = "update" /\ Head(todo'[w]) = h),
         pc[w] \in {"update", "publish"} =>
           \/ Head(todo[w]) \in visit_bits'
           \/ pc'[w] \in {"update", "publish"} /\ todo'[w] = todo[w]
  PROVE  DataInv'
<1>1. AllSeen => AllSeen'
  BY SeenStays
<1>2. \A x \in Workers : HeadRight(x)'
  <2>1. SUFFICES ASSUME NEW x \in Workers, x # w PROVE HeadRight(x)'
    OBVIOUS
  <2>2. /\ pc'[x] = pc[x] /\ todo'[x] = todo[x] /\ next_vertices'[x] = next_vertices[x]
        /\ cur_vertices'[x] = cur_vertices[x]
    BY <2>1 DEF OthersStay
  <2>3. HeadRight(x)
    BY DEF DataInv
  <2>4. QED
    BY <1>1, <2>2, <2>3 DEF HeadRight
<1>3. Closed'
  <2>1. SUFFICES ASSUME run' # "start", ~AllSeen', NEW v \in check_map', ~Pending(v)'
                 PROVE  \A u \in Vertices : Adjacent(v, u) => Coming(u)'
    BY DEF Closed
  <2>2. v \in check_map
    <3>1. Holds(next_vertices'[w], v) => PendingAt(w, v)'
      BY DEF PendingAt
    <3>2. QED
      BY <2>1, <3>1 DEF Pending
  <2>3. Pending(v) \/ \A u \in Vertices : Adjacent(v, u) => Coming(u)
    BY <1>1, <2>1, <2>2 DEF DataInv, Closed
  <2>4. ASSUME NEW u, Coming(u) PROVE Coming(u)'
    <3>1. CASE u \in check_map
      BY <3>1 DEF Coming
    <3>2. CASE \E x \in Workers : AtTodo(x) /\ Holds(todo[x], u)
      <4>1. PICK x \in Workers : AtTodo(x) /\ Holds(todo[x], u)
        BY <3>2
      <4>2. CASE x = w
        BY <4>1, <4>2
      <4>3. CASE x # w
        <5>1. pc'[x] = pc[x] /\ todo'[x] = todo[x]
          BY <4>3 DEF OthersStay
        <5>2. QED
          BY <4>1, <5>1 DEF Coming, AtTodo
      <4>4. QED
        BY <4>2, <4>3
    <3>3. QED
      BY <2>4, <3>1, <3>2 DEF Coming
  <2>5. CASE Pending(v)
    <3>1. PICK x \in Workers : PendingAt(x, v)
      BY <2>5 DEF Pending
    <3>2. x = w
      <4>1. SUFFICES ASSUME x # w PROVE PendingAt(x, v)'
        BY <2>1 DEF Pending
      <4>2. /\ pc'[x] = pc[x] /\ next_vertices'[x] = next_vertices[x]
            /\ cur_vertices'[x] = cur_vertices[x]
        BY <4>1 DEF OthersStay
      <4>3. param[x].is_busy => param'[x] = param[x]
        BY <4>1
      <4>4. QED
        BY <3>1, <4>2, <4>3 DEF PendingAt
    <3>3. QED
      BY <2>1, <2>2, <3>1, <3>2
  <2>6. QED
    BY <2>3, <2>4, <2>5
<1>4. Marked'
  <2>1. SUFFICES ASSUME NEW h \in Houses, h \in check_map', h # start_house, h \notin visit_bits'
                 PROVE  \E x \in Workers : pc'[x] \in {"update", "publish"} /\ Head(todo'[x]) = h
    BY DEF Marked
  <2>2. CASE h \notin check_map
    BY <2>1, <2>2
  <2>3. CASE h \in check_map
    <3>1. PICK x \in Workers : pc[x] \in {"update", "publish"} /\ Head(todo[x]) = h
      BY <2>1, <2>3 DEF DataInv, Marked
    <3>2. CASE x = w
      BY <2>1, <3>1, <3>2
    <3>3. CASE x # w
      BY <3>1, <3>3 DEF OthersStay
    <3>4. QED
      BY <3>2, <3>3
  <2>4. QED
    BY <2>2, <2>3
<1>5. QED
  BY <1>2, <1>3, <1>4 DEF DataInv

(* A worker in the loop over the levels is there after the start. *)
LEMMA AfterStart ==
  ASSUME CountInv, NEW w \in Workers, pc[w] \notin Idle
  PROVE  run # "start" /\ param[w].is_busy
BY DEF CountInv, AtWorkIsBusy, NothingYet

(* A sequence is a sequence of the values it holds. *)
LEMMA SeqOfHeld ==
  ASSUME NEW S, NEW T, NEW s \in Seq(S), \A v : Holds(s, v) => v \in T
  PROVE  s \in Seq(T)
<1>1. Len(s) \in Nat /\ DOMAIN s = 1..Len(s) /\ s = [k \in 1..Len(s) |-> s[k]]
  OBVIOUS
<1>2. \A k \in 1..Len(s) : s[k] \in T
  BY DEF Holds
<1>3. QED
  BY <1>1, <1>2, IsASeq

LEMMA FrontHolds ==
  ASSUME NEW S, NEW s \in Seq(S), s # <<>>
  PROVE  /\ Front(s) \in Seq(S) /\ Last(s) \in S
         /\ \A v : Holds(s, v) <=> Holds(Front(s), v) \/ v = Last(s)
<1> DEFINE n == Len(s)
<1>1. n \in Nat /\ n > 0 /\ Last(s) = s[n]
  BY EmptySeq DEF Last
<1>2. Front(s) = SubSeq(s, 1, n - 1)
  BY DEF Front
<1>3. /\ Front(s) \in Seq(S) /\ Len(Front(s)) = n - 1
      /\ \A k \in 1..n - 1 : Front(s)[k] = s[k]
  <2>1. PICK m \in Nat : m = n - 1
    BY <1>1
  <2>2. 1 \in Int /\ m \in Int /\ \A k \in 1..m : s[k] \in S
    BY <1>1, <2>1
  <2>3. /\ SubSeq(s, 1, m) \in Seq(S) /\ Len(SubSeq(s, 1, m)) = IF 1 <= m THEN m - 1 + 1 ELSE 0
        /\ \A k \in 1..m - 1 + 1 : SubSeq(s, 1, m)[k] = s[1 + k - 1]
    BY <2>2, SubSeqProperties
  <2>4. SubSeq(s, 1, m) = Front(s)
    BY <1>2, <2>1
  <2>5. QED
    BY <2>1, <2>3, <2>4
<1>4. Last(s) \in S
  BY <1>1
<1>5. \A v : Holds(s, v) <=> Holds(Front(s), v) \/ v = Last(s)
  <2>1. ASSUME NEW v PROVE Holds(s, v) => Holds(Front(s), v) \/ v = Last(s)
    <3>1. SUFFICES ASSUME NEW k \in 1..n, s[k] = v PROVE Holds(Front(s), v) \/ v = Last(s)
      BY DEF Holds
    <3>2. CASE k = n
      BY <1>1, <3>1, <3>2
    <3>3. CASE k # n
      <4>1. k \in 1..n - 1
        BY <1>1, <3>3
      <4>2. QED
        BY <1>3, <3>1, <4>1 DEF Holds
    <3>4. QED
      BY <3>2, <3>3
  <2>2. ASSUME NEW v PROVE Holds(Front(s), v) \/ v = Last(s) => Holds(s, v)
    <3>1. CASE v = Last(s)
      BY <1>1, <3>1 DEF Holds
    <3>2. CASE Holds(Front(s), v)
      <4>1. PICK k \in 1..n - 1 : Front(s)[k] = v
        BY <1>3, <3>2 DEF Holds
      <4>2. k \in 1..n /\ s[k] = v
        BY <1>1, <1>3, <4>1
      <4>3. QED
        BY <4>2 DEF Holds
    <3>3. QED
      BY <3>1, <3>2
  <2>3. QED
    BY <2>1, <2>2
<1>6. QED
  BY <1>3, <1>4, <1>5

(* Steps that move a worker and touch nothing it has found. *)
LEMMA QuietData ==
  ASSUME CountInv, DataInv, NEW w \in Workers, OthersStay(w), run' = run,
         UNCHANGED <<check_map, visit_bits, cur_vertices, next_vertices, todo>>,
         \A x \in Workers : x # w => param'[x] = param[x],
         param'[w].start_vertex = param[w].start_vertex,
         HeadRight(w)',
         pc[w] \in Idle /\ param[w].is_busy => pc'[w] \in Idle /\ param'[w].is_busy,
         AtTodo(w) => AtTodo(w)',
         pc[w] \in {"share", "hand"} => pc'[w] \in {"share", "hand"},
         pc[w] \in {"update", "publish"} => pc'[w] \in {"update", "publish"}
  PROVE  DataInv'
<1>1. DataTypes'
  BY WorkersCount DEF DataInv, DataTypes
<1>2. \A v : PendingAt(w, v) => PendingAt(w, v)'
  BY DEF PendingAt
<1>3. \A u : AtTodo(w) /\ Holds(todo[w], u) => Coming(u)'
  BY DEF Coming
<1>4. \A v : PendingAt(w, v) => Pending(v)'
  BY <1>2 DEF Pending
<1>5. QED
  BY <1>1, <1>3, <1>4, DataKept

LEMMA AwaitData ==
  ASSUME CountInv, BarrierTypes, DataInv, NEW w \in Workers, AwaitWork(w)
  PROVE  DataInv'
<1>1. OthersStay(w) /\ run' = run
  BY StepFrame DEF BeginWorkAt, DataInv
<1>2. UNCHANGED <<param, check_map, visit_bits, cur_vertices, todo>>
  BY DEF AwaitWork, shared
<1>a. pc[w] = "busy?" /\ pc[w] \in Idle /\ ~AtTodo(w)
  BY DEF AwaitWork, Goto, Idle, AtTodo
<1>3. CASE param[w].is_busy
  <2>1. /\ pc' = [pc EXCEPT ![w] = "level"]
        /\ next_vertices' = [next_vertices EXCEPT ![w] = Append(next_vertices[w], param[w].start_vertex)]
    BY <1>3 DEF AwaitWork, Goto
  <2>2. pc'[w] = "level" /\ next_vertices'[w] = Append(next_vertices[w], param[w].start_vertex)
    BY <2>1 DEF CountInv, CountTypes, DataInv, DataTypes
  <2>3. next_vertices[w] \in Seq(Reach) /\ param[w].start_vertex \in Reach
    BY DEF DataInv, DataTypes
  <2>4. /\ next_vertices'[w] \in Seq(Reach)
        /\ \A v : Holds(next_vertices'[w], v) <=> Holds(next_vertices[w], v) \/ v = param[w].start_vertex
    BY <2>2, <2>3, AppendHolds
  <2>5. DataTypes'
    <3>1. next_vertices' \in [Workers -> Seq(Reach)]
      BY <2>1, <2>2, <2>4 DEF DataInv, DataTypes
    <3>2. QED
      BY <1>1, <1>2, <3>1 DEF DataInv, DataTypes
  <2>6. HeadRight(w)'
    BY <2>2 DEF HeadRight, Idle
  <2>7. \A v : PendingAt(w, v) => Pending(v)'
    <3>1. \A v : PendingAt(w, v) => Holds(next_vertices'[w], v)
      BY <1>a, <2>4 DEF PendingAt
    <3>2. QED
      BY <3>1 DEF Pending, PendingAt
  <2>8. pc[w] \notin {"update", "publish"}
    BY <1>a
  <2>9. QED
    BY <1>1, <1>2, <1>a, <2>5, <2>6, <2>7, <2>8, DataKept
<1>4. CASE ~param[w].is_busy
  <2>1. pc' = [pc EXCEPT ![w] = "all free?"]
    BY <1>4, Zenon DEF AwaitWork, Goto
  <2>2. next_vertices' = next_vertices
    BY <1>4 DEF AwaitWork
  <2>3. pc'[w] = "all free?"
    BY <2>1 DEF CountInv, CountTypes
  <2>4. HeadRight(w)'
    <3>1. AllSeen \/ next_vertices[w] = <<>>
      BY <1>a DEF DataInv, HeadRight
    <3>2. QED
      BY <1>2, <2>2, <2>3, <3>1 DEF HeadRight, AllSeen
  <2>5. pc'[w] \in Idle /\ pc[w] \notin {"share", "hand", "update", "publish"}
    BY <1>a, <2>3 DEF Idle
  <2>6. QED
    BY <1>1, <1>2, <1>4, <1>a, <2>2, <2>4, <2>5, QuietData
<1>5. QED
  BY <1>3, <1>4

LEMMA LevelData ==
  ASSUME CountInv, BarrierTypes, DataInv, NEW w \in Workers, Level(w)
  PROVE  DataInv'
<1>1. OthersStay(w) /\ run' = run
  BY StepFrame DEF BeginWorkAt, DataInv
<1>2. UNCHANGED <<param, check_map, visit_bits, todo>> /\ pc[w] = "level"
  BY DEF Level, Goto, shared
<1>a. pc[w] \notin Idle /\ ~AtTodo(w) /\ pc[w] \notin {"share", "hand", "update", "publish"}
  BY <1>2 DEF Idle, AtTodo
<1>3. CASE visit_bits # full_visit_bits /\ next_vertices[w] # <<>>
  <2>1. /\ pc' = [pc EXCEPT ![w] = "share"]
        /\ cur_vertices' = [cur_vertices EXCEPT ![w] = next_vertices[w]]
        /\ next_vertices' = [next_vertices EXCEPT ![w] = <<>>]
    BY <1>3 DEF Level, Goto
  <2>2. pc'[w] = "share" /\ cur_vertices'[w] = next_vertices[w]
    BY <2>1 DEF CountInv, CountTypes, DataInv, DataTypes
  <2>3. DataTypes'
    <3>1. /\ next_vertices' \in [Workers -> Seq(Reach)]
          /\ cur_vertices' \in [Workers -> Seq(Reach)]
      BY <2>1 DEF DataInv, DataTypes
    <3>2. QED
      BY <1>1, <1>2, <3>1 DEF DataInv, DataTypes
  <2>4. HeadRight(w)'
    BY <2>2 DEF HeadRight, Idle
  <2>5. \A v : PendingAt(w, v) => Pending(v)'
    BY <1>a, <2>2 DEF Pending, PendingAt
  <2>6. QED
    BY <1>1, <1>2, <1>a, <2>3, <2>4, <2>5, DataKept
<1>4. CASE ~(visit_bits # full_visit_bits /\ next_vertices[w] # <<>>)
  <2>1. pc' = [pc EXCEPT ![w] = "bye"]
    BY <1>4 DEF Level, Goto
  <2>2. UNCHANGED <<cur_vertices, next_vertices>>
    BY <1>4 DEF Level
  <2>3. pc'[w] = "bye"
    BY <2>1 DEF CountInv, CountTypes
  <2>4. HeadRight(w)'
    BY <1>2, <1>4, <2>2, <2>3 DEF HeadRight, AllSeen
  <2>5. QED
    BY <1>1, <1>2, <1>a, <2>2, <2>4, QuietData
<1>5. QED
  BY <1>3, <1>4

(* The visits of a level begin: the neighbours of its vertices are coming. *)
LEMMA VisitsData ==
  ASSUME CountInv, DataInv, NEW w \in Workers, OthersStay(w), run' = run,
         pc[w] \in {"share", "hand"}, pc'[w] = "visit",
         todo' = [todo EXCEPT ![w] = NeighborsOf(cur_vertices[w])],
         UNCHANGED <<param, check_map, visit_bits, cur_vertices, next_vertices>>
  PROVE  /\ DataInv' /\ todo'[w] \in Seq(Reach)
         /\ \A v : Holds(todo'[w], v) <=> \E u : Holds(cur_vertices[w], u) /\ Adjacent(u, v)
<1> DEFINE s == NeighborsOf(cur_vertices[w])
<1>1. cur_vertices[w] \in Seq(Reach) /\ cur_vertices[w] \in Seq(Vertices)
  BY ReachFacts DEF DataInv, DataTypes
<1>2. s \in Seq(Vertices) /\ \A v : Holds(s, v) <=> \E k \in 1..Len(cur_vertices[w]) : Adjacent(cur_vertices[w][k], v)
  BY <1>1, NeighborsOfHolds
<1>3. todo'[w] = s
  BY DEF DataInv, DataTypes
<1> HIDE DEF s
<1>4. \A v : Holds(s, v) <=> \E u : Holds(cur_vertices[w], u) /\ Adjacent(u, v)
  BY <1>2 DEF Holds
<1>5. \A v : Holds(s, v) => v \in Reach
  BY <1>1, <1>2, <1>4, HoldsElements, ReachFacts
<1>6. s \in Seq(Reach)
  BY <1>2, <1>5, SeqOfHeld
<1>7. DataTypes'
  <2>1. todo' \in [Workers -> Seq(Reach)]
    BY <1>3, <1>6 DEF DataInv, DataTypes
  <2>2. QED
    BY <2>1 DEF DataInv, DataTypes
<1>8. HeadRight(w)' /\ AtTodo(w)'
  BY DEF HeadRight, AtTodo, Idle
<1>9. ASSUME NEW v, PendingAt(w, v)
      PROVE  Pending(v)' \/ \A u \in Vertices : Adjacent(v, u) => Coming(u)'
  <2>1. pc[w] \notin Idle
    BY DEF Idle
  <2>2. CASE Holds(next_vertices[w], v)
    BY <2>2 DEF Pending, PendingAt
  <2>3. CASE Holds(cur_vertices[w], v)
    <3>1. \A u : Adjacent(v, u) => Holds(todo'[w], u)
      BY <1>3, <1>4, <2>3
    <3>2. QED
      BY <1>8, <3>1 DEF Coming
  <2>4. QED
    BY <1>9, <2>1, <2>2, <2>3 DEF PendingAt
<1>10. ~AtTodo(w) /\ pc[w] \notin {"update", "publish"}
  BY DEF AtTodo
<1>11. DataInv'
  BY <1>7, <1>8, <1>9, <1>10, DataKept
<1>12. QED
  BY <1>3, <1>4, <1>6, <1>11

LEMMA ShareData ==
  ASSUME CountInv, BarrierTypes, DataInv, NEW w \in Workers, Share(w)
  PROVE  DataInv'
<1>1. OthersStay(w) /\ run' = run
  BY StepFrame DEF BeginWorkAt, DataInv
<1>2. UNCHANGED <<param, check_map, visit_bits, cur_vertices, next_vertices>> /\ pc[w] = "share"
  BY DEF Share, Goto, shared
<1>3. CASE num_free > 0 /\ Len(cur_vertices[w]) > 1
  <2>1. pc' = [pc EXCEPT ![w] = "hand"] /\ todo' = todo
    BY <1>3 DEF Share, Goto
  <2>2. pc'[w] = "hand"
    BY <2>1 DEF CountInv, CountTypes
  <2>3. cur_vertices[w] # <<>>
    BY <1>3, EmptySeq
  <2>4. HeadRight(w)'
    BY <1>2, <2>2, <2>3 DEF HeadRight, Idle
  <2>5. pc[w] \notin Idle /\ ~AtTodo(w) /\ pc[w] \notin {"update", "publish"}
    BY <1>2 DEF Idle, AtTodo
  <2>6. QED
    BY <1>1, <1>2, <2>1, <2>2, <2>4, <2>5, QuietData
<1>4. CASE ~(num_free > 0 /\ Len(cur_vertices[w]) > 1)
  <2>1. /\ pc' = [pc EXCEPT ![w] = "visit"]
        /\ todo' = [todo EXCEPT ![w] = NeighborsOf(cur_vertices[w])]
    BY <1>4 DEF Share, Goto
  <2>2. pc'[w] = "visit"
    BY <2>1 DEF CountInv, CountTypes
  <2>3. QED
    BY <1>1, <1>2, <2>1, <2>2, VisitsData
<1>5. QED
  BY <1>3, <1>4

(* The vertex that is handed over waits in the helper's parameters. *)
LEMMA HandData ==
  ASSUME CountInv, BarrierTypes, DataInv, NEW w \in Workers, Hand(w)
  PROVE  DataInv'
<1>1. OthersStay(w) /\ run' = run
  BY StepFrame DEF BeginWorkAt, DataInv
<1>2. UNCHANGED <<check_map, visit_bits, next_vertices>> /\ pc[w] = "hand"
  BY DEF Hand, Goto
<1>3. CASE num_free <= 0
  <2>1. /\ pc' = [pc EXCEPT ![w] = "visit"] /\ UNCHANGED <<param, cur_vertices>>
        /\ todo' = [todo EXCEPT ![w] = NeighborsOf(cur_vertices[w])]
    BY <1>3 DEF Hand, Goto, CountInv, CountTypes
  <2>2. pc'[w] = "visit"
    BY <2>1 DEF CountInv, CountTypes
  <2>3. QED
    BY <1>1, <1>2, <2>1, <2>2, VisitsData
<1>4. CASE ~(num_free <= 0)
  <2>1. pc' = [pc EXCEPT ![w] = "share"]
    BY <1>4, HandOver
  <2>2. PICK i \in Workers :
              /\ ~param[i].is_busy /\ pc[i] \in Idle /\ i # w
              /\ param'[i].is_busy = TRUE /\ param'[i].dist = dist[w]
              /\ param'[i].start_vertex = Last(cur_vertices[w])
              /\ \A v \in Workers : v # i => param'[v] = param[v]
    BY <1>4, HandOver
  <2>3. /\ cur_vertices' = [cur_vertices EXCEPT ![w] = Front(cur_vertices[w])] /\ todo' = todo
    BY <1>4 DEF Hand
  <2>4. pc'[w] = "share" /\ cur_vertices'[w] = Front(cur_vertices[w]) /\ pc'[i] = pc[i]
    BY <2>1, <2>2, <2>3 DEF CountInv, CountTypes, DataInv, DataTypes
  <2>5. cur_vertices[w] \in Seq(Reach) /\ cur_vertices[w] # <<>>
    BY <1>2 DEF DataInv, DataTypes, HeadRight
  <2>6. /\ cur_vertices'[w] \in Seq(Reach) /\ param'[i].start_vertex \in Reach
        /\ \A v : Holds(cur_vertices[w], v) <=> Holds(cur_vertices'[w], v) \/ v = param'[i].start_vertex
    BY <2>2, <2>4, <2>5, FrontHolds
  <2>7. run # "start" /\ pc[w] \notin Idle /\ ~AtTodo(w) /\ pc[w] \notin {"update", "publish"}
    <3>1. pc[w] \notin Idle /\ ~AtTodo(w) /\ pc[w] \notin {"update", "publish"}
      BY <1>2 DEF Idle, AtTodo
    <3>2. QED
      BY <3>1, AfterStart
  <2>8. DataTypes'
    <3>1. cur_vertices' \in [Workers -> Seq(Reach)]
      BY <2>3, <2>4, <2>6 DEF DataInv, DataTypes
    <3>2. \A x \in Workers : param'[x].start_vertex \in Reach
      BY <2>2, <2>6 DEF DataInv, DataTypes
    <3>3. QED
      BY <1>1, <1>2, <2>3, <2>7, <3>1, <3>2 DEF DataInv, DataTypes
  <2>9. HeadRight(w)'
    BY <2>4 DEF HeadRight, Idle
  <2>10. ASSUME NEW v, PendingAt(w, v) PROVE Pending(v)'
    <3>1. CASE Holds(next_vertices[w], v)
      BY <1>2, <3>1 DEF Pending, PendingAt
    <3>2. CASE Holds(cur_vertices'[w], v)
      BY <2>4, <3>2 DEF Pending, PendingAt
    <3>3. CASE v = param'[i].start_vertex
      <4>1. PendingAt(i, v)'
        BY <2>2, <2>4, <3>3 DEF PendingAt
      <4>2. QED
        BY <4>1 DEF Pending
    <3>4. QED
      BY <2>6, <2>7, <2>10, <3>1, <3>2, <3>3 DEF PendingAt
  <2>11. \A x \in Workers : x # w /\ param[x].is_busy => param'[x] = param[x]
    BY <2>2
  <2>12. QED
    BY <1>1, <1>2, <2>3, <2>7, <2>8, <2>9, <2>10, <2>11, DataKept
<1>5. QED
  BY <1>3, <1>4

LEMMA VisitData ==
  ASSUME CountInv, BarrierTypes, DataInv, NEW w \in Workers, Visit(w)
  PROVE  DataInv'
<1>1. OthersStay(w) /\ run' = run
  BY StepFrame DEF BeginWorkAt, DataInv
<1>2. UNCHANGED <<param, check_map, visit_bits, next_vertices>> /\ pc[w] = "visit"
  BY DEF Visit, Goto, shared
<1>a. /\ pc[w] \notin Idle /\ AtTodo(w) /\ pc[w] \notin {"share", "hand", "update", "publish"}
      /\ todo[w] \in Seq(Reach) /\ start_house \in check_map
  BY <1>2 DEF Idle, AtTodo, DataInv, DataTypes
<1>b. \A v : PendingAt(w, v) => Pending(v)'
  BY <1>2, <1>a DEF Pending, PendingAt
<1>3. CASE todo[w] = <<>>
  <2>1. /\ pc' = [pc EXCEPT ![w] = "finish"] /\ todo' = todo
        /\ cur_vertices' = [cur_vertices EXCEPT ![w] = <<>>]
    BY <1>3 DEF Visit, Goto
  <2>2. pc'[w] = "finish"
    BY <2>1 DEF CountInv, CountTypes
  <2>3. HeadRight(w)'
    BY <2>2 DEF HeadRight, Idle
  <2>4. DataTypes'
    <3>1. cur_vertices' \in [Workers -> Seq(Reach)]
      BY <2>1 DEF DataInv, DataTypes
    <3>2. QED
      BY <1>1, <1>2, <2>1, <3>1 DEF DataInv, DataTypes
  <2>5. \A u : ~Holds(todo[w], u)
    BY <1>3, FewHolds
  <2>6. QED
    BY <1>1, <1>2, <1>a, <1>b, <2>1, <2>3, <2>4, <2>5, DataKept
<1>4. CASE todo[w] # <<>> /\ Head(todo[w]) \in check_map
  <2>1. /\ pc' = [pc EXCEPT ![w] = "visit"] /\ cur_vertices' = cur_vertices
        /\ todo' = [todo EXCEPT ![w] = Tail(todo[w])]
    BY <1>4 DEF Visit, Goto
  <2>2. pc'[w] = "visit" /\ todo'[w] = Tail(todo[w])
    BY <2>1 DEF CountInv, CountTypes, DataInv, DataTypes
  <2>3. HeadRight(w)' /\ AtTodo(w)'
    BY <2>2 DEF HeadRight, Idle, AtTodo
  <2>4. /\ todo'[w] \in Seq(Reach)
        /\ \A u : Holds(todo[w], u) <=> u = Head(todo[w]) \/ Holds(todo'[w], u)
    BY <1>a, <1>4, <2>2, TailHolds
  <2>5. DataTypes'
    <3>1. todo' \in [Workers -> Seq(Reach)]
      BY <2>1, <2>2, <2>4 DEF DataInv, DataTypes
    <3>2. QED
      BY <1>1, <1>2, <2>1, <3>1 DEF DataInv, DataTypes
  <2>6. \A u : Holds(todo[w], u) => Coming(u)'
    BY <1>2, <1>4, <2>3, <2>4 DEF Coming
  <2>7. QED
    BY <1>1, <1>2, <1>a, <1>b, <2>3, <2>5, <2>6, DataKept
<1>5. CASE todo[w] # <<>> /\ Head(todo[w]) \notin check_map
  <2>1. pc' = [pc EXCEPT ![w] = "mark"] /\ UNCHANGED <<cur_vertices, todo>>
    BY <1>5 DEF Visit, Goto
  <2>2. pc'[w] = "mark"
    BY <2>1 DEF CountInv, CountTypes
  <2>3. HeadRight(w)' /\ AtTodo(w)'
    BY <1>a, <1>5, <2>1, <2>2 DEF HeadRight, Idle, AtTodo
  <2>4. QED
    BY <1>1, <1>2, <1>a, <2>1, <2>3, QuietData
<1>6. QED
  BY <1>3, <1>4, <1>5

LEMMA MarkData ==
  ASSUME CountInv, BarrierTypes, DataInv, NEW w \in Workers, Mark(w)
  PROVE  DataInv'
<1>1. OthersStay(w) /\ run' = run
  BY StepFrame DEF BeginWorkAt, DataInv
<1>2. PICK v : v = Head(todo[w])
  OBVIOUS
<1>3. /\ UNCHANGED <<param, visit_bits, cur_vertices>> /\ pc[w] = "mark"
      /\ check_map' = check_map \cup {v}
      /\ next_vertices' = [next_vertices EXCEPT ![w] = Append(next_vertices[w], v)]
      /\ pc' = [pc EXCEPT ![w] = IF v \in Houses THEN "update" ELSE "visit"]
      /\ todo' = IF v \in Houses THEN todo ELSE [todo EXCEPT ![w] = Tail(todo[w])]
  BY <1>2 DEF Mark, Goto
<1>4. /\ pc[w] \notin Idle /\ pc[w] \notin {"share", "hand", "update", "publish"}
      /\ todo[w] \in Seq(Reach) /\ next_vertices[w] \in Seq(Reach)
      /\ todo[w] # <<>> /\ v # start_house
  BY <1>2, <1>3 DEF Idle, DataInv, DataTypes, HeadRight
<1>5. run # "start"
  BY <1>4, AfterStart
<1>6. /\ v \in Reach /\ Tail(todo[w]) \in Seq(Reach)
      /\ \A u : Holds(todo[w], u) <=> u = v \/ Holds(Tail(todo[w]), u)
  BY <1>2, <1>4, TailHolds
<1>7. /\ next_vertices'[w] = Append(next_vertices[w], v)
      /\ pc'[w] = IF v \in Houses THEN "update" ELSE "visit"
      /\ todo'[w] = IF v \in Houses THEN todo[w] ELSE Tail(todo[w])
  BY <1>3 DEF CountInv, CountTypes, DataInv, DataTypes
<1>8. /\ next_vertices'[w] \in Seq(Reach)
      /\ \A u : Holds(next_vertices'[w], u) <=> Holds(next_vertices[w], u) \/ u = v
  BY <1>4, <1>6, <1>7, AppendHolds
<1>9. DataTypes'
  <2>1. next_vertices' \in [Workers -> Seq(Reach)]
    BY <1>3, <1>7, <1>8 DEF DataInv, DataTypes
  <2>2. todo' \in [Workers -> Seq(Reach)]
    BY <1>3, <1>6 DEF DataInv, DataTypes
  <2>3. check_map' \subseteq Reach /\ start_house \in check_map'
    BY <1>3, <1>6 DEF DataInv, DataTypes
  <2>4. QED
    BY <1>1, <1>3, <1>5, <2>1, <2>2, <2>3 DEF DataInv, DataTypes
<1>10. HeadRight(w)' /\ AtTodo(w)'
  <2>1. pc'[w] \in {"update", "visit"} /\ v \in check_map'
    BY <1>3, <1>7
  <2>2. pc'[w] = "update" => v \in Houses /\ todo'[w] = todo[w]
    BY <1>7
  <2>3. pc'[w] \notin Idle \cup {"bye"} /\ pc'[w] # "hand" /\ AtTodo(w)'
    BY <2>1 DEF Idle, AtTodo
  <2>4. QED
    BY <1>2, <1>4, <2>1, <2>2, <2>3 DEF HeadRight
<1>11. \A u : PendingAt(w, u) => Pending(u)'
  BY <1>4, <1>8 DEF Pending, PendingAt
<1>12. \A u : Holds(todo[w], u) => Coming(u)'
  BY <1>3, <1>6, <1>7, <1>10 DEF Coming
<1>13. \A u \in check_map' : u \in check_map \/ Holds(next_vertices'[w], u)
  BY <1>3, <1>8
<1>14. \A h \in check_map' : h \in check_map \/ h \notin Houses \/ (pc'[w] = "update" /\ Head(todo'[w]) = h)
  BY <1>2, <1>3, <1>7
<1>15. QED
  BY <1>1, <1>3, <1>4, <1>9, <1>10, <1>11, <1>12, <1>13, <1>14, DataKept

LEMMA PublishData ==
  ASSUME CountInv, BarrierTypes, DataInv, NEW w \in Workers, Publish(w)
  PROVE  DataInv'
<1>1. OthersStay(w) /\ run' = run
  BY StepFrame DEF BeginWorkAt, DataInv
<1>2. PICK v : v = Head(todo[w])
  OBVIOUS
<1>3. /\ UNCHANGED <<param, check_map, cur_vertices, next_vertices>> /\ pc[w] = "publish"
      /\ visit_bits' = visit_bits \cup {v}
      /\ pc' = [pc EXCEPT ![w] = "visit"]
      /\ todo' = [todo EXCEPT ![w] = Tail(todo[w])]
  BY <1>2 DEF Publish, Goto
<1>4. /\ pc[w] \notin Idle /\ pc[w] \notin {"share", "hand"} /\ AtTodo(w)
      /\ todo[w] \in Seq(Reach) /\ todo[w] # <<>> /\ v # start_house /\ v \in Houses
  BY <1>2, <1>3 DEF Idle, AtTodo, DataInv, DataTypes, HeadRight
<1>5. /\ v \in Reach /\ Tail(todo[w]) \in Seq(Reach)
      /\ \A u : Holds(todo[w], u) <=> u = v \/ Holds(Tail(todo[w]), u)
  BY <1>2, <1>4, TailHolds
<1>6. pc'[w] = "visit" /\ todo'[w] = Tail(todo[w])
  BY <1>3 DEF CountInv, CountTypes, DataInv, DataTypes
<1>7. DataTypes'
  <2>1. todo' \in [Workers -> Seq(Reach)]
    BY <1>3, <1>5 DEF DataInv, DataTypes
  <2>2. visit_bits' \subseteq Reachable(start_house)
    BY <1>3, <1>4, <1>5, ReachFacts DEF DataInv, DataTypes
  <2>3. QED
    BY <1>1, <1>3, <2>1, <2>2 DEF DataInv, DataTypes
<1>8. HeadRight(w)' /\ AtTodo(w)'
  BY <1>6 DEF HeadRight, AtTodo, Idle
<1>9. \A u : PendingAt(w, u) => Pending(u)'
  BY <1>3, <1>4 DEF Pending, PendingAt
<1>10. v \in check_map
  BY <1>2, <1>3 DEF DataInv, HeadRight
<1>11. \A u : Holds(todo[w], u) => Coming(u)'
  BY <1>3, <1>5, <1>6, <1>8, <1>10 DEF Coming
<1>12. QED
  BY <1>1, <1>2, <1>3, <1>7, <1>8, <1>9, <1>11, DataKept

(* The other steps leave what was found alone. *)
LEMMA MoveData ==
  ASSUME CountInv, BarrierTypes, DataInv, NEW w \in Workers,
         AllFree(w) \/ UpdateResult(w) \/ Finish(w) \/ Load(w) \/ Test(w) \/ Pass(w) \/ Goodbye(w)
  PROVE  DataInv'
<1>1. OthersStay(w) /\ run' = run
  BY StepFrame, Zenon DEF BeginWorkAt, DataInv
<1>2. UNCHANGED <<check_map, visit_bits, cur_vertices, next_vertices, todo>>
  BY DEF AllFree, UpdateResult, Finish, Load, Test, Pass, Goodbye, shared, local
<1>3. AllSeen' <=> AllSeen
  BY <1>2 DEF AllSeen
<1>4. HeadRight(w)
  BY DEF DataInv
<1>5. CASE Goodbye(w)
  <2>1. /\ pc[w] = "bye" /\ pc' = [pc EXCEPT ![w] = "busy?"]
        /\ param' = [param EXCEPT ![w].is_busy = FALSE]
    BY <1>5 DEF Goodbye, Goto, Freed
  <2>2. param = [v \in Workers |-> [start_vertex |-> param[v].start_vertex, dist |-> param[v].dist,
                                    is_busy |-> param[v].is_busy]]
    BY DEF CountInv, CountTypes
  <2>3. /\ param'[w].start_vertex = param[w].start_vertex
        /\ \A x \in Workers : x # w => param'[x] = param[x]
    BY <2>1, <2>2
  <2>4. pc'[w] = "busy?"
    BY <2>1 DEF CountInv, CountTypes
  <2>5. HeadRight(w)'
    BY <1>2, <1>3, <1>4, <2>1, <2>4, Zenon DEF HeadRight, Idle
  <2>6. pc[w] \notin Idle /\ ~AtTodo(w) /\ pc[w] \notin {"share", "hand", "update", "publish"}
    BY <2>1 DEF Idle, AtTodo
  <2>7. QED
    BY <1>1, <1>2, <2>3, <2>5, <2>6, QuietData
<1>6. CASE AllFree(w)
  <2>1. pc[w] = "all free?" /\ param' = param
    BY <1>6 DEF AllFree, Goto, shared
  <2>2. PICK to \in {"exit", "busy?"} : pc' = [pc EXCEPT ![w] = to]
    BY <1>6 DEF AllFree, Goto
  <2>3. pc'[w] \in {"exit", "busy?"}
    BY <2>2 DEF CountInv, CountTypes
  <2>4. pc'[w] \in Idle /\ pc[w] \in Idle
    BY <2>1, <2>3 DEF Idle
  <2>5. HeadRight(w)'
    <3>1. AllSeen \/ next_vertices[w] = <<>>
      BY <1>4, <2>4 DEF HeadRight
    <3>2. QED
      BY <1>2, <1>3, <2>3, <3>1 DEF HeadRight
  <2>6. ~AtTodo(w) /\ pc[w] \notin {"share", "hand", "update", "publish"}
    BY <2>1 DEF AtTodo
  <2>7. QED
    BY <1>1, <1>2, <2>1, <2>4, <2>5, <2>6, QuietData
<1>7. CASE UpdateResult(w)
  <2>1. pc[w] = "update" /\ param' = param /\ pc' = [pc EXCEPT ![w] = "publish"]
    BY <1>7 DEF UpdateResult, Goto
  <2>2. pc'[w] = "publish"
    BY <2>1 DEF CountInv, CountTypes
  <2>3. HeadRight(w)' /\ AtTodo(w)'
    BY <1>2, <1>4, <2>1, <2>2 DEF HeadRight, AtTodo, Idle
  <2>4. pc[w] \notin Idle
    BY <2>1 DEF Idle
  <2>5. QED
    BY <1>1, <1>2, <2>1, <2>2, <2>3, <2>4, QuietData
<1>8. CASE Finish(w) \/ Load(w) \/ Test(w) \/ Pass(w)
  <2>1. pc[w] \in {"finish", "load", "test", "pass"} /\ param' = param
    BY <1>8 DEF Finish, Load, Test, Pass, Goto, shared
  <2>2. PICK to \in {"load", "test", "pass", "level"} : pc' = [pc EXCEPT ![w] = to]
    BY <1>8 DEF Finish, Load, Test, Pass, Goto
  <2>3. pc'[w] \in {"load", "test", "pass", "level"}
    BY <2>2 DEF CountInv, CountTypes
  <2>4. HeadRight(w)'
    BY <2>3 DEF HeadRight, Idle
  <2>5. pc[w] \notin Idle /\ ~AtTodo(w) /\ pc[w] \notin {"share", "hand", "update", "publish"}
    BY <2>1 DEF Idle, AtTodo
  <2>6. QED
    BY <1>1, <1>2, <2>1, <2>4, <2>5, QuietData
<1>9. QED
  BY <1>5, <1>6, <1>7, <1>8

LEMMA StartData ==
  ASSUME CountInv, DataInv, Start
  PROVE  DataInv'
<1>1. /\ run = "start" /\ run' = "join" /\ 0 \in Workers
      /\ UNCHANGED <<check_map, visit_bits, cur_vertices, next_vertices, todo>>
      /\ pc' = [pc EXCEPT ![0] = "busy?"]
      /\ param' = [param EXCEPT ![0].is_busy = TRUE]
  BY WorkersCount DEF Start, local
<1>2. pc'[0] = "busy?" /\ \A x \in Workers : x # 0 => pc'[x] = pc[x]
  BY <1>1 DEF CountInv, CountTypes
<1>3. param = [v \in Workers |-> [start_vertex |-> param[v].start_vertex, dist |-> param[v].dist,
                                  is_busy |-> param[v].is_busy]]
  BY DEF CountInv, CountTypes
<1>4. /\ param'[0].is_busy = TRUE /\ param'[0].start_vertex = param[0].start_vertex
      /\ \A x \in Workers : x # 0 => param'[x] = param[x]
  BY <1>1, <1>3
<1>5. check_map = {start_house} /\ param[0].start_vertex = start_house
  BY <1>1 DEF DataInv, DataTypes
<1>6. \A x \in Workers : pc[x] \in Idle
  BY <1>1 DEF CountInv, NothingYet, AtWorkIsBusy
<1>7. DataTypes'
  BY <1>1, <1>4 DEF DataInv, DataTypes
<1>8. pc'[0] \in Idle /\ \A x \in Workers : pc'[x] \in Idle
  BY <1>2, <1>6 DEF Idle
<1>9. \A x \in Workers : HeadRight(x)'
  <2>1. SUFFICES ASSUME NEW x \in Workers PROVE HeadRight(x)'
    OBVIOUS
  <2>2. AllSeen \/ next_vertices[x] = <<>>
    BY <1>6 DEF DataInv, HeadRight
  <2>3. pc'[x] \in Idle
    BY <1>8
  <2>4. pc'[x] \notin {"mark", "update", "publish", "hand"}
    BY <2>3 DEF Idle
  <2>5. QED
    BY <1>1, <2>2, <2>4 DEF HeadRight, AllSeen
<1>10. Closed'
  <2>1. PendingAt(0, start_house)'
    BY <1>4, <1>5, <1>8 DEF PendingAt
  <2>2. QED
    BY <1>1, <1>5, <2>1 DEF Closed, Pending
<1>11. Marked'
  BY <1>1, <1>5 DEF Marked
<1>12. QED
  BY <1>7, <1>9, <1>10, <1>11 DEF DataInv

LEMMA DataStep == CountInv /\ BarrierTypes /\ DataInv /\ [Next]_vars => DataInv'
<1> SUFFICES ASSUME CountInv, BarrierTypes, DataInv, [Next]_vars PROVE DataInv'
  OBVIOUS
<1>1. CASE Start
  BY <1>1, StartData
<1>2. CASE \E w \in Workers : BeginWorkAt(w)
  BY <1>2, AwaitData, LevelData, ShareData, HandData, VisitData, MarkData, PublishData, MoveData, Zenon
     DEF BeginWorkAt
<1>3. CASE Return \/ (\E h \in Houses : Elsewhere(h)) \/ UNCHANGED vars
  <2>1. /\ UNCHANGED <<check_map, param, pc, cur_vertices, next_vertices, todo>>
        /\ run' = "start" <=> run = "start"
    BY <1>3 DEF Return, Elsewhere, shared, local, vars
  <2>2. visit_bits \subseteq visit_bits' /\ visit_bits' \subseteq visit_bits \cup Reachable(start_house)
    BY <1>3 DEF Return, Elsewhere, shared, vars
  <2>3. DataTypes'
    BY <2>1, <2>2 DEF DataInv, DataTypes
  <2>4. AllSeen => AllSeen'
    BY <2>2, <2>3, SeenStays
  <2>5. \A w \in Workers : HeadRight(w)'
    BY <2>1, <2>4 DEF DataInv, HeadRight
  <2>6. \A v : Pending(v)' <=> Pending(v)
    BY <2>1 DEF Pending, PendingAt
  <2>7. \A v : Coming(v)' <=> Coming(v)
    BY <2>1 DEF Coming, AtTodo
  <2>8. Closed'
    BY <2>1, <2>4, <2>6, <2>7 DEF DataInv, Closed
  <2>9. Marked'
    BY <2>1, <2>2 DEF DataInv, Marked
  <2>10. QED
    BY <2>3, <2>5, <2>8, <2>9 DEF DataInv
<1>4. QED
  BY <1>1, <1>2, <1>3 DEF Next

LEMMA DataInit == Init => DataInv
<1> SUFFICES ASSUME Init PROVE DataInv
  OBVIOUS
<1>1. /\ check_map = {start_house} /\ visit_bits = {} /\ run = "start"
      /\ \A w \in Workers : /\ cur_vertices[w] = <<>> /\ next_vertices[w] = <<>> /\ todo[w] = <<>>
                            /\ pc[w] \in {"new", "busy?"}
  BY DEF Init
<1>2. /\ cur_vertices \in [Workers -> Seq(Reach)] /\ next_vertices \in [Workers -> Seq(Reach)]
      /\ todo \in [Workers -> Seq(Reach)]
  BY DEF Init
<1>3. \A w \in Workers : param[w].start_vertex = start_house
  BY DEF Init
<1>4. DataTypes
  BY <1>1, <1>2, <1>3, ReachFacts, WorkersCount DEF DataTypes
<1>5. \A w \in Workers : HeadRight(w)
  BY <1>1 DEF HeadRight
<1>6. Closed /\ Marked
  BY <1>1 DEF Closed, Marked
<1>7. QED
  BY <1>4, <1>5, <1>6 DEF DataInv

-----------------------------------------------------------------------------
(* No vertex is lost between the workers of a search, for any map, number  *)
(* of workers and order of the loads.                                      *)
THEOREM SearchInvariant == Spec => []DataInv
<1>1. BarrierInv => BarrierTypes
  BY DEF BarrierInv
<1>2. QED
  BY <1>1, CountInvariant, BarrierInvariant, DataInit, DataStep, PTL DEF Spec

(* What is closed under the roads and contains the start contains all that *)
(* can be reached.                                                         *)
LEMMA ClosedIsAll ==
  ASSUME NEW S, start_house \in S,
         \A v \in S : \A u \in Vertices : Adjacent(v, u) => u \in S
  PROVE  Reach \subseteq S
<1>1. start_house \in Houses /\ num_vertices \in Nat
  BY SearchAssumption, HousesAreVertices
<1> DEFINE T == {d \in Nat : Ball(start_house, d) \subseteq S}
<1>2. 0 \in T
  BY <1>1, FirstLevel, HousesAreVertices
<1>3. \A d \in T : d + 1 \in T
  <2>1. SUFFICES ASSUME NEW d \in Nat, Ball(start_house, d) \subseteq S
                 PROVE  Ball(start_house, d + 1) \subseteq S
    OBVIOUS
  <2>2. /\ Ball(start_house, d + 1) = Ball(start_house, d) \cup Sphere(start_house, d + 1)
        /\ Sphere(start_house, d) \subseteq Ball(start_house, d)
        /\ \A v \in Sphere(start_house, d + 1) : \E u \in Sphere(start_house, d) : Adjacent(u, v)
    BY <1>1, NextLevel, HousesAreVertices
  <2>3. Sphere(start_house, d + 1) \subseteq Vertices
    BY DEF Sphere
  <2>4. QED
    BY <2>1, <2>2, <2>3
<1>4. T = Nat
  <2> HIDE DEF T
  <2>1. T \in SUBSET Nat
    BY DEF T
  <2>2. QED
    BY <1>2, <1>3, <2>1, FromZeroUp
<1>5. ASSUME NEW v \in Reach PROVE v \in S
  <2>1. v \in Vertices /\ Distance[start_house][v] \in Nat /\ Distance[start_house][v] # Unreachable
    BY <1>1, DistanceFacts, HousesAreVertices DEF Reach
  <2>2. v \in Ball(start_house, Distance[start_house][v])
    BY <2>1 DEF Ball
  <2>3. QED
    BY <1>4, <2>1, <2>2
<1>6. QED
  BY <1>5

(* When nobody is at work any more, all houses are visited. *)
LEMMA EndVisited ==
  ASSUME CountInv, DataInv, \A w \in Workers : pc[w] = "exit", run # "start"
  PROVE  visit_bits = Reachable(start_house)
<1>1. visit_bits \subseteq Reachable(start_house)
  BY DEF DataInv, DataTypes
<1>2. CASE AllSeen
  BY <1>1, <1>2, ReachFacts DEF AllSeen
<1>3. CASE ~AllSeen
  <2>1. \A w \in Workers : /\ ~param[w].is_busy /\ next_vertices[w] = <<>>
                           /\ pc[w] \notin {"share", "hand", "update", "publish"} /\ ~AtTodo(w)
    <3>1. \A w \in Workers : ~param[w].is_busy
      BY WorkersCount DEF CountInv, ReturnedForGood, FreeWorkers
    <3>2. \A w \in Workers : next_vertices[w] = <<>>
      BY <1>3 DEF DataInv, HeadRight, Idle
    <3>3. QED
      BY <3>1, <3>2 DEF AtTodo
  <2>2. \A v : ~Pending(v)
    BY <2>1, FewHolds DEF Pending, PendingAt
  <2>3. \A v : Coming(v) => v \in check_map
    BY <2>1 DEF Coming
  <2>4. start_house \in check_map /\ \A v \in check_map : \A u \in Vertices : Adjacent(v, u) => u \in check_map
    BY <1>3, <2>2, <2>3 DEF DataInv, DataTypes, Closed
  <2>5. Reach \subseteq check_map
    BY <2>4, ClosedIsAll
  <2>6. \A h \in Houses \cap check_map : h # start_house => h \in visit_bits
    BY <2>1 DEF DataInv, Marked
  <2>7. QED
    BY <1>1, <2>5, <2>6, ReachFacts
<1>4. QED
  BY <1>2, <1>3

(* Run returns only when all workers have. *)
AllReturned == run = "returned" => \A w \in Workers : pc[w] = "exit"

LEMMA AllReturnedStep == CountInv /\ AllReturned /\ [Next]_vars => AllReturned'
<1> SUFFICES ASSUME CountInv, AllReturned, [Next]_vars PROVE AllReturned'
  OBVIOUS
<1>1. CASE \E w \in Workers : BeginWorkAt(w)
  <2>1. PICK w \in Workers : BeginWorkAt(w)
    BY <1>1
  <2>2. pc[w] # "exit"
    BY <2>1 DEF BeginWorkAt, AwaitWork, AllFree, Level, Share, Hand, Visit, Mark, UpdateResult, Publish,
                Finish, Load, Test, Pass, Goodbye, Goto
  <2>3. run' = run
    BY <2>1, Zenon DEF BeginWorkAt, AwaitWork, AllFree, Level, Share, Hand, Visit, Mark, UpdateResult,
                       Publish, Finish, Load, Test, Pass, Goodbye
  <2>4. QED
    BY <2>2, <2>3 DEF AllReturned
<1>2. CASE Start \/ Return \/ (\E h \in Houses : Elsewhere(h)) \/ UNCHANGED vars
  BY <1>2 DEF Start, Return, Elsewhere, AllReturned, vars
<1>3. QED
  BY <1>1, <1>2 DEF Next

(* When the search returns, every reachable house has been visited by it   *)
(* or has found the start house itself, for any map, number of workers and *)
(* order of the loads.                                                     *)
THEOREM NoHouseIsLost == Spec => []EveryHouseVisited
<1>1. Init => AllReturned
  BY DEF Init, AllReturned
<1>2. CountInv /\ DataInv /\ AllReturned => EveryHouseVisited
  BY EndVisited DEF AllReturned, EveryHouseVisited
<1>3. QED
  BY <1>1, <1>2, CountInvariant, SearchInvariant, AllReturnedStep, PTL DEF Spec

-----------------------------------------------------------------------------
(* The distances of what is found                                          *)

At(d) == Sphere(start_house, d)
Upto(d) == Ball(start_house, d)

(* All members of a list are in a set. *)
In(s, S) == \A v : Holds(s, v) => v \in S

(* The vertices a worker holds are at the distance its level says, and it  *)
(* works on a level only when everything up to that level is found.        *)
LevelRight(w) ==
  /\ pc[w] \in Idle /\ param[w].is_busy => param[w].start_vertex \in At(param[w].dist)
  /\ pc[w] = "level" => AllSeen \/ In(next_vertices[w], At(dist[w]))
  /\ pc[w] \in {"share", "hand"} => next_vertices[w] = <<>> /\ In(cur_vertices[w], At(dist[w]))
  /\ AtTodo(w) => In(todo[w], Upto(dist[w] + 1))
  /\ AtTodo(w) \/ pc[w] = "finish" \/ AtBarrier(w) => In(next_vertices[w], At(dist[w] + 1))
  /\ pc[w] \in {"mark", "update", "publish"} => Head(todo[w]) \in At(dist[w] + 1)
  /\ InLevel(w) => Upto(dist[w]) \subseteq check_map

(* Unless all houses are seen, everything up to the latest level is found. *)
LevelAt(L, b) == BarrierAt(L, b) /\ (AllSeen \/ Upto(L) \subseteq check_map)

LevelInv ==
  load_first = "done" =>
    (\A w \in Workers : LevelRight(w)) /\ \E L \in Nat : \E b \in 0..1 : LevelAt(L, b)

LEMMA LevelSteps ==
  ASSUME NEW d \in Nat
  PROVE  /\ Upto(d + 1) = Upto(d) \cup At(d + 1) /\ Upto(d) \cap At(d + 1) = {}
         /\ At(d) \subseteq Upto(d) /\ Upto(d) \subseteq Vertices
         /\ \A u \in At(d) : \A v \in Vertices : Adjacent(u, v) => v \in Upto(d + 1)
         /\ \A v \in At(d + 1) : \E u \in At(d) : Adjacent(u, v)
         /\ Upto(0) = {start_house} /\ At(0) = {start_house}
BY SearchAssumption, NextLevel, FirstLevel, HousesAreVertices DEF At, Upto

(* A step of one worker leaves the others right. *)
LEMMA LevelKept ==
  ASSUME \A x \in Workers : LevelRight(x), NEW w \in Workers, OthersStay(w),
         check_map \subseteq check_map', AllSeen => AllSeen',
         \A x \in Workers : x # w => \/ param'[x] = param[x]
                                     \/ param'[x].start_vertex \in At(param'[x].dist),
         LevelRight(w)'
  PROVE  \A x \in Workers : LevelRight(x)'
<1>1. SUFFICES ASSUME NEW x \in Workers, x # w PROVE LevelRight(x)'
  OBVIOUS
<1>2. /\ pc'[x] = pc[x] /\ dist'[x] = dist[x] /\ todo'[x] = todo[x]
      /\ cur_vertices'[x] = cur_vertices[x] /\ next_vertices'[x] = next_vertices[x]
  BY <1>1 DEF OthersStay
<1>3. LevelRight(x)
  OBVIOUS
<1>4. pc'[x] \in Idle /\ param'[x].is_busy => param'[x].start_vertex \in At(param'[x].dist)
  <2>1. CASE param'[x] = param[x]
    BY <1>2, <1>3, <2>1 DEF LevelRight
  <2>2. QED
    BY <1>1, <2>1
<1>5. /\ AtTodo(x)' <=> AtTodo(x)
      /\ AtBarrier(x)' <=> AtBarrier(x)
      /\ InLevel(x)' <=> InLevel(x)
  BY <1>2 DEF AtTodo, AtBarrier, InLevel
<1>6. QED
  BY <1>2, <1>3, <1>4, <1>5, Zenon DEF LevelRight

LEMMA AwaitLevel ==
  ASSUME CountInv, BarrierTypes, DataInv, NEW w \in Workers, LevelRight(w), AwaitWork(w)
  PROVE  LevelRight(w)'
<1>1. UNCHANGED <<param, check_map, visit_bits>>
  BY DEF AwaitWork, shared
<1>2. pc[w] = "busy?" /\ pc[w] \in Idle
  BY DEF AwaitWork, Goto, Idle
<1>3. CASE param[w].is_busy
  <2>1. /\ pc' = [pc EXCEPT ![w] = "level"] /\ dist' = [dist EXCEPT ![w] = param[w].dist]
        /\ next_vertices' = [next_vertices EXCEPT ![w] = Append(next_vertices[w], param[w].start_vertex)]
    BY <1>3 DEF AwaitWork, Goto
  <2>2. /\ pc'[w] = "level" /\ dist'[w] = param[w].dist
        /\ next_vertices'[w] = Append(next_vertices[w], param[w].start_vertex)
    BY <2>1 DEF CountInv, CountTypes, BarrierTypes, DataInv, DataTypes
  <2>3. /\ next_vertices[w] \in Seq(Reach) /\ param[w].start_vertex \in Reach
        /\ AllSeen \/ next_vertices[w] = <<>>
    BY <1>2 DEF DataInv, DataTypes, HeadRight
  <2>4. \A v : Holds(next_vertices'[w], v) <=> Holds(next_vertices[w], v) \/ v = param[w].start_vertex
    BY <2>2, <2>3, AppendHolds
  <2>5. param[w].start_vertex \in At(param[w].dist)
    BY <1>2, <1>3 DEF LevelRight
  <2>6. AllSeen' \/ In(next_vertices'[w], At(dist'[w]))
    <3>1. CASE AllSeen
      BY <1>1, <3>1 DEF AllSeen
    <3>2. CASE next_vertices[w] = <<>>
      BY <2>2, <2>4, <2>5, <3>2, FewHolds DEF In
    <3>3. QED
      BY <2>3, <3>1, <3>2
  <2>7. pc'[w] \notin Idle /\ ~AtTodo(w)' /\ ~AtBarrier(w)' /\ ~InLevel(w)'
    BY <2>2 DEF Idle, AtTodo, AtBarrier, InLevel
  <2>8. QED
    BY <2>2, <2>6, <2>7 DEF LevelRight
<1>4. CASE ~param[w].is_busy
  <2>1. pc' = [pc EXCEPT ![w] = "all free?"]
    BY <1>4, Zenon DEF AwaitWork, Goto
  <2>2. pc'[w] = "all free?"
    BY <2>1 DEF CountInv, CountTypes
  <2>3. ~AtTodo(w)' /\ ~AtBarrier(w)' /\ ~InLevel(w)'
    BY <2>2 DEF AtTodo, AtBarrier, InLevel
  <2>4. QED
    BY <1>1, <1>4, <2>2, <2>3, Zenon DEF LevelRight
<1>5. QED
  BY <1>3, <1>4

(* A worker that begins a level is in the latest one, up to which          *)
(* everything is found.                                                    *)
LEMMA LevelLevel ==
  ASSUME CountInv, BarrierTypes, DataInv, NEW L \in Nat, NEW b \in 0..1, LevelAt(L, b),
         NEW w \in Workers, LevelRight(w), Level(w)
  PROVE  LevelRight(w)'
<1>1. UNCHANGED <<check_map, visit_bits, dist>> /\ pc[w] = "level"
  BY DEF Level, Goto, shared
<1>2. CASE visit_bits # full_visit_bits /\ next_vertices[w] # <<>>
  <2>1. /\ pc' = [pc EXCEPT ![w] = "share"]
        /\ cur_vertices' = [cur_vertices EXCEPT ![w] = next_vertices[w]]
        /\ next_vertices' = [next_vertices EXCEPT ![w] = <<>>]
    BY <1>2 DEF Level, Goto
  <2>2. pc'[w] = "share" /\ cur_vertices'[w] = next_vertices[w] /\ next_vertices'[w] = <<>>
    BY <2>1 DEF CountInv, CountTypes, DataInv, DataTypes
  <2>3. In(cur_vertices'[w], At(dist'[w]))
    BY <1>1, <1>2, <2>2 DEF LevelRight, AllSeen
  <2>4. dist[w] = L
    <3>1. pc[w] \notin Idle /\ ~AtBarrier(w) /\ BarrierAt(L, b)
      BY <1>1 DEF Idle, AtBarrier, LevelAt
    <3>2. QED
      BY <3>1, InLatest
  <2>5. Upto(dist'[w]) \subseteq check_map'
    BY <1>1, <1>2, <2>4 DEF LevelAt, AllSeen
  <2>6. pc'[w] \notin Idle /\ ~AtTodo(w)' /\ ~AtBarrier(w)'
    BY <2>2 DEF Idle, AtTodo, AtBarrier
  <2>7. QED
    BY <2>2, <2>3, <2>5, <2>6 DEF LevelRight
<1>3. CASE ~(visit_bits # full_visit_bits /\ next_vertices[w] # <<>>)
  <2>1. pc' = [pc EXCEPT ![w] = "bye"]
    BY <1>3 DEF Level, Goto
  <2>2. pc'[w] = "bye"
    BY <2>1 DEF CountInv, CountTypes
  <2>3. pc'[w] \notin Idle /\ ~AtTodo(w)' /\ ~AtBarrier(w)' /\ ~InLevel(w)'
    BY <2>2 DEF Idle, AtTodo, AtBarrier, InLevel
  <2>4. QED
    BY <2>2, <2>3 DEF LevelRight
<1>4. QED
  BY <1>2, <1>3

LEMMA VisitsLevel ==
  ASSUME CountInv, BarrierTypes, DataInv, NEW w \in Workers, OthersStay(w), run' = run,
         LevelRight(w),
         pc[w] \in {"share", "hand"}, pc'[w] = "visit",
         todo' = [todo EXCEPT ![w] = NeighborsOf(cur_vertices[w])],
         UNCHANGED <<param, check_map, visit_bits, cur_vertices, next_vertices, dist>>
  PROVE  LevelRight(w)'
<1>1. /\ todo'[w] \in Seq(Reach)
      /\ \A v : Holds(todo'[w], v) <=> \E u : Holds(cur_vertices[w], u) /\ Adjacent(u, v)
  BY VisitsData
<1>2. dist[w] \in Nat
  BY DEF BarrierTypes
<1>3. /\ next_vertices[w] = <<>> /\ In(cur_vertices[w], At(dist[w])) /\ Upto(dist[w]) \subseteq check_map
  BY DEF LevelRight, InLevel
<1>4. In(todo'[w], Upto(dist[w] + 1))
  <2>1. SUFFICES ASSUME NEW v, Holds(todo'[w], v) PROVE v \in Upto(dist[w] + 1)
    BY DEF In
  <2>2. v \in Vertices
    BY <1>1, <2>1, HoldsElements, ReachFacts
  <2>3. PICK u : u \in At(dist[w]) /\ Adjacent(u, v)
    BY <1>1, <1>3, <2>1 DEF In
  <2>4. QED
    BY <1>2, <2>2, <2>3, LevelSteps
<1>5. In(next_vertices'[w], At(dist[w] + 1))
  BY <1>3, FewHolds DEF In
<1>6. pc'[w] \notin Idle
  BY DEF Idle
<1>7. QED
  BY <1>3, <1>4, <1>5, <1>6 DEF LevelRight

LEMMA ShareLevel ==
  ASSUME CountInv, BarrierTypes, DataInv, NEW w \in Workers, LevelRight(w), Share(w)
  PROVE  LevelRight(w)'
<1>1. OthersStay(w) /\ run' = run
  BY StepFrame DEF BeginWorkAt, DataInv
<1>2. UNCHANGED <<param, check_map, visit_bits, cur_vertices, next_vertices, dist>> /\ pc[w] = "share"
  BY DEF Share, Goto, shared
<1>3. CASE num_free > 0 /\ Len(cur_vertices[w]) > 1
  <2>1. pc' = [pc EXCEPT ![w] = "hand"]
    BY <1>3 DEF Share, Goto
  <2>2. pc'[w] = "hand"
    BY <2>1 DEF CountInv, CountTypes
  <2>3. pc'[w] \notin Idle /\ ~AtTodo(w)' /\ ~AtBarrier(w)' /\ InLevel(w)
    BY <1>2, <2>2 DEF Idle, AtTodo, AtBarrier, InLevel
  <2>4. QED
    BY <1>2, <2>2, <2>3 DEF LevelRight
<1>4. CASE ~(num_free > 0 /\ Len(cur_vertices[w]) > 1)
  <2>1. /\ pc' = [pc EXCEPT ![w] = "visit"]
        /\ todo' = [todo EXCEPT ![w] = NeighborsOf(cur_vertices[w])]
    BY <1>4 DEF Share, Goto
  <2>2. pc'[w] = "visit"
    BY <2>1 DEF CountInv, CountTypes
  <2>3. QED
    BY <1>1, <1>2, <2>1, <2>2, VisitsLevel
<1>5. QED
  BY <1>3, <1>4

(* The helper gets a vertex of the level together with its number. *)
LEMMA HandLevel ==
  ASSUME CountInv, BarrierTypes, DataInv, NEW w \in Workers, LevelRight(w), Hand(w)
  PROVE  /\ LevelRight(w)'
         /\ \A x \in Workers : x # w => \/ param'[x] = param[x]
                                        \/ param'[x].start_vertex \in At(param'[x].dist)
<1>1. OthersStay(w) /\ run' = run
  BY StepFrame DEF BeginWorkAt, DataInv
<1>2. UNCHANGED <<check_map, visit_bits, next_vertices, dist>> /\ pc[w] = "hand"
  BY DEF Hand, Goto
<1>3. CASE num_free <= 0
  <2>1. /\ pc' = [pc EXCEPT ![w] = "visit"] /\ UNCHANGED <<param, cur_vertices>>
        /\ todo' = [todo EXCEPT ![w] = NeighborsOf(cur_vertices[w])]
    BY <1>3 DEF Hand, Goto, CountInv, CountTypes
  <2>2. pc'[w] = "visit"
    BY <2>1 DEF CountInv, CountTypes
  <2>3. LevelRight(w)'
    BY <1>1, <1>2, <2>1, <2>2, VisitsLevel
  <2>4. QED
    BY <2>1, <2>3
<1>4. CASE ~(num_free <= 0)
  <2>1. pc' = [pc EXCEPT ![w] = "share"]
    BY <1>4, HandOver
  <2>2. PICK i \in Workers :
              /\ i # w /\ param'[i].dist = dist[w]
              /\ param'[i].start_vertex = Last(cur_vertices[w])
              /\ \A v \in Workers : v # i => param'[v] = param[v]
    BY <1>4, HandOver
  <2>3. cur_vertices' = [cur_vertices EXCEPT ![w] = Front(cur_vertices[w])]
    BY <1>4 DEF Hand
  <2>4. pc'[w] = "share" /\ cur_vertices'[w] = Front(cur_vertices[w])
    BY <2>1, <2>3 DEF CountInv, CountTypes, DataInv, DataTypes
  <2>5. cur_vertices[w] \in Seq(Reach) /\ cur_vertices[w] # <<>>
    BY <1>2 DEF DataInv, DataTypes, HeadRight
  <2>6. \A v : Holds(cur_vertices[w], v) <=> Holds(cur_vertices'[w], v) \/ v = param'[i].start_vertex
    BY <2>2, <2>4, <2>5, FrontHolds
  <2>7. next_vertices[w] = <<>> /\ In(cur_vertices[w], At(dist[w])) /\ Upto(dist[w]) \subseteq check_map
    BY <1>2 DEF LevelRight, InLevel
  <2>8. In(cur_vertices'[w], At(dist[w])) /\ param'[i].start_vertex \in At(dist[w])
    BY <2>6, <2>7 DEF In
  <2>9. pc'[w] \notin Idle /\ ~AtTodo(w)' /\ ~AtBarrier(w)'
    BY <2>4 DEF Idle, AtTodo, AtBarrier
  <2>10. LevelRight(w)'
    BY <1>2, <2>4, <2>7, <2>8, <2>9 DEF LevelRight
  <2>11. QED
    BY <2>2, <2>8, <2>10
<1>5. QED
  BY <1>3, <1>4

(* A vertex that is not found yet is not in this level or before it. *)
LEMMA VisitLevel ==
  ASSUME CountInv, BarrierTypes, DataInv, NEW w \in Workers, LevelRight(w), Visit(w)
  PROVE  LevelRight(w)'
<1>1. UNCHANGED <<check_map, visit_bits, next_vertices, dist>> /\ pc[w] = "visit"
  BY DEF Visit, Goto, shared
<1>2. /\ todo[w] \in Seq(Reach) /\ dist[w] \in Nat
      /\ In(todo[w], Upto(dist[w] + 1)) /\ In(next_vertices[w], At(dist[w] + 1))
      /\ Upto(dist[w]) \subseteq check_map
  BY <1>1 DEF DataInv, DataTypes, BarrierTypes, LevelRight, AtTodo, InLevel
<1>3. CASE todo[w] = <<>>
  <2>1. pc' = [pc EXCEPT ![w] = "finish"]
    BY <1>3 DEF Visit, Goto
  <2>2. pc'[w] = "finish"
    BY <2>1 DEF CountInv, CountTypes
  <2>3. pc'[w] \notin Idle /\ ~AtTodo(w)'
    BY <2>2 DEF Idle, AtTodo
  <2>4. QED
    BY <1>1, <1>2, <2>2, <2>3 DEF LevelRight
<1>4. CASE todo[w] # <<>> /\ Head(todo[w]) \in check_map
  <2>1. pc' = [pc EXCEPT ![w] = "visit"] /\ todo' = [todo EXCEPT ![w] = Tail(todo[w])]
    BY <1>4 DEF Visit, Goto
  <2>2. pc'[w] = "visit" /\ todo'[w] = Tail(todo[w])
    BY <2>1 DEF CountInv, CountTypes, DataInv, DataTypes
  <2>3. \A u : Holds(todo[w], u) <=> u = Head(todo[w]) \/ Holds(todo'[w], u)
    BY <1>2, <1>4, <2>2, TailHolds
  <2>4. In(todo'[w], Upto(dist[w] + 1))
    BY <1>2, <2>3 DEF In
  <2>5. pc'[w] \notin Idle
    BY <2>2 DEF Idle
  <2>6. QED
    BY <1>1, <1>2, <2>2, <2>4, <2>5 DEF LevelRight
<1>5. CASE todo[w] # <<>> /\ Head(todo[w]) \notin check_map
  <2>1. pc' = [pc EXCEPT ![w] = "mark"] /\ todo' = todo
    BY <1>5 DEF Visit, Goto
  <2>2. pc'[w] = "mark"
    BY <2>1 DEF CountInv, CountTypes
  <2>3. Holds(todo[w], Head(todo[w]))
    BY <1>2, <1>5, TailHolds
  <2>4. Head(todo[w]) \in At(dist[w] + 1)
    BY <1>2, <1>5, <2>3, LevelSteps DEF In
  <2>5. pc'[w] \notin Idle
    BY <2>2 DEF Idle
  <2>6. QED
    BY <1>1, <1>2, <2>1, <2>2, <2>4, <2>5 DEF LevelRight
<1>6. QED
  BY <1>3, <1>4, <1>5 DEF Visit

LEMMA MarkLevel ==
  ASSUME CountInv, BarrierTypes, DataInv, NEW w \in Workers, LevelRight(w), Mark(w)
  PROVE  LevelRight(w)'
<1>1. PICK v : v = Head(todo[w])
  OBVIOUS
<1>2. /\ dist' = dist /\ pc[w] = "mark" /\ check_map' = check_map \cup {v}
      /\ next_vertices' = [next_vertices EXCEPT ![w] = Append(next_vertices[w], v)]
      /\ pc' = [pc EXCEPT ![w] = IF v \in Houses THEN "update" ELSE "visit"]
      /\ todo' = IF v \in Houses THEN todo ELSE [todo EXCEPT ![w] = Tail(todo[w])]
  BY <1>1 DEF Mark, Goto
<1>3. /\ todo[w] \in Seq(Reach) /\ todo[w] # <<>> /\ next_vertices[w] \in Seq(Reach)
      /\ In(todo[w], Upto(dist[w] + 1)) /\ In(next_vertices[w], At(dist[w] + 1))
      /\ Upto(dist[w]) \subseteq check_map /\ v \in At(dist[w] + 1)
  BY <1>1, <1>2 DEF DataInv, DataTypes, HeadRight, LevelRight, AtTodo, InLevel
<1>4. v \in Reach /\ \A u : Holds(todo[w], u) <=> u = v \/ Holds(Tail(todo[w]), u)
  BY <1>1, <1>3, TailHolds
<1>5. /\ next_vertices'[w] = Append(next_vertices[w], v)
      /\ pc'[w] = IF v \in Houses THEN "update" ELSE "visit"
      /\ todo'[w] = IF v \in Houses THEN todo[w] ELSE Tail(todo[w])
  BY <1>2 DEF CountInv, CountTypes, DataInv, DataTypes
<1>6. \A u : Holds(next_vertices'[w], u) <=> Holds(next_vertices[w], u) \/ u = v
  BY <1>3, <1>4, <1>5, AppendHolds
<1>7. In(next_vertices'[w], At(dist[w] + 1)) /\ In(todo'[w], Upto(dist[w] + 1))
  BY <1>3, <1>4, <1>5, <1>6 DEF In
<1>8. pc'[w] \in {"update", "visit"} /\ (pc'[w] = "update" => Head(todo'[w]) = v)
  BY <1>1, <1>5
<1>9. pc'[w] \notin Idle
  BY <1>8 DEF Idle
<1>10. Upto(dist[w]) \subseteq check_map'
  BY <1>2, <1>3
<1>11. QED
  BY <1>2, <1>3, <1>7, <1>8, <1>9, <1>10 DEF LevelRight

LEMMA PublishLevel ==
  ASSUME CountInv, BarrierTypes, DataInv, NEW w \in Workers, LevelRight(w), UpdateResult(w) \/ Publish(w)
  PROVE  LevelRight(w)'
<1>1. /\ UNCHANGED <<check_map, dist, next_vertices>> /\ pc[w] \in {"update", "publish"}
  BY DEF UpdateResult, Publish, Goto, local
<1>2. /\ todo[w] \in Seq(Reach) /\ todo[w] # <<>>
      /\ In(todo[w], Upto(dist[w] + 1)) /\ In(next_vertices[w], At(dist[w] + 1))
      /\ Upto(dist[w]) \subseteq check_map /\ Head(todo[w]) \in At(dist[w] + 1)
  BY <1>1 DEF DataInv, DataTypes, HeadRight, LevelRight, AtTodo, InLevel
<1>3. CASE UpdateResult(w)
  <2>1. pc' = [pc EXCEPT ![w] = "publish"] /\ todo' = todo
    BY <1>3 DEF UpdateResult, Goto, local
  <2>2. pc'[w] = "publish"
    BY <2>1 DEF CountInv, CountTypes
  <2>3. pc'[w] \notin Idle
    BY <2>2 DEF Idle
  <2>4. QED
    BY <1>1, <1>2, <2>1, <2>2, <2>3 DEF LevelRight
<1>4. CASE Publish(w)
  <2>1. pc' = [pc EXCEPT ![w] = "visit"] /\ todo' = [todo EXCEPT ![w] = Tail(todo[w])]
    BY <1>4 DEF Publish, Goto
  <2>2. pc'[w] = "visit" /\ todo'[w] = Tail(todo[w])
    BY <2>1 DEF CountInv, CountTypes, DataInv, DataTypes
  <2>3. \A u : Holds(todo[w], u) <=> u = Head(todo[w]) \/ Holds(todo'[w], u)
    BY <1>2, <2>2, TailHolds
  <2>4. In(todo'[w], Upto(dist[w] + 1))
    BY <1>2, <2>3 DEF In
  <2>5. pc'[w] \notin Idle
    BY <2>2 DEF Idle
  <2>6. QED
    BY <1>1, <1>2, <2>2, <2>4, <2>5 DEF LevelRight
<1>5. QED
  BY <1>3, <1>4

LEMMA BarrierLevel ==
  ASSUME CountInv, BarrierTypes, DataInv, NEW w \in Workers, LevelRight(w),
         AllFree(w) \/ Finish(w) \/ Load(w) \/ Test(w) \/ Pass(w) \/ Goodbye(w)
  PROVE  LevelRight(w)'
<1>1. UNCHANGED <<check_map, next_vertices>>
  BY DEF AllFree, Finish, Load, Test, Pass, Goodbye, shared, local
<1>2. CASE AllFree(w)
  <2>1. pc[w] = "all free?" /\ UNCHANGED <<param, dist>>
    BY <1>2 DEF AllFree, Goto, shared, local
  <2>2. PICK to \in {"exit", "busy?"} : pc' = [pc EXCEPT ![w] = to]
    BY <1>2 DEF AllFree, Goto
  <2>3. pc'[w] \in {"exit", "busy?"}
    BY <2>2 DEF CountInv, CountTypes
  <2>4. /\ pc[w] \in Idle /\ pc'[w] \notin {"level", "share", "hand", "finish", "mark", "update", "publish"}
        /\ ~AtTodo(w)' /\ ~AtBarrier(w)' /\ ~InLevel(w)'
    BY <2>1, <2>3 DEF Idle, AtTodo, AtBarrier, InLevel
  <2>5. QED
    BY <2>1, <2>4, Zenon DEF LevelRight
<1>3. CASE Finish(w) \/ Load(w) \/ Test(w)
  <2>1. pc[w] \in {"finish", "load", "test"} /\ dist' = dist
    BY <1>3 DEF Finish, Load, Test, Goto, local
  <2>2. PICK to \in {"load", "test", "pass"} : pc' = [pc EXCEPT ![w] = to]
    BY <1>3 DEF Finish, Load, Test, Goto
  <2>3. pc'[w] \in {"load", "test", "pass"}
    BY <2>2 DEF CountInv, CountTypes
  <2>4. In(next_vertices[w], At(dist[w] + 1))
    BY <2>1 DEF LevelRight, AtBarrier
  <2>5. pc'[w] \notin Idle /\ ~AtTodo(w)' /\ ~InLevel(w)'
    BY <2>3 DEF Idle, AtTodo, InLevel
  <2>6. QED
    BY <1>1, <2>1, <2>3, <2>4, <2>5 DEF LevelRight
<1>4. CASE Pass(w)
  <2>1. pc[w] = "pass" /\ pc' = [pc EXCEPT ![w] = "level"] /\ dist' = [dist EXCEPT ![w] = dist[w] + 1]
    BY <1>4 DEF Pass, Goto
  <2>2. pc'[w] = "level" /\ dist'[w] = dist[w] + 1
    BY <2>1 DEF CountInv, CountTypes, BarrierTypes
  <2>3. In(next_vertices[w], At(dist[w] + 1))
    BY <2>1 DEF LevelRight, AtBarrier
  <2>4. pc'[w] \notin Idle /\ ~AtTodo(w)' /\ ~AtBarrier(w)' /\ ~InLevel(w)'
    BY <2>2 DEF Idle, AtTodo, AtBarrier, InLevel
  <2>5. QED
    BY <1>1, <2>2, <2>3, <2>4 DEF LevelRight
<1>5. CASE Goodbye(w)
  <2>1. pc' = [pc EXCEPT ![w] = "busy?"] /\ param' = [param EXCEPT ![w].is_busy = FALSE]
    BY <1>5 DEF Goodbye, Goto, Freed
  <2>2. pc'[w] = "busy?"
    BY <2>1 DEF CountInv, CountTypes
  <2>3. param'[w].is_busy = FALSE
    <3>1. param = [v \in Workers |-> [start_vertex |-> param[v].start_vertex, dist |-> param[v].dist,
                                      is_busy |-> param[v].is_busy]]
      BY DEF CountInv, CountTypes
    <3>2. QED
      BY <2>1, <3>1
  <2>4. ~AtTodo(w)' /\ ~AtBarrier(w)' /\ ~InLevel(w)'
    BY <2>2 DEF AtTodo, AtBarrier, InLevel
  <2>5. QED
    BY <2>2, <2>3, <2>4, Zenon DEF LevelRight
<1>6. QED
  BY <1>2, <1>3, <1>4, <1>5

LEMMA WorkersLevel ==
  ASSUME CountInv, BarrierTypes, DataInv, DataTypes', NEW L \in Nat, NEW b \in 0..1, LevelAt(L, b),
         \A x \in Workers : LevelRight(x), NEW w \in Workers, BeginWorkAt(w),
         check_map \subseteq check_map', AllSeen => AllSeen'
  PROVE  \A x \in Workers : LevelRight(x)'
<1>1. OthersStay(w)
  BY StepFrame DEF DataInv
<1>2. LevelRight(w)'
  BY AwaitLevel, LevelLevel, ShareLevel, HandLevel, VisitLevel, MarkLevel, PublishLevel, BarrierLevel, Zenon
     DEF BeginWorkAt
<1>3. \A x \in Workers : x # w => \/ param'[x] = param[x]
                                  \/ param'[x].start_vertex \in At(param'[x].dist)
  <2>1. CASE Hand(w)
    BY <2>1, HandLevel
  <2>2. CASE Goodbye(w)
    <3>1. param' = [param EXCEPT ![w].is_busy = FALSE]
      BY <2>2 DEF Goodbye, Freed
    <3>2. QED
      BY <3>1 DEF CountInv, CountTypes
  <2>3. CASE ~Hand(w) /\ ~Goodbye(w)
    <3>1. param' = param
      BY <2>3, Zenon DEF BeginWorkAt, AwaitWork, AllFree, Level, Share, Visit, Mark, UpdateResult, Publish,
                         Finish, Load, Test, Pass, shared
    <3>2. QED
      BY <3>1
  <2>4. QED
    BY <2>1, <2>2, <2>3
<1>4. QED
  BY <1>1, <1>2, <1>3, LevelKept

(* When the first worker passes the barrier, all are at the end of the     *)
(* level: whatever is one road further has been found.                     *)
LEMMA NextFound ==
  ASSUME CountInv, DataInv, NEW L \in Nat, NEW b \in 0..1, LevelAt(L, b), ~AllSeen, run # "start",
         \A x \in Workers : LevelRight(x),
         \A x \in Busy : LevelOf(x) = L /\ AtBarrier(x)
  PROVE  Upto(L + 1) \subseteq check_map
<1>1. \A x \in Workers : /\ ~AtTodo(x) /\ pc[x] \notin {"share", "hand"}
                         /\ x \in Busy => pc[x] \notin Idle
  <2>1. SUFFICES ASSUME NEW x \in Workers
                 PROVE  /\ ~AtTodo(x) /\ pc[x] \notin {"share", "hand"}
                        /\ x \in Busy => pc[x] \notin Idle
    OBVIOUS
  <2>2. CASE x \in Busy
    BY <2>2 DEF AtBarrier, AtTodo, Idle
  <2>3. CASE x \notin Busy
    <3>1. pc[x] \in Idle
      BY <2>3 DEF CountInv, AtWorkIsBusy, Busy
    <3>2. QED
      BY <2>3, <3>1 DEF AtTodo, Idle
  <2>4. QED
    BY <2>2, <2>3
<1>2. ASSUME NEW v \in At(L) PROVE ~Pending(v)
  <2>1. SUFFICES ASSUME NEW x \in Workers, PendingAt(x, v) PROVE FALSE
    BY DEF Pending
  <2>2. Holds(next_vertices[x], v)
    BY <1>1, <2>1 DEF PendingAt, Busy
  <2>3. CASE x \in Busy
    <3>1. dist[x] = L /\ AtBarrier(x)
      BY <1>1, <2>3 DEF LevelOf
    <3>2. v \in At(L + 1)
      BY <2>2, <3>1 DEF LevelRight, In
    <3>3. QED
      BY <3>2, LevelSteps
  <2>4. CASE x \notin Busy
    <3>1. pc[x] \in Idle
      BY <2>4 DEF CountInv, AtWorkIsBusy, Busy
    <3>2. next_vertices[x] = <<>>
      BY <3>1 DEF DataInv, HeadRight
    <3>3. QED
      BY <2>2, <3>2, FewHolds
  <2>5. QED
    BY <2>3, <2>4
<1>3. Upto(L) \subseteq check_map
  BY DEF LevelAt
<1>4. ASSUME NEW v \in At(L + 1) PROVE v \in check_map
  <2>1. PICK u \in At(L) : Adjacent(u, v)
    BY LevelSteps
  <2>2. u \in check_map /\ ~Pending(u) /\ v \in Vertices
    BY <1>2, <1>3, LevelSteps DEF At, Sphere
  <2>3. Coming(v)
    BY <2>1, <2>2 DEF DataInv, Closed
  <2>4. QED
    BY <1>1, <2>3 DEF Coming
<1>5. QED
  BY <1>3, <1>4, LevelSteps

LEMMA LevelInit == Init => LevelInv
<1> SUFFICES ASSUME Init PROVE LevelInv
  OBVIOUS
<1>1. \A w \in Workers : pc[w] \in {"new", "busy?"}
  BY DEF Init
<1>2. \A w \in Workers : ~param[w].is_busy
  BY DEF Init
<1>3. \A w \in Workers : LevelRight(w)
  <2>1. \A w \in Workers : ~AtTodo(w) /\ ~AtBarrier(w) /\ ~InLevel(w)
    BY <1>1 DEF AtTodo, AtBarrier, InLevel
  <2>2. \A w \in Workers : pc[w] \notin {"level", "share", "hand", "finish", "mark", "update", "publish"}
    BY <1>1
  <2>3. QED
    BY <1>2, <2>1, <2>2, Zenon DEF LevelRight
<1>4. BarrierAt(0, 0)
  <2>1. Busy = {}
    BY <1>2 DEF Busy
  <2>2. full[0] = {} /\ done[0] = {} /\ done_flag[0] = FALSE
    BY DEF Init
  <2>3. QED
    BY <2>1, <2>2 DEF BarrierAt
<1>5. Upto(0) \subseteq check_map
  BY LevelSteps DEF Init
<1>6. QED
  BY <1>3, <1>4, <1>5 DEF LevelInv, LevelAt

LEMMA FoundStays ==
  ASSUME CountInv, [Next]_vars
  PROVE  check_map \subseteq check_map' /\ visit_bits \subseteq visit_bits' /\ load_first' = load_first
<1>1. check_map \subseteq check_map'
  BY DEF Next, Start, Return, Elsewhere, BeginWorkAt, AwaitWork, AllFree, Level, Share, Hand, Visit,
         Mark, UpdateResult, Publish, Finish, Load, Test, Pass, Goodbye, vars, shared
<1>2. visit_bits \subseteq visit_bits'
  BY DEF Next, Start, Return, Elsewhere, BeginWorkAt, AwaitWork, AllFree, Level, Share, Hand, Visit,
         Mark, UpdateResult, Publish, Finish, Load, Test, Pass, Goodbye, vars, shared
<1>3. load_first' = load_first
  BY DEF Next, Start, Return, Elsewhere, BeginWorkAt, AwaitWork, AllFree, Level, Share, Hand, Visit,
         Mark, UpdateResult, Publish, Finish, Load, Test, Pass, Goodbye, vars, shared
<1>4. QED
  BY <1>1, <1>2, <1>3

LEMMA LevelStep == CountInv /\ BarrierInv /\ DataInv /\ DataInv' /\ LevelInv /\ [Next]_vars => LevelInv'
<1> SUFFICES ASSUME CountInv, BarrierInv, DataInv, DataTypes', LevelInv, [Next]_vars, load_first' = "done"
             PROVE  (\A w \in Workers : LevelRight(w)') /\ \E L \in Nat : \E b \in 0..1 : LevelAt(L, b)'
  BY DEF LevelInv, DataInv
<1>1. /\ check_map \subseteq check_map' /\ visit_bits \subseteq visit_bits' /\ load_first = "done"
      /\ BarrierTypes
  BY FoundStays DEF BarrierInv
<1>2. AllSeen => AllSeen'
  BY <1>1, SeenStays
<1>3. /\ \A w \in Workers : LevelRight(w)
      /\ \E L \in Nat : \E b \in 0..1 : LevelAt(L, b)
  BY <1>1 DEF LevelInv
<1>4. PICK L \in Nat, b \in 0..1 : LevelAt(L, b)
  BY <1>3
<1>5. BarrierAt(L, b)' => LevelAt(L, b)'
  BY <1>1, <1>2, <1>4 DEF LevelAt
<1>6. CASE \E w \in Workers : BeginWorkAt(w)
  <2>1. PICK w \in Workers : BeginWorkAt(w)
    BY <1>6
  <2>2. \A x \in Workers : LevelRight(x)'
    BY <1>1, <1>2, <1>3, <1>4, <2>1, WorkersLevel
  <2>3. CASE ~Pass(w)
    <3>1. BarrierAt(L, b)'
      BY <1>1, <1>4, <2>1, <2>3, WorkerBarrier DEF LevelAt
    <3>2. QED
      BY <1>5, <2>2, <3>1
  <2>4. CASE Pass(w)
    <3>1. \/ /\ BarrierAt(L + 1, 1 - b)'
             /\ \A v \in Busy : LevelOf(v) = L /\ AtBarrier(v)
          \/ BarrierAt(L, b)'
      BY <1>1, <1>4, <2>4, PassBarrier DEF LevelAt
    <3>2. CASE BarrierAt(L, b)'
      BY <1>5, <2>2, <3>2
    <3>3. CASE /\ BarrierAt(L + 1, 1 - b)'
               /\ \A v \in Busy : LevelOf(v) = L /\ AtBarrier(v)
      <4>1. run # "start"
        <5>1. pc[w] \notin Idle
          BY <2>4 DEF Pass, Goto, Idle
        <5>2. QED
          BY <5>1, AfterStart
      <4>2. AllSeen \/ Upto(L + 1) \subseteq check_map
        BY <1>3, <1>4, <3>3, <4>1, NextFound
      <4>3. LevelAt(L + 1, 1 - b)'
        BY <1>1, <1>2, <3>3, <4>2 DEF LevelAt
      <4>4. L + 1 \in Nat /\ 1 - b \in 0..1
        OBVIOUS
      <4>5. QED
        BY <2>2, <4>3, <4>4
    <3>4. QED
      BY <3>1, <3>2, <3>3
  <2>5. QED
    BY <2>3, <2>4
<1>7. CASE Start
  <2>1. /\ run = "start" /\ UNCHANGED <<check_map, visit_bits, dist, cur_vertices, next_vertices, todo>>
        /\ 0 \in Workers /\ pc' = [pc EXCEPT ![0] = "busy?"]
        /\ param' = [param EXCEPT ![0].is_busy = TRUE]
    BY <1>7, WorkersCount DEF Start, local
  <2>2. param = [v \in Workers |-> [start_vertex |-> param[v].start_vertex, dist |-> param[v].dist,
                                    is_busy |-> param[v].is_busy]]
    BY DEF CountInv, CountTypes
  <2>3. /\ param'[0].start_vertex = param[0].start_vertex /\ param'[0].dist = param[0].dist
        /\ \A x \in Workers : x # 0 => param'[x] = param[x]
    BY <2>1, <2>2
  <2>4. param[0].start_vertex = start_house /\ param[0].dist = 0
    BY <2>1 DEF DataInv, DataTypes, BarrierInv, AtStart
  <2>5. pc'[0] = "busy?" /\ \A x \in Workers : x # 0 => pc'[x] = pc[x]
    BY <2>1 DEF CountInv, CountTypes
  <2>6. LevelRight(0)'
    <3>1. ~AtTodo(0)' /\ ~AtBarrier(0)' /\ ~InLevel(0)'
      BY <2>5 DEF AtTodo, AtBarrier, InLevel
    <3>2. param'[0].start_vertex \in At(param'[0].dist)
      BY <2>3, <2>4, LevelSteps
    <3>3. QED
      BY <2>5, <3>1, <3>2, Zenon DEF LevelRight
  <2>7. OthersStay(0)
    BY <2>1, <2>5 DEF OthersStay
  <2>8. \A x \in Workers : LevelRight(x)'
    BY <1>1, <1>2, <1>3, <2>1, <2>3, <2>6, <2>7, LevelKept
  <2>9. BarrierAt(0, 0)'
    BY <1>1, <1>7, StartBarrier DEF BarrierInv
  <2>10. Upto(0) \subseteq check_map'
    BY <1>1, LevelSteps DEF DataInv, DataTypes
  <2>11. QED
    BY <2>8, <2>9, <2>10 DEF LevelAt
<1>8. CASE Return \/ (\E h \in Houses : Elsewhere(h)) \/ UNCHANGED vars
  <2>1. BarrierAt(L, b)'
    BY <1>4, <1>8, OutsideBarrier DEF LevelAt
  <2>2. UNCHANGED <<check_map, param, pc, dist, cur_vertices, next_vertices, todo>>
    BY <1>8 DEF Return, Elsewhere, shared, local, vars
  <2>3. \A x \in Workers : LevelRight(x)'
    <3>1. SUFFICES ASSUME NEW x \in Workers PROVE LevelRight(x)'
      OBVIOUS
    <3>2. LevelRight(x) /\ (AtTodo(x)' <=> AtTodo(x)) /\ (AtBarrier(x)' <=> AtBarrier(x))
          /\ (InLevel(x)' <=> InLevel(x))
      BY <1>3, <2>2 DEF AtTodo, AtBarrier, InLevel
    <3>3. QED
      BY <1>2, <2>2, <3>2, Zenon DEF LevelRight
  <2>4. QED
    BY <1>5, <2>1, <2>3
<1>9. QED
  BY <1>6, <1>7, <1>8 DEF Next

-----------------------------------------------------------------------------
(* The invariant of the levels, for any map and number of workers. *)
THEOREM LevelInvariant == Spec => []LevelInv
<1>1. QED
  BY CountInvariant, BarrierInvariant, SearchInvariant, LevelInit, LevelStep, PTL DEF Spec

(* In a build that loads done_bits before full_bits a vertex is found at   *)
(* its true distance, although any number of workers hand vertices over to *)
(* each other and test and set check_map_ without a lock.                  *)
THEOREM TrueDistances == Spec => []FoundAtTrueDistance
<1>1. ASSUME DataInv, LevelInv
      PROVE  FoundAtTrueDistance
  <2>1. SUFFICES ASSUME load_first = "done", NEW w \in Workers, pc[w] \in {"mark", "update"}
                 PROVE  dist[w] + 1 = Distance[start_house][Head(todo[w])]
    BY DEF FoundAtTrueDistance
  <2>2. Head(todo[w]) \in At(dist[w] + 1)
    BY <1>1, <2>1 DEF LevelInv, LevelRight
  <2>3. QED
    BY <2>2 DEF At, Sphere
<1>2. QED
  BY <1>1, SearchInvariant, LevelInvariant, PTL

-----------------------------------------------------------------------------
(* The results                                                             *)

HouseDistances == {Distance[start_house][h] : h \in Reachable(start_house)}

Between(r, h) == r.min_dist <= Distance[start_house][h] /\ Distance[start_house][h] <= r.max_dist

(* A house is between the results before it is published. *)
ResultInv ==
  load_first = "done" =>
    /\ result.min_dist \in HouseDistances \cup {INT_MAX}
    /\ result.max_dist \in HouseDistances \cup {0}
    /\ \A h \in visit_bits \ elsewhere : Between(result, h)
    /\ \A w \in Workers : pc[w] = "publish" => Between(result, Head(todo[w]))

(* Updating the results with the distance of a house. *)
LEMMA UpdateWidens ==
  ASSUME NEW r, NEW g \in Reachable(start_house),
         r.min_dist \in HouseDistances \cup {INT_MAX},
         r.max_dist \in HouseDistances \cup {0},
         NEW q, q = Update(r, Distance[start_house][g])
  PROVE  /\ q.min_dist \in HouseDistances \cup {INT_MAX}
         /\ q.max_dist \in HouseDistances \cup {0}
         /\ Between(q, g) /\ \A h \in Reachable(start_house) : Between(r, h) => Between(q, h)
<1> DEFINE D == HouseDistances
           d == Distance[start_house][g]
<1>1. \A h \in Reachable(start_house) : Distance[start_house][h] \in D /\ Distance[start_house][h] \in Nat
  <2>1. \A h \in Reachable(start_house) : h \in Vertices
    BY ReachFacts
  <2>2. QED
    BY <2>1, SearchAssumption, DistanceFacts, HousesAreVertices DEF HouseDistances
<1>2. (\A x \in D \cup {INT_MAX} : x \in Nat) /\ (\A x \in D \cup {0} : x \in Nat)
  BY <1>1, SearchAssumption DEF HouseDistances
<1>3. d \in D /\ d \in Nat
  BY <1>1
<1>4. r.min_dist \in D \cup {INT_MAX} /\ r.max_dist \in D \cup {0}
  OBVIOUS
<1>5. /\ q.min_dist = IF d < r.min_dist THEN d ELSE r.min_dist
      /\ q.max_dist = IF d > r.max_dist THEN d ELSE r.max_dist
  BY DEF Update
<1> HIDE DEF D, d
<1>6. r.min_dist \in Nat /\ r.max_dist \in Nat
  BY <1>2, <1>4
<1>7. q.min_dist \in D \cup {INT_MAX} /\ q.max_dist \in D \cup {0}
  BY <1>3, <1>4, <1>5
<1>8. /\ q.min_dist <= d /\ d <= q.max_dist /\ q.min_dist <= r.min_dist /\ r.max_dist <= q.max_dist
      /\ q.min_dist \in Nat /\ q.max_dist \in Nat
  BY <1>3, <1>5, <1>6
<1>9. Between(q, g)
  BY <1>8 DEF Between, d
<1>10. \A h \in Reachable(start_house) : Between(r, h) => Between(q, h)
  BY <1>1, <1>6, <1>8 DEF Between
<1>11. QED
  BY <1>7, <1>9, <1>10 DEF D

LEMMA ResultInit == Init => ResultInv
<1> SUFFICES ASSUME Init PROVE ResultInv
  OBVIOUS
<1>1. result.min_dist = INT_MAX /\ result.max_dist = 0 /\ visit_bits = {}
  BY DEF Init
<1>2. \A w \in Workers : pc[w] # "publish"
  BY DEF Init
<1>3. QED
  BY <1>1, <1>2 DEF ResultInv

LEMMA ResultStep == CountInv /\ BarrierInv /\ DataInv /\ LevelInv /\ ResultInv /\ [Next]_vars => ResultInv'
<1> SUFFICES ASSUME CountInv, BarrierInv, DataInv, LevelInv, ResultInv, [Next]_vars, load_first' = "done"
             PROVE  ResultInv'
  BY DEF ResultInv
<1>1. load_first = "done" /\ BarrierTypes /\ DataTypes
  BY FoundStays DEF BarrierInv, DataInv
<1>2. /\ result.min_dist \in HouseDistances \cup {INT_MAX} /\ result.max_dist \in HouseDistances \cup {0}
      /\ \A h \in visit_bits \ elsewhere : Between(result, h)
      /\ \A w \in Workers : pc[w] = "publish" => Between(result, Head(todo[w]))
  BY <1>1 DEF ResultInv
<1>3. ASSUME NEW w \in Workers, UpdateResult(w)
      PROVE  ResultInv'
  <2>1. /\ pc[w] = "update" /\ pc' = [pc EXCEPT ![w] = "publish"]
        /\ result' = Update(result, dist[w] + 1)
        /\ UNCHANGED <<visit_bits, elsewhere, todo>>
    BY <1>3 DEF UpdateResult, Goto, local
  <2>2. PICK g : g = Head(todo[w])
    OBVIOUS
  <2>3. g \in Reachable(start_house)
    <3>1. g \in Houses \cap check_map /\ g # start_house
      BY <2>1, <2>2 DEF DataInv, HeadRight
    <3>2. QED
      BY <1>1, <3>1, ReachFacts DEF DataTypes
  <2>4. dist[w] + 1 = Distance[start_house][g]
    <3>1. g \in At(dist[w] + 1)
      BY <1>1, <2>1, <2>2 DEF LevelInv, LevelRight
    <3>2. QED
      BY <3>1 DEF At, Sphere
  <2>5. /\ result'.min_dist \in HouseDistances \cup {INT_MAX} /\ result'.max_dist \in HouseDistances \cup {0}
        /\ Between(result', g)
        /\ \A h \in Reachable(start_house) : Between(result, h) => Between(result', h)
    BY <1>2, <2>1, <2>3, <2>4, UpdateWidens
  <2>6. \A h \in visit_bits' \ elsewhere' : Between(result', h)
    BY <1>1, <1>2, <2>1, <2>5 DEF DataTypes
  <2>7. ASSUME NEW x \in Workers, pc'[x] = "publish"
        PROVE  Between(result', Head(todo'[x]))
    <3>1. CASE x = w
      BY <2>1, <2>2, <2>5, <3>1
    <3>2. CASE x # w
      <4>1. pc[x] = "publish"
        BY <2>1, <2>7, <3>2 DEF CountInv, CountTypes
      <4>2. Head(todo[x]) \in Reachable(start_house)
        <5>1. Head(todo[x]) \in Houses \cap check_map /\ Head(todo[x]) # start_house
          BY <4>1 DEF DataInv, HeadRight
        <5>2. QED
          BY <1>1, <5>1, ReachFacts DEF DataTypes
      <4>3. QED
        BY <1>2, <2>1, <2>5, <4>1, <4>2
    <3>3. QED
      BY <3>1, <3>2
  <2>8. QED
    BY <2>5, <2>6, <2>7 DEF ResultInv
<1>4. ASSUME NEW w \in Workers, Publish(w)
      PROVE  ResultInv'
  <2>1. /\ pc[w] = "publish" /\ pc' = [pc EXCEPT ![w] = "visit"]
        /\ visit_bits' = visit_bits \cup {Head(todo[w])}
        /\ UNCHANGED <<result, elsewhere>>
    BY <1>4 DEF Publish, Goto
  <2>2. OthersStay(w)
    BY <1>1, <1>4, StepFrame DEF BeginWorkAt
  <2>3. \A h \in visit_bits' \ elsewhere' : Between(result', h)
    BY <1>2, <2>1
  <2>4. \A x \in Workers : pc'[x] = "publish" => Between(result', Head(todo'[x]))
    <3>1. \A x \in Workers : pc'[x] = "publish" => x # w
      BY <2>1 DEF CountInv, CountTypes
    <3>2. QED
      BY <1>2, <2>1, <2>2, <3>1 DEF OthersStay
  <2>5. QED
    BY <1>2, <2>1, <2>3, <2>4 DEF ResultInv
<1>5. ASSUME NEW w \in Workers, BeginWorkAt(w), ~UpdateResult(w), ~Publish(w)
      PROVE  ResultInv'
  <2>1. UNCHANGED <<result, visit_bits, elsewhere>>
    BY <1>5, Zenon DEF BeginWorkAt, AwaitWork, AllFree, Level, Share, Hand, Visit, Mark, Finish, Load, Test,
                       Pass, Goodbye, shared
  <2>2. OthersStay(w)
    BY <1>1, <1>5, StepFrame
  <2>3. pc'[w] # "publish"
    <3>1. \E e : e # "publish" /\ pc' = [pc EXCEPT ![w] = e]
      BY <1>5 DEF BeginWorkAt, AwaitWork, AllFree, Level, Share, Hand, Visit, Mark, Finish, Load, Test,
                  Pass, Goodbye, Goto
    <3>2. QED
      BY <3>1 DEF CountInv, CountTypes
  <2>4. \A x \in Workers : pc'[x] = "publish" => Between(result', Head(todo'[x]))
    BY <1>2, <2>1, <2>2, <2>3 DEF OthersStay
  <2>5. QED
    BY <1>2, <2>1, <2>4 DEF ResultInv
<1>6. ASSUME Start
      PROVE  ResultInv'
  <2>1. UNCHANGED <<result, visit_bits, elsewhere, todo>> /\ pc' = [pc EXCEPT ![0] = "busy?"] /\ 0 \in Workers
    BY <1>6, WorkersCount DEF Start, local
  <2>2. \A x \in Workers : pc'[x] = "publish" => pc[x] = "publish"
    BY <2>1 DEF CountInv, CountTypes
  <2>3. QED
    BY <1>2, <2>1, <2>2 DEF ResultInv
<1>7. ASSUME Return \/ (\E h \in Houses : Elsewhere(h)) \/ UNCHANGED vars
      PROVE  ResultInv'
  <2>1. UNCHANGED <<result, pc, todo>>
    BY <1>7 DEF Return, Elsewhere, shared, local, vars
  <2>2. visit_bits' \ elsewhere' \subseteq visit_bits \ elsewhere
    BY <1>7 DEF Return, Elsewhere, shared, vars
  <2>3. QED
    BY <1>2, <2>1, <2>2 DEF ResultInv
<1>8. QED
  BY <1>3, <1>4, <1>5, <1>6, <1>7 DEF Next

(* In a build that loads done_bits before full_bits, min_dist and max_dist *)
(* are right when the search returns, for any map and number of workers.   *)
THEOREM ResultsRight == Spec => []ResultRightDoneFirst
<1>1. Spec => []ResultInv
  BY CountInvariant, BarrierInvariant, SearchInvariant, LevelInvariant, ResultInit, ResultStep, PTL DEF Spec
<1>2. ResultInv /\ EveryHouseVisited => ResultRightDoneFirst
  BY DEF ResultInv, EveryHouseVisited, ResultRightDoneFirst, ResultRight, Between, HouseDistances
<1>3. QED
  BY <1>1, <1>2, NoHouseIsLost, PTL
=============================================================================
