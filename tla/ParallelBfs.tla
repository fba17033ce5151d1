---------------------------- MODULE ParallelBfs ----------------------------
(***************************************************************************)
(* BFSMultiThreadContext (src/Project1/src/bfs.cpp): one search from one   *)
(* house by several workers.  A worker with more than one vertex in its    *)
(* level hands vertices to free workers; at the end of a level the busy    *)
(* workers meet at a barrier made of two bit sets, used alternately:       *)
(*   full - the workers that take part in the level,                       *)
(*   done - those that have finished it.                                   *)
(* Sections between pthread_mutex_lock and pthread_mutex_unlock are single *)
(* steps; every access outside them is a step of its own.                  *)
(***************************************************************************)
EXTENDS RoadMap

CONSTANTS start_house,
          num_threads,
          INT_MAX,
          LoadOrders \* the operands of the barrier's test a build may load first

ASSUME SearchAssumption ==
  /\ start_house \in Houses
  /\ num_threads \in 2..64
  /\ INT_MAX \in Nat /\ INT_MAX > num_vertices
  /\ LoadOrders \subseteq {"full", "done"}

Workers == 0..num_threads - 1
Bits == SUBSET Workers

VARIABLES
  load_first,   \* which of them this build loads first
  check_map,    \* vertices found so far
  visit_bits,   \* row of start_house in g_context.visit_bitmap: houses seen
  elsewhere,    \* the houses in it whose own search found start_house
  result,       \* result_
  done,         \* worker_done_bits_buf_
  full,         \* worker_done_full_bits_buf_
  done_flag,    \* done_bits_flag_buf_
  num_free,     \* num_free_workers_
  param,        \* the WorkParam of each worker
  pc,           \* where each worker is in BeginWorkAt
  dist,         \* locals of BeginWorkAt: the level ...
  cur_vertices, \* ... its vertices
  next_vertices,\* ... and those of the next
  todo,         \* ... the neighbours VisitNeighborsOf still has to visit
  loaded,       \* ... the operand of the barrier's test loaded first
  run           \* where Run is

shared == <<load_first, check_map, visit_bits, elsewhere, result, done, full, done_flag, num_free, param>>
local == <<dist, cur_vertices, next_vertices, todo, loaded>>
vars == <<load_first, check_map, visit_bits, elsewhere, result, done, full, done_flag, num_free,
          param, pc, dist, cur_vertices, next_vertices, todo, loaded, run>>

full_visit_bits == Houses \ {start_house}

Locations == {"new", "busy?", "all free?", "level", "share", "hand", "visit", "mark",
              "update", "publish", "finish", "load", "test", "pass", "bye", "exit"}

TypeOK ==
  /\ load_first \in LoadOrders
  /\ check_map \subseteq Vertices
  /\ elsewhere \subseteq visit_bits /\ visit_bits \subseteq full_visit_bits
  /\ result \in [min_dist : 1..num_vertices \cup {INT_MAX}, max_dist : 0..num_vertices]
  /\ done \in [0..1 -> Bits] /\ full \in [0..1 -> Bits]
  /\ done_flag \in [0..1 -> BOOLEAN]
  /\ num_free \in 0..num_threads
  /\ param \in [Workers -> [start_vertex : Vertices, dist : Nat, is_busy : BOOLEAN]]
  /\ pc \in [Workers -> Locations]
  /\ dist \in [Workers -> Nat]
  /\ cur_vertices \in [Workers -> Seq(Vertices)]
  /\ next_vertices \in [Workers -> Seq(Vertices)]
  /\ todo \in [Workers -> Seq(Vertices)]
  /\ loaded \in [Workers -> Bits]
  /\ run \in {"start", "join", "returned"}

(* Run has created workers 1, 2, ...; worker 0 is created last. *)
Init ==
  /\ load_first \in LoadOrders
  /\ check_map = {start_house}
  /\ visit_bits = {} /\ elsewhere = {}
  /\ result = [min_dist |-> INT_MAX, max_dist |-> 0]
  /\ done = [b \in 0..1 |-> {}] /\ full = [b \in 0..1 |-> {}]
  /\ done_flag = [b \in 0..1 |-> FALSE]
  /\ num_free = 0
  /\ param = [w \in Workers |->
                [start_vertex |-> start_house, dist |-> 0, is_busy |-> FALSE]]
  /\ pc = [w \in Workers |-> IF w = 0 THEN "new" ELSE "busy?"]
  /\ dist = [w \in Workers |-> 0]
  /\ cur_vertices = [w \in Workers |-> <<>>]
  /\ next_vertices = [w \in Workers |-> <<>>]
  /\ todo = [w \in Workers |-> <<>>]
  /\ loaded = [w \in Workers |-> {}]
  /\ run = "start"

-----------------------------------------------------------------------------
(* Run *)

(* The workers that are free when worker 0 starts. *)
OthersFree == num_threads - 1

(* Worker 0 gets the start house; its thread is created. *)
Start ==
  /\ run = "start" /\ run' = "join"
  /\ param' = [param EXCEPT ![0].is_busy = TRUE]
  /\ full' = [full EXCEPT ![0] = {0}]
  /\ num_free' = OthersFree
  /\ pc' = [pc EXCEPT ![0] = "busy?"]
  /\ UNCHANGED <<load_first, check_map, visit_bits, elsewhere, result, done, done_flag>>
  /\ UNCHANGED local

(* Every worker has been joined. *)
Return ==
  /\ run = "join" /\ run' = "returned"
  /\ \A w \in Workers : pc[w] = "exit"
  /\ UNCHANGED <<shared, pc, local>>

(* The search from house h, run by another HouseWorker, finds start_house  *)
(* and sets its bit in our row of visit_bitmap.                            *)
Elsewhere(h) ==
  /\ h \in Reachable(start_house) \ elsewhere
  /\ visit_bits' = visit_bits \cup {h}
  /\ elsewhere' = elsewhere \cup {h}
  /\ UNCHANGED <<load_first, check_map, result, done, full, done_flag, num_free, param, pc, local, run>>

-----------------------------------------------------------------------------
(* BeginWorkAt *)

Goto(w, from, to) ==
  /\ pc[w] = from
  /\ pc' = [pc EXCEPT ![w] = to]

Parity(w) == dist[w] % 2

(* while (!param->is_busy): a free worker waits for work ... *)
AwaitWork(w) ==
  /\ Goto(w, "busy?", IF param[w].is_busy THEN "level" ELSE "all free?")
  /\ IF param[w].is_busy
       THEN /\ dist' = [dist EXCEPT ![w] = param[w].dist]
            /\ next_vertices' = [next_vertices EXCEPT ![w] = Append(@, param[w].start_vertex)]
       ELSE UNCHANGED <<dist, next_vertices>>
  /\ UNCHANGED <<shared, cur_vertices, todo, loaded, run>>

(* ... and leaves when all workers are free. *)
AllFree(w) ==
  /\ Goto(w, "all free?", IF num_free = num_threads THEN "exit" ELSE "busy?")
  /\ UNCHANGED <<shared, local, run>>

(* The condition of the loop over the levels, and the swap. *)
Level(w) ==
  /\ IF visit_bits # full_visit_bits /\ next_vertices[w] # <<>>
       THEN /\ Goto(w, "level", "share")
            /\ cur_vertices' = [cur_vertices EXCEPT ![w] = next_vertices[w]]
            /\ next_vertices' = [next_vertices EXCEPT ![w] = <<>>]
       ELSE /\ Goto(w, "level", "bye")
            /\ UNCHANGED <<cur_vertices, next_vertices>>
  /\ UNCHANGED <<shared, dist, todo, loaded, run>>

(* The unlocked test whether to hand a vertex over; when not, the visits   *)
(* of this level begin.                                                    *)
Share(w) ==
  /\ IF num_free > 0 /\ Len(cur_vertices[w]) > 1
       THEN Goto(w, "share", "hand") /\ UNCHANGED todo
       ELSE /\ Goto(w, "share", "visit")
            /\ todo' = [todo EXCEPT ![w] = NeighborsOf(cur_vertices[w])]
  /\ UNCHANGED <<shared, dist, cur_vertices, next_vertices, loaded, run>>

FreeWorkers == {i \in Workers : ~param[i].is_busy}

(* Mutated Join: the helper is not added to the workers of the level. *)
JoinForgotten(b, i) == full

(* worker_done_full_bits |= g_pow2[i] *)
Join(b, i) == [full EXCEPT ![b] = @ \cup {i}]

(* The locked section: test again, then give the last vertex to the first  *)
(* free worker, which joins the level.                                     *)
Hand(w) ==
  /\ \/ /\ num_free <= 0
        /\ Goto(w, "hand", "visit")
        /\ todo' = [todo EXCEPT ![w] = NeighborsOf(cur_vertices[w])]
        /\ UNCHANGED <<num_free, cur_vertices, param, full>>
     \/ /\ num_free > 0
        /\ Goto(w, "hand", "share")
        /\ num_free' = num_free - 1
        /\ cur_vertices' = [cur_vertices EXCEPT ![w] = Front(@)]
        /\ LET i == Min(FreeWorkers)
           IN  /\ param' = [param EXCEPT ![i] =
                              [start_vertex |-> Last(cur_vertices[w]),
                               dist |-> dist[w], is_busy |-> TRUE]]
               /\ full' = Join(Parity(w), i)
        /\ UNCHANGED todo
  /\ UNCHANGED <<load_first, check_map, visit_bits, elsewhere, result, done, done_flag>>
  /\ UNCHANGED <<dist, next_vertices, loaded, run>>

(* VisitVertex: look at check_map ... *)
Visit(w) ==
  /\ \/ /\ todo[w] = <<>>
        /\ Goto(w, "visit", "finish")
        /\ cur_vertices' = [cur_vertices EXCEPT ![w] = <<>>]
        /\ UNCHANGED todo
     \/ /\ todo[w] # <<>> /\ Head(todo[w]) \in check_map
        /\ Goto(w, "visit", "visit")
        /\ todo' = [todo EXCEPT ![w] = Tail(@)]
        /\ UNCHANGED cur_vertices
     \/ /\ todo[w] # <<>> /\ Head(todo[w]) \notin check_map
        /\ Goto(w, "visit", "mark")
        /\ UNCHANGED <<todo, cur_vertices>>
  /\ UNCHANGED <<shared, dist, next_vertices, loaded, run>>

(* ... set it, though another worker may have done so in between ... *)
Mark(w) ==
  LET v == Head(todo[w])
  IN  /\ Goto(w, "mark", IF v \in Houses THEN "update" ELSE "visit")
      /\ check_map' = check_map \cup {v}
      /\ next_vertices' = [next_vertices EXCEPT ![w] = Append(@, v)]
      /\ todo' = IF v \in Houses THEN todo ELSE [todo EXCEPT ![w] = Tail(@)]
      /\ UNCHANGED <<load_first, visit_bits, elsewhere, result, done, full, done_flag, num_free, param>>
      /\ UNCHANGED <<dist, cur_vertices, loaded, run>>

(* Mutated Update: max_dist keeps the smallest distance too. *)
UpdateMinTwice(r, d) ==
  [min_dist |-> IF d < r.min_dist THEN d ELSE r.min_dist,
   max_dist |-> IF d < r.min_dist THEN d ELSE r.max_dist]

(* BFSResult::Update(int) *)
Update(r, d) ==
  [min_dist |-> IF d < r.min_dist THEN d ELSE r.min_dist,
   max_dist |-> IF d > r.max_dist THEN d ELSE r.max_dist]

(* ... and for a house record the distance ... *)
UpdateResult(w) ==
  /\ Goto(w, "update", "publish")
  /\ result' = Update(result, dist[w] + 1)
  /\ UNCHANGED <<load_first, check_map, visit_bits, elsewhere, done, full, done_flag, num_free, param>>
  /\ UNCHANGED <<local, run>>

(* ... and only then the fact that it was visited. *)
Publish(w) ==
  /\ Goto(w, "publish", "visit")
  /\ visit_bits' = visit_bits \cup {Head(todo[w])}
  /\ todo' = [todo EXCEPT ![w] = Tail(@)]
  /\ UNCHANGED <<load_first, check_map, elsewhere, result, done, full, done_flag, num_free, param>>
  /\ UNCHANGED <<dist, cur_vertices, next_vertices, loaded, run>>

(* worker_done_bits |= g_pow2[worker_id] *)
Finish(w) ==
  /\ Goto(w, "finish", "load")
  /\ done' = [done EXCEPT ![Parity(w)] = @ \cup {w}]
  /\ UNCHANGED <<load_first, check_map, visit_bits, elsewhere, result, full, done_flag, num_free, param>>
  /\ UNCHANGED <<local, run>>

(* while ((done & full) != full): the two operands are two loads. *)
Load(w) ==
  /\ Goto(w, "load", "test")
  /\ loaded' = [loaded EXCEPT ![w] =
                  IF load_first = "full" THEN full[Parity(w)] ELSE done[Parity(w)]]
  /\ UNCHANGED <<shared, dist, cur_vertices, next_vertices, todo, run>>

Test(w) ==
  LET f == IF load_first = "full" THEN loaded[w] ELSE full[Parity(w)]
      d == IF load_first = "full" THEN done[Parity(w)] ELSE loaded[w]
  IN  /\ Goto(w, "test", IF f \subseteq d THEN "pass" ELSE "load")
      /\ loaded' = [loaded EXCEPT ![w] = {}]
      /\ UNCHANGED <<shared, dist, cur_vertices, next_vertices, todo, run>>

(* The first worker past the barrier prepares the other pair of bit sets   *)
(* for the next level.                                                     *)
Pass(w) ==
  LET b == Parity(w)
  IN  /\ Goto(w, "pass", "level")
      /\ dist' = [dist EXCEPT ![w] = @ + 1]
      /\ IF done_flag[b]
           THEN UNCHANGED <<done, full, done_flag>>
           ELSE /\ done' = [done EXCEPT ![1 - b] = {}]
                /\ full' = [full EXCEPT ![1 - b] = full[b]]
                /\ done_flag' = [done_flag EXCEPT ![b] = TRUE, ![1 - b] = FALSE]
      /\ UNCHANGED <<load_first, check_map, visit_bits, elsewhere, result, num_free, param>>
      /\ UNCHANGED <<cur_vertices, next_vertices, todo, loaded, run>>

(* Mutated Leave: the worker stays in the bit sets of the barrier. *)
LeaveForgotten(w) == full

(* Both full bit sets &= remover *)
Leave(w) == [b \in 0..1 |-> full[b] \ {w}]

(* Mutated Freed: the worker is counted but not marked as free. *)
FreedForgotten(w) == param

(* param->is_busy = false *)
Freed(w) == [param EXCEPT ![w].is_busy = FALSE]

(* The worker leaves both levels and is free again. *)
Goodbye(w) ==
  /\ Goto(w, "bye", "busy?")
  /\ full' = Leave(w)
  /\ param' = Freed(w)
  /\ num_free' = num_free + 1
  /\ UNCHANGED <<load_first, check_map, visit_bits, elsewhere, result, done, done_flag>>
  /\ UNCHANGED <<local, run>>

BeginWorkAt(w) ==
  \/ AwaitWork(w) \/ AllFree(w) \/ Level(w) \/ Share(w) \/ Hand(w)
  \/ Visit(w) \/ Mark(w) \/ UpdateResult(w) \/ Publish(w)
  \/ Finish(w) \/ Load(w) \/ Test(w) \/ Pass(w) \/ Goodbye(w)

Next ==
  \/ Start \/ Return
  \/ \E h \in Houses : Elsewhere(h)
  \/ \E w \in Workers : BeginWorkAt(w)

(* The threads run; nothing obliges another search to find start_house.    *)
Fairness ==
  /\ WF_vars(Start) /\ WF_vars(Return)
  /\ \A w \in Workers : WF_vars(BeginWorkAt(w))

Spec == Init /\ [][Next]_vars /\ Fairness

-----------------------------------------------------------------------------
(* Properties *)

(* The count of free workers is right, so the search for a free worker in  *)
(* a hand-over never runs past the end of workers_.                        *)
FreeCountRight == run # "start" => num_free = Cardinality(FreeWorkers)

(* A vertex is found at its true distance: no worker starts on a level     *)
(* while another, perhaps one it does not know of yet, is still in the     *)
(* level before.  So it is when a build loads done first, as the source    *)
(* reads.                                                                  *)
FoundAtTrueDistance ==
  load_first = "done" => \A w \in Workers :
    pc[w] \in {"mark", "update"} => dist[w] + 1 = Distance[start_house][Head(todo[w])]

(* The distances of all reachable houses, except for those whose own       *)
(* search has found start_house, are between the two results, and the      *)
(* results are distances of houses.                                        *)
ResultRight ==
  run = "returned" =>
    LET d == Distance[start_house]
    IN  /\ \A h \in Reachable(start_house) \ elsewhere :
             result.min_dist <= d[h] /\ d[h] <= result.max_dist
        /\ result.min_dist \in {d[h] : h \in Reachable(start_house)} \cup {INT_MAX}
        /\ result.max_dist \in {d[h] : h \in Reachable(start_house)} \cup {0}

(* The results are right in a build that loads done first. *)
ResultRightDoneFirst == load_first = "done" => ResultRight

(* No house is lost on the way: when the search returns, each reachable    *)
(* house has been visited by it or has found start_house itself, although  *)
(* workers stop as soon as they see all bits set.                          *)
EveryHouseVisited == run = "returned" => visit_bits = Reachable(start_house)

(* Workers that wait for each other at the barrier, wait for work or wait  *)
(* for everybody to be free: the search ends.                              *)
Terminates == <>(run = "returned")
=============================================================================
