---------------------------- MODULE HouseSearch ----------------------------
(***************************************************************************)
(* Project1's main with one thread per HouseWorker (src/Project1/src:      *)
(* main.cpp, and BFSSingleThread in bfs.cpp).  The workers take houses     *)
(* from a shared counter and search from each.  visit_bitmap remembers the *)
(* pairs of houses that have met: a search stops as soon as its house has  *)
(* met all others, in whichever search that happened, and the last house   *)
(* is not searched from at all.                                            *)
(***************************************************************************)
EXTENDS RoadMap

CONSTANTS num_workers,  \* one HouseWorker each, no more than there are houses
          INT_MAX       \* more than any distance

ASSUME WorkersAssumption ==
  num_workers \in Nat \ {0} /\ INT_MAX \in Nat /\ INT_MAX > num_vertices /\ houses # <<>>

Workers == 1..num_workers
NewResult == [min_dist |-> INT_MAX, max_dist |-> 0]

VARIABLES
  g_house_index, \* the next house to take, counted from 0
  visit_bitmap,  \* visit_bitmap[h]: the houses that have met h
  pc,            \* where each HouseWorker is
  house,         \* the house it searches from
  check_map,     \* locals of BFSSingleThread: vertices found ...
  next_vertices, \* ... those of the next level
  todo,          \* ... the neighbours of this level still to be visited
  dist,          \* ... the level
  found,         \* ... result
  result_,       \* the HouseWorker's result over its houses
  joined,        \* main: HouseWorkers joined so far ...
  result         \* ... and their combined result

search == <<house, check_map, next_vertices, todo, dist, found>>
vars == <<g_house_index, visit_bitmap, pc, house, check_map, next_vertices, todo, dist,
          found, result_, joined, result>>

Results == [min_dist : 1..num_vertices \cup {INT_MAX}, max_dist : 0..num_vertices]

TypeOK ==
  /\ g_house_index \in 0..Len(houses) - 1 + num_workers
  /\ visit_bitmap \in [Houses -> SUBSET Houses]
  /\ pc \in [Workers -> {"loop", "take", "level", "visit", "exit"}]
  /\ house \in [Workers -> Houses]
  /\ check_map \in [Workers -> SUBSET Vertices]
  /\ next_vertices \in [Workers -> Seq(Vertices)]
  /\ todo \in [Workers -> Seq(Vertices)]
  /\ dist \in [Workers -> Nat]
  /\ found \in [Workers -> Results]
  /\ result_ \in [Workers -> Results]
  /\ joined \in 0..num_workers
  /\ result \in Results

Init ==
  /\ g_house_index = 0
  /\ visit_bitmap = [h \in Houses |-> {}]
  /\ pc = [w \in Workers |-> "loop"]
  /\ house = [w \in Workers |-> houses[1]]
  /\ check_map = [w \in Workers |-> {}]
  /\ next_vertices = [w \in Workers |-> <<>>]
  /\ todo = [w \in Workers |-> <<>>]
  /\ dist = [w \in Workers |-> 0]
  /\ found = [w \in Workers |-> NewResult]
  /\ result_ = [w \in Workers |-> NewResult]
  /\ joined = 0
  /\ result = NewResult

Goto(w, from, to) ==
  /\ pc[w] = from
  /\ pc' = [pc EXCEPT ![w] = to]

-----------------------------------------------------------------------------
(* BFSResult *)

(* BFSResult::Update(int) *)
UpdateDist(r, d) ==
  [min_dist |-> IF d < r.min_dist THEN d ELSE r.min_dist,
   max_dist |-> IF d > r.max_dist THEN d ELSE r.max_dist]

(* Mutated Update: the right-hand side replaces a result it does not widen. *)
UpdateReplaces(r, rhs) == rhs

(* BFSResult::Update(BFSResult) *)
Update(r, rhs) ==
  [min_dist |-> IF rhs.min_dist < r.min_dist THEN rhs.min_dist ELSE r.min_dist,
   max_dist |-> IF rhs.max_dist > r.max_dist THEN rhs.max_dist ELSE r.max_dist]

-----------------------------------------------------------------------------
(* BFSThread: take a house *)

(* Searches start from every house but the last. *)
NumSearched == Len(houses) - 1

(* The unlocked test of the counter. *)
LoopTest(w) ==
  /\ Goto(w, "loop", IF g_house_index < NumSearched THEN "take" ELSE "exit")
  /\ UNCHANGED <<g_house_index, visit_bitmap, search, result_, joined, result>>

(* The locked increment, the second test, and the start of the search. *)
Take(w) ==
  /\ g_house_index' = g_house_index + 1
  /\ IF g_house_index >= NumSearched
       THEN Goto(w, "take", "exit") /\ UNCHANGED search
       ELSE LET h == houses[g_house_index + 1]
            IN  /\ Goto(w, "take", "level")
                /\ house' = [house EXCEPT ![w] = h]
                /\ check_map' = [check_map EXCEPT ![w] = {h}]
                /\ next_vertices' = [next_vertices EXCEPT ![w] = <<h>>]
                /\ dist' = [dist EXCEPT ![w] = 0]
                /\ found' = [found EXCEPT ![w] = NewResult]
                /\ UNCHANGED todo
  /\ UNCHANGED <<visit_bitmap, result_, joined, result>>

-----------------------------------------------------------------------------
(* BFSSingleThread *)

(* Mutated full_visit_bits: one house is left out. *)
AllButOne(h) == Houses \ {h, Last(houses)}

full_visit_bits(h) == Houses \ {h}

(* The condition of the loop over the levels, read without a lock; when it *)
(* fails the search returns and the HouseWorker updates its result.        *)
Level(w) ==
  /\ IF visit_bitmap[house[w]] # full_visit_bits(house[w]) /\ next_vertices[w] # <<>>
       THEN /\ Goto(w, "level", "visit")
            /\ todo' = [todo EXCEPT ![w] = NeighborsOf(next_vertices[w])]
            /\ next_vertices' = [next_vertices EXCEPT ![w] = <<>>]
            /\ UNCHANGED <<house, check_map, dist, found, result_>>
       ELSE /\ Goto(w, "level", "loop")
            /\ result_' = [result_ EXCEPT ![w] = Update(@, found[w])]
            /\ check_map' = [check_map EXCEPT ![w] = {}]
            /\ next_vertices' = [next_vertices EXCEPT ![w] = <<>>]
            /\ found' = [found EXCEPT ![w] = NewResult]
            /\ UNCHANGED <<house, todo, dist>>
  /\ UNCHANGED <<g_house_index, visit_bitmap, joined, result>>

(* The locked section of VISIT_VERTEX: h and v have met. *)
Met(h, v) ==
  [visit_bitmap EXCEPT ![h] = visit_bitmap[h] \cup {v}, ![v] = visit_bitmap[v] \cup {h}]

(* VISIT_VERTEX for a vertex not found before. *)
Discover(w, v) ==
  /\ check_map' = [check_map EXCEPT ![w] = @ \cup {v}]
  /\ next_vertices' = [next_vertices EXCEPT ![w] = Append(@, v)]
  /\ IF v \in Houses
       THEN /\ found' = [found EXCEPT ![w] = UpdateDist(@, dist[w] + 1)]
            /\ visit_bitmap' = Met(house[w], v)
       ELSE UNCHANGED <<found, visit_bitmap>>

(* One neighbour, or the end of the level. *)
Visit(w) ==
  /\ \/ /\ todo[w] = <<>>
        /\ Goto(w, "visit", "level")
        /\ dist' = [dist EXCEPT ![w] = @ + 1]
        /\ UNCHANGED <<todo, check_map, next_vertices, found, visit_bitmap>>
     \/ /\ todo[w] # <<>>
        /\ Goto(w, "visit", "visit")
        /\ todo' = [todo EXCEPT ![w] = Tail(@)]
        /\ IF Head(todo[w]) \in check_map[w]
             THEN UNCHANGED <<check_map, next_vertices, found, visit_bitmap>>
             ELSE Discover(w, Head(todo[w]))
        /\ UNCHANGED dist
  /\ UNCHANGED <<g_house_index, house, result_, joined, result>>

-----------------------------------------------------------------------------
(* main *)

(* JoinAndUpdateResult for the next HouseWorker. *)
Join ==
  /\ joined < num_workers
  /\ pc[joined + 1] = "exit"
  /\ joined' = joined + 1
  /\ result' = Update(result, result_[joined + 1])
  /\ UNCHANGED <<g_house_index, visit_bitmap, pc, search, result_>>

Next == Join \/ \E w \in Workers : LoopTest(w) \/ Take(w) \/ Level(w) \/ Visit(w)

Spec == Init /\ [][Next]_vars

-----------------------------------------------------------------------------
(* Properties *)

(* What the program would print if it stopped now: everything recorded in  *)
(* a running search, in a HouseWorker or in main.                          *)
Recorded(d) ==
  \E r \in {result} \cup {found[w] : w \in Workers} \cup {result_[w] : w \in Workers} :
    r.min_dist <= d /\ d <= r.max_dist

(* visit_bitmap may make a search stop early because the distance of a     *)
(* pair that has met is in somebody's result, whichever of the two houses  *)
(* found the other and whatever happened to that search since.             *)
MetIsRecorded ==
  \A g, h \in Houses : h \in visit_bitmap[g] => Recorded(Distance[g][h])

(* The distances of houses that can be reached from each other. *)
Distances == {Distance[g][h] : g, h \in Houses} \ {0, Unreachable}

(* The two numbers main prints are the smallest and the largest distance   *)
(* over all pairs of houses that can be reached from each other, for every *)
(* interleaving of the searches and of their early stops.                  *)
ResultRight ==
  joined = num_workers =>
    result = IF Distances = {} THEN NewResult
             ELSE [min_dist |-> Min(Distances), max_dist |-> Max(Distances)]
=============================================================================
