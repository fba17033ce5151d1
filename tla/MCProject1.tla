----------------------------- MODULE MCProject1 -----------------------------
(***************************************************************************)
(* Project1's main: it divides the cores among the HouseWorkers, and when  *)
(* each has got one thread they search.  Other behaviours use only the     *)
(* pool from which searches take their vectors, or are Lab4's program on   *)
(* the same map, or use one of Lab11's lists.                              *)
(*                                                                         *)
(* In the map a road joins 3 and 4, and three ways lead around it; 6 and 7 *)
(* are dead ends.  The two houses furthest apart, 6 and 1, are the last    *)
(* two of the list: only the third search, or nobody, finds their          *)
(* distance.                                                               *)
(***************************************************************************)
EXTENDS HouseSearch, WorkerSplit, Lists

CONSTANTS Threads, MaxVectors, MaxHeld,   \* of the pool
          MeetingHouses,                  \* Lab4 has one thread per house
          MAX_VERTICES, DepthEnd          \* ... its queues and its depths

(* There is a distance to print, and the map is not too large for Lab4. *)
ASSUME MeetingAssumption ==
  MeetingHouses \in Seq(Vertices) /\ IsInjective(MeetingHouses)
  /\ Len(MeetingHouses) \in 2..MAX_HOUSE
  /\ MAX_VERTICES \in Nat /\ num_vertices <= MAX_VERTICES /\ DepthEnd \in Nat \ {0}

VARIABLES part,
          free_vector_list, created, held, pool_pc,
          g_vertex_flag, level, rear, meeting_todo, visited_flag, g_visit_info, ended, printed

FourHouses == <<3, 4, 6, 1>>
ThreeHouses == <<3, 4, 6>>
TenRoads == <<<<3, 7>>, <<2, 3>>, <<1, 3>>, <<1, 4>>, <<2, 4>>,
              <<3, 4>>, <<3, 5>>, <<2, 5>>, <<4, 5>>, <<5, 6>>>>

Pool == INSTANCE VectorPool WITH pc <- pool_pc
Meeting == INSTANCE MeetingSearch WITH houses <- MeetingHouses, todo <- meeting_todo

poolVars == <<free_vector_list, created, held, pool_pc>>
meetingVars == <<g_vertex_flag, level, rear, meeting_todo, visited_flag, g_visit_info, ended, printed>>

MCInit ==
  /\ part \in {"main", "pool", "lab4", "lists"}
  /\ SplitInit /\ Init /\ Pool!Init /\ Meeting!Init /\ ListInit
  /\ part # "main" => num_cores = 1 /\ num_houses = 1
  /\ part # "lists" => kind = "coarse" /\ mutex[head] = NULL

(* main has created the HouseWorkers, each with one thread. *)
Created ==
  /\ split_pc = "done" /\ num_houses = Len(houses)
  /\ num_threads_per_worker_arr = [w \in 0..num_workers - 1 |-> 1]

MCNext ==
  /\ UNCHANGED part
  /\ \/ part = "main" /\ SplitNext /\ UNCHANGED <<vars, poolVars, meetingVars, listVars>>
     \/ part = "main" /\ Created /\ Next /\ UNCHANGED <<splitVars, poolVars, meetingVars, listVars>>
     \/ part = "pool" /\ Pool!Next /\ UNCHANGED <<splitVars, vars, meetingVars, listVars>>
     \/ part = "lab4" /\ Meeting!Next /\ UNCHANGED <<splitVars, vars, poolVars, listVars>>
     \/ part = "lists" /\ ListNext /\ UNCHANGED <<splitVars, vars, poolVars, meetingVars>>

MCSpec ==
  /\ MCInit
  /\ [][MCNext]_<<part, splitVars, vars, poolVars, meetingVars, listVars>>
  /\ WF_meetingVars(part = "lab4" /\ Meeting!Next)
  /\ ListFairness

-----------------------------------------------------------------------------
(* Every vector is in the free list once, or with one thread. *)
OnePlaceEach == Pool!OnePlaceEach

(* Lab4: two searches that have met each other are as far apart as the     *)
(* depths of their meetings add up to, or one road less, if that is less   *)
(* than 2^16.                                                              *)
MeetingDistance == Meeting!MeetingDistance

(* Lab4: the distances printed are right, unless a fence was missing. *)
MinMaxExact == Meeting!MinMaxExact

(* Lab4: the distances printed are right, except for what MakeResult does  *)
(* not see: two searches that passed each other beside the shortest way,   *)
(* and, for the smallest, a missing fence or a vertex that lies deeper.    *)
MinMaxRight == Meeting!MinMaxRight

(* Lab4: every search meets all others, and main prints the result. *)
ResultPrinted == (part = "lab4") ~> (printed # Meeting!NotYet)
=============================================================================
