--------------------------- MODULE MeetingSearch ---------------------------
(***************************************************************************)
(* Lab4's solution of the problem of Project1 (src/Lab4/project1_TA.cpp):  *)
(* one thread per house searches breadth first and marks what it finds in  *)
(* a word per vertex; the old value tells it which other searches it has   *)
(* met there.  Who has met all others stops at the end of its level.       *)
(* MakeResult works the distances out from the depths of the meetings.     *)
(*                                                                         *)
(* A thread's mark is set by nobody else, so its test and its              *)
(* fetch-and-or are one step.  The queue is kept as its levels, the        *)
(* stretches between two depth fences, and the number of its entries.      *)
(* After a write behind the end of a queue anything may happen: the model  *)
(* follows the program up to that write.                                   *)
(***************************************************************************)
EXTENDS RoadMap

CONSTANTS MAX_VERTICES, \* entries of a queue, and the largest num_vertices: 10000000
          DepthEnd      \* where a stored depth, a uint16_t, wraps: 2^16

Searches == 1..Len(houses)
Pairs == {p \in Searches \X Searches : p[1] < p[2]}

VARIABLES g_vertex_flag, \* the searches that have marked each vertex
          level,         \* each search: the vertices of its queue by depth, from 0
          rear,          \* ... the entries it has written, vertices and fences
          todo,          \* ... the neighbours of the current level still to visit
          visited_flag,  \* ... the searches it has met, and itself
          g_visit_info,  \* ... where it met each, and at which depth
          ended,         \* ... whether it has returned
          printed        \* what MakeResult prints

vars == <<g_vertex_flag, level, rear, todo, visited_flag, g_visit_info, ended, printed>>

NoInfo == [vid |-> 0, depth |-> 0]
NotYet == [min |-> -2, max |-> -2]

TypeOK ==
  /\ g_vertex_flag \in [Vertices -> SUBSET Searches]
  /\ level \in [Searches -> Seq(Seq(Vertices))] /\ todo \in [Searches -> Seq(Vertices)]
  /\ rear \in [Searches -> 0..MAX_VERTICES + 1]
  /\ visited_flag \in [Searches -> SUBSET Searches]
  /\ g_visit_info \in [Searches -> [Searches -> [vid : 0..num_vertices, depth : 0..DepthEnd - 1]]]
  /\ ended \in [Searches -> BOOLEAN]
  /\ printed \in [min : -2..2 * DepthEnd, max : -2..2 * DepthEnd]

(* Mutated Neighbors: the loop over the neighbours stops one early. *)
NeighborsButLast(vs) == FlattenSeq([k \in 1..Len(vs) |-> Front(adjlist[vs[k]])])

Neighbors(vs) == FlattenSeq([k \in 1..Len(vs) |-> adjlist[vs[k]]])

(* InputGraph has marked the houses; every queue holds its own and a fence. *)
Init ==
  /\ g_vertex_flag = [v \in Vertices |-> {t \in Searches : houses[t] = v}]
  /\ level = [t \in Searches |-> <<<<houses[t]>>, <<>>>>]
  /\ rear = [t \in Searches |-> 2]
  /\ todo = [t \in Searches |-> Neighbors(<<houses[t]>>)]
  /\ visited_flag = [t \in Searches |-> {t}]
  /\ g_visit_info = [t \in Searches |-> [u \in Searches |-> NoInfo]]
  /\ ended = [t \in Searches |-> FALSE]
  /\ printed = NotYet

-----------------------------------------------------------------------------
(* FindMinMaxPath *)

(* The depth of the vertices being found, curr_depth + 1. *)
depth(t) == Len(level[t]) - 1

(* Mutated Marked: a plain store instead of fetch-and-or. *)
MarkStored(t, v) == [g_vertex_flag EXCEPT ![v] = {t}]

Marked(t, v) == [g_vertex_flag EXCEPT ![v] = @ \cup {t}]

(* queue[start_idx][rear] = ...; rear++ *)
Enqueue(t) == rear' = [rear EXCEPT ![t] = @ + 1]

(* One neighbour: a new one is marked, the first meeting with every search *)
(* that has been there is noted, the depth in 16 bits, and it is enqueued. *)
Visit(t) ==
  /\ todo[t] # <<>>
  /\ todo' = [todo EXCEPT ![t] = Tail(@)]
  /\ LET v == Head(todo[t])
         met == g_vertex_flag[v] \ visited_flag[t]
     IN  \/ /\ t \in g_vertex_flag[v]
            /\ UNCHANGED <<g_vertex_flag, level, rear, visited_flag, g_visit_info>>
         \/ /\ t \notin g_vertex_flag[v]
            /\ g_vertex_flag' = Marked(t, v)
            /\ visited_flag' = [visited_flag EXCEPT ![t] = @ \cup met]
            /\ g_visit_info' = [g_visit_info EXCEPT ![t] =
                 [u \in Searches |-> IF u \in met THEN [vid |-> v, depth |-> depth(t) % DepthEnd]
                                     ELSE @[u]]]
            /\ Enqueue(t) /\ level' = [level EXCEPT ![t][depth(t) + 1] = Append(@, v)]
  /\ UNCHANGED <<ended, printed>>

MetAll(t) == visited_flag[t] = Searches

(* A depth fence is dequeued and the next one enqueued. *)
Fence(t) ==
  /\ todo[t] = <<>> /\ ~ended[t]
  /\ Enqueue(t)
  /\ \/ MetAll(t) /\ ended' = [ended EXCEPT ![t] = TRUE] /\ UNCHANGED <<level, todo>>
     \/ /\ ~MetAll(t)
        /\ todo' = [todo EXCEPT ![t] = Neighbors(Last(level[t]))]
        /\ level' = [level EXCEPT ![t] = Append(@, <<>>)]
        /\ UNCHANGED ended
  /\ UNCHANGED <<g_vertex_flag, visited_flag, g_visit_info, printed>>

-----------------------------------------------------------------------------
(* MakeResult *)

Sum(p) == g_visit_info[p[1]][p[2]].depth + g_visit_info[p[2]][p[1]].depth
Candidates(s) == {p \in Pairs : Sum(p) = s}

(* The test of MakeResult, for p and for p the other way round: the first  *)
(* search met the second in a vertex the second has at depth d.            *)
InLevel(p, d) == g_visit_info[p[1]][p[2]].vid \in ToSet(level[p[2]][d + 1])
BothWays(p) == {p, <<p[2], p[1]>>}
Depth(p) == g_visit_info[p[2]][p[1]].depth

(* The second search met the first in its last level: behind that one      *)
(* there is no fence any more in g_depth_fence_in_queue.                   *)
NoFenceBehind(p) == Depth(p) + 1 = Len(level[p[2]])

(* One of the candidates for the minimum is a road shorter, since a vertex *)
(* is not in the level where it was looked for.  Without the fence the     *)
(* reading goes on to whatever lies behind the vector, and finds it or not.*)
Shorter(s) ==
  LET tests == UNION {BothWays(p) : p \in Candidates(s)}
  IN  {answer \in BOOLEAN :
         /\ (\E q \in tests : ~NoFenceBehind(q) /\ ~InLevel(q, Depth(q))) => answer
         /\ (\A q \in tests : ~NoFenceBehind(q) /\ InLevel(q, Depth(q))) => ~answer}

(* Mutated AllShorter: the test looks one level too deep. *)
AllShorterDeep(s) ==
  {\A p \in Candidates(s) : \E q \in BothWays(p) : InLevel(q, Depth(q))}

(* All candidates for the maximum are a road shorter.  For a depth that    *)
(* was wrapped to 0 the reading begins before the vector.                  *)
AllShorter(s) ==
  LET Found(q) == Depth(q) > 0 /\ InLevel(q, Depth(q) - 1)
  IN  {answer \in BOOLEAN :
         /\ (\A p \in Candidates(s) : \E q \in BothWays(p) : Found(q)) => answer
         /\ (\E p \in Candidates(s) : \A q \in BothWays(p) : Depth(q) > 0 /\ ~Found(q)) => ~answer}

(* main has joined all searches. *)
MakeResult ==
  /\ printed = NotYet /\ \A t \in Searches : ended[t]
  /\ LET sums == {Sum(p) : p \in Pairs}
     IN  \E shorter \in Shorter(Min(sums)), all \in AllShorter(Max(sums)) :
           printed' = [min |-> IF shorter THEN Min(sums) - 1 ELSE Min(sums),
                       max |-> IF all THEN Max(sums) - 1 ELSE Max(sums)]
  /\ UNCHANGED <<g_vertex_flag, level, rear, todo, visited_flag, g_visit_info, ended>>

FindMinMaxPath(t) == Visit(t) \/ Fence(t)

(* No queue has been written behind its end. *)
QueueSuffices == \A t \in Searches : rear[t] <= MAX_VERTICES

Next == QueueSuffices /\ (MakeResult \/ \E t \in Searches : FindMinMaxPath(t))

(* The threads run, and main joins them. *)
Fairness == WF_vars(Next)

Spec == Init /\ [][Next]_vars /\ Fairness

-----------------------------------------------------------------------------
(* Properties *)

RoadsBetween(p) == Distance[houses[p[1]]][houses[p[2]]]
HaveMet(p) == p[2] \in visited_flag[p[1]] /\ p[1] \in visited_flag[p[2]]

(* Two searches that have met each other are as far apart as the depths    *)
(* of the two meetings add up to, or one road less, wherever each of them  *)
(* was when the other came by; MakeResult rests on there being no other    *)
(* case.  It is so for houses less than 2^16 roads apart, whose depths fit *)
(* their field.                                                            *)
MeetingDistance ==
  \A p \in Pairs :
    HaveMet(p) /\ RoadsBetween(p) < DepthEnd => RoadsBetween(p) \in {Sum(p) - 1, Sum(p)}

(* The vertex in which the first search met the second lies deeper in the  *)
(* second's tree than the level where MakeResult looks for it: the second  *)
(* had run ahead.                                                          *)
Deeper(p) == \E d \in Depth(p) + 1..Len(level[p[2]]) - 1 : InLevel(p, d)

(* The two searches are a road nearer than their meetings add up to, and   *)
(* neither of the two meetings shows it: before they came to a vertex of   *)
(* the shortest way, each had met the other somewhere beside it.           *)
Hidden(p) ==
  RoadsBetween(p) = Sum(p) - 1 /\ \A q \in BothWays(p) : ~InLevel(q, Depth(q) - 1)

(* The smallest and the largest distance are printed, as the comments of   *)
(* MakeResult promise for its tests, if every level in which a test looks  *)
(* for the smallest has its fence.                                         *)
MinMaxExact ==
  printed # NotYet =>
    LET ds == {RoadsBetween(p) : p \in Pairs}
        least == Candidates(Min({Sum(p) : p \in Pairs}))
    IN  \/ printed = [min |-> Min(ds), max |-> Max(ds)]
        \/ \E p \in least : \E q \in BothWays(p) : NoFenceBehind(q)

(* With houses less than 2^16 roads apart, this is what is printed: the    *)
(* largest distance is right, or one too large when every candidate is a   *)
(* road shorter but one of them hides it.  The smallest is right unless a  *)
(* candidate hides it, or the test of one had no fence to stop at, or took *)
(* a vertex that lies deeper for one that lies higher; then it is at most  *)
(* one off.                                                                *)
MinMaxRight ==
  printed # NotYet /\ (\A p \in Pairs : RoadsBetween(p) < DepthEnd) =>
    LET ds == {RoadsBetween(p) : p \in Pairs}
        sums == {Sum(p) : p \in Pairs}
        least == Candidates(Min(sums))
        most == Candidates(Max(sums))
        unsure == \E p \in least :
                    Hidden(p) \/ \E q \in BothWays(p) : NoFenceBehind(q) \/ Deeper(q)
    IN  /\ printed.max - Max(ds) =
             IF /\ \A p \in most : RoadsBetween(p) = Sum(p) - 1
                /\ \E p \in most : Hidden(p)
               THEN 1 ELSE 0
        /\ printed.min - Min(ds) \in IF unsure THEN -1..1 ELSE {0}

(* Every search meets all others, also those that have ended, and main     *)
(* prints the result.                                                      *)
ResultPrinted == <>(printed # NotYet)
=============================================================================
