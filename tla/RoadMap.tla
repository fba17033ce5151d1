------------------------------ MODULE RoadMap ------------------------------
(***************************************************************************)
(* The problem Project1 solves (src/Project1/src/context.h, reader.cpp): a *)
(* road map of vertices, some of which are houses, and the reference       *)
(* definition of the distances its searches compute.                       *)
(***************************************************************************)
EXTENDS Integers, Sequences, FiniteSets, FiniteSetsExt, SequencesExt

CONSTANTS num_vertices, \* vertices are numbered from 1
          houses,       \* the houses in the order of the input, without repetition
          roads         \* the roads <<v_i, v_ij>> in the order of the input

Vertices == 1..num_vertices
Houses == ToSet(houses)

Push(adj, v, w) == [adj EXCEPT ![v] = Append(@, w)]

(* Reader::Read: each road is pushed at both of its ends. *)
adjlist ==
  LET adj[n \in 0..Len(roads)] ==
        IF n = 0 THEN [v \in Vertices |-> <<>>]
        ELSE Push(Push(adj[n - 1], roads[n][1], roads[n][2]), roads[n][2], roads[n][1])
  IN  adj[Len(roads)]

MAX_EDGES_PER_VERTEX == 10
MAX_HOUSE == 64

(* The inputs the program is made for: neither fixed array overflows. *)
ASSUME MapAssumption ==
  /\ num_vertices \in Nat
  /\ houses \in Seq(Vertices) /\ IsInjective(houses) /\ Len(houses) <= MAX_HOUSE
  /\ roads \in Seq(Vertices \X Vertices)
  /\ \A v \in Vertices : Len(adjlist[v]) <= MAX_EDGES_PER_VERTEX

(* Mutated NeighborsOf: the cases of the switch do not fall through. *)
LastNeighborsOf(vs) == [k \in 1..Len(vs) |-> Last(adjlist[vs[k]])]

(* The order in which a search visits the neighbours of the vertices of a  *)
(* list: the unrolled loop starts at the last neighbour of each.           *)
NeighborsOf(vs) == FlattenSeq([k \in 1..Len(vs) |-> Reverse(adjlist[vs[k]])])

-----------------------------------------------------------------------------
(* The reference: vertices within d roads of s, and the distance as the    *)
(* least such d.  An unreachable vertex has distance num_vertices.         *)

Adjacent(u, v) == \E k \in 1..Len(roads) : roads[k] \in {<<u, v>>, <<v, u>>}

Within(s) ==
  LET ball[d \in 0..num_vertices] ==
        IF d = 0 THEN {s}
        ELSE LET nearer == ball[d - 1]
             IN  nearer \cup {v \in Vertices : \E u \in nearer : Adjacent(u, v)}
  IN  ball

Unreachable == num_vertices

Distance ==
  [s \in Vertices |->
     LET ball == Within(s)
     IN  [v \in Vertices |->
            LET at == {d \in 0..num_vertices - 1 : v \in ball[d]}
            IN  IF at = {} THEN Unreachable ELSE Min(at)]]

Reachable(s) == {h \in Houses \ {s} : Distance[s][h] # Unreachable}
=============================================================================
