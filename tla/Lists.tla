------------------------------- MODULE Lists -------------------------------
(***************************************************************************)
(* Lab11's sorted linked lists: coarse_grained.cpp with one mutex,         *)
(* fine_grained.cpp with a mutex per node taken hand over hand, and        *)
(* optimistic.cpp, which walks without locks, locks two nodes and          *)
(* validates them.  One behaviour uses one of them.                        *)
(*                                                                         *)
(* An access to a node another thread may be changing is a step of its     *)
(* own; the two unlocks after an operation are one step, and the whole     *)
(* critical section of the coarse list is one.                             *)
(***************************************************************************)
EXTENDS Integers, FiniteSets

CONSTANTS Callers,   \* the threads, which run ThreadFunc
          Keys,      \* integers
          MaxWork,   \* bound: operations in one behaviour
          NULL

ASSUME ListAssumption ==
  /\ MaxWork \in Nat /\ NULL \notin Callers /\ "garbage" \notin Callers \cup {NULL}
  /\ Keys \subseteq Int
  /\ \E k \in Keys : \A j \in Keys : k <= j
  /\ \E k \in Keys : \A j \in Keys : k >= j

VARIABLES kind,          \* which of the three programs runs
          key, next,     \* of the node at each address
          mutex,         \* who has locked it, NULL, or "garbage"
          freed,         \* addresses malloc may hand out
          work,          \* operations so far
          lc, op,        \* each thread: where it is, its operation
          prev, curr, it, node,
          retval

listVars == <<kind, key, next, mutex, freed, work, lc, op, prev, curr, it, node, retval>>

(* Addresses: the sentinels, and enough for every add. *)
head == 0
tail == MaxWork + 1
Heap == 1..MaxWork
Addresses == 0..MaxWork + 1

(* The keys of the sentinels, INT_MIN and INT_MAX in the code. *)
KEY_MIN == (CHOOSE k \in Keys : \A j \in Keys : k <= j) - 1

KEY_MAX == (CHOOSE k \in Keys : \A j \in Keys : k >= j) + 1

Operations == [type : {"A", "R", "C"}, key : Keys]

ListTypeOK ==
  /\ kind \in {"coarse", "fine", "optimistic"}
  /\ key \in [Addresses -> Keys \cup {KEY_MIN, KEY_MAX}]
  /\ next \in [Addresses -> Addresses]
  /\ mutex \in [Addresses -> Callers \cup {NULL, "garbage"}]
  /\ freed \subseteq Heap /\ work \in 0..MaxWork
  /\ lc \in [Callers -> {"out", "whole", "seek", "lockPrev", "lockCurr", "walk", "validate",
                         "decide", "link", "unlock", "free"}]
  /\ op \in [Callers -> Operations \cup {NULL}]
  /\ prev \in [Callers -> Addresses] /\ curr \in [Callers -> Addresses]
  /\ it \in [Callers -> Addresses] /\ node \in [Callers -> Addresses]
  /\ retval \in [Callers -> BOOLEAN]

(* list_init leaves the mutexes of the two sentinels uninitialised: they   *)
(* are free if malloc returned zeroes.                                     *)
ListInit ==
  /\ kind \in {"coarse", "fine", "optimistic"}
  /\ key = [a \in Addresses |-> IF a = tail THEN KEY_MAX ELSE KEY_MIN]
  /\ next = [a \in Addresses |-> tail]
  /\ \E m \in {NULL, "garbage"} :
       mutex = [a \in Addresses |-> IF a \in {head, tail} THEN m ELSE NULL]
  /\ freed = Heap /\ work = 0
  /\ lc = [t \in Callers |-> "out"] /\ op = [t \in Callers |-> NULL]
  /\ prev = [t \in Callers |-> head] /\ curr = [t \in Callers |-> head]
  /\ it = [t \in Callers |-> head] /\ node = [t \in Callers |-> head]
  /\ retval = [t \in Callers |-> FALSE]

Move(t, from, to) == lc[t] = from /\ lc' = [lc EXCEPT ![t] = to] /\ UNCHANGED <<kind, work>>

(* ThreadFunc takes the next piece of work; list_add allocates its node. *)
Call(t) ==
  /\ lc[t] = "out" /\ work < MaxWork
  /\ work' = work + 1 /\ UNCHANGED kind
  /\ lc' = [lc EXCEPT ![t] = CASE kind = "coarse" -> "whole"
                               [] kind = "fine" -> "lockPrev"
                               [] kind = "optimistic" -> "seek"]
  /\ \E o \in Operations :
       /\ op' = [op EXCEPT ![t] = o]
       /\ \/ /\ o.type = "A"
             /\ LET a == CHOOSE a \in freed : \A b \in freed : a <= b
                IN  /\ node' = [node EXCEPT ![t] = a]
                    /\ key' = [key EXCEPT ![a] = o.key]
                    /\ freed' = freed \ {a}
          \/ o.type # "A" /\ UNCHANGED <<node, key, freed>>
  /\ UNCHANGED <<next, mutex, prev, curr, it, retval>>

-----------------------------------------------------------------------------
(* Finding the place *)

(* optimistic.cpp: walk without locks; the first step reads head->next. *)
Seek(t) ==
  /\ \/ /\ Move(t, "seek", "seek") /\ key[curr[t]] < op[t].key
        /\ prev' = [prev EXCEPT ![t] = curr[t]]
        /\ curr' = [curr EXCEPT ![t] = next[curr[t]]]
     \/ /\ Move(t, "seek", "lockPrev") /\ key[curr[t]] >= op[t].key
        /\ UNCHANGED <<prev, curr>>
  /\ UNCHANGED <<key, next, mutex, freed, op, it, node, retval>>

(* pthread_mutex_lock(&prev->mutex); fine_grained.cpp then reads head->next. *)
LockPrev(t) ==
  /\ Move(t, "lockPrev", "lockCurr") /\ mutex[prev[t]] = NULL
  /\ mutex' = [mutex EXCEPT ![prev[t]] = t]
  /\ curr' = IF kind = "fine" THEN [curr EXCEPT ![t] = next[head]] ELSE curr
  /\ UNCHANGED <<key, next, freed, op, prev, it, node, retval>>

LockCurr(t) ==
  /\ Move(t, "lockCurr", IF kind = "fine" THEN "walk" ELSE "validate")
  /\ mutex[curr[t]] = NULL
  /\ mutex' = [mutex EXCEPT ![curr[t]] = t]
  /\ it' = [it EXCEPT ![t] = head]
  /\ UNCHANGED <<key, next, freed, op, prev, curr, node, retval>>

(* Mutated HandOverHand: curr too is unlocked before the next is locked. *)
LetGo(t) == [mutex EXCEPT ![prev[t]] = NULL, ![curr[t]] = NULL]

HandOverHand(t) == [mutex EXCEPT ![prev[t]] = NULL]

(* fine_grained.cpp: the loop, with both nodes locked. *)
Walk(t) ==
  /\ \/ /\ Move(t, "walk", "lockCurr") /\ key[curr[t]] < op[t].key
        /\ mutex' = HandOverHand(t)
        /\ prev' = [prev EXCEPT ![t] = curr[t]]
        /\ curr' = [curr EXCEPT ![t] = next[curr[t]]]
     \/ /\ Move(t, "walk", "decide") /\ key[curr[t]] >= op[t].key
        /\ UNCHANGED <<mutex, prev, curr>>
  /\ UNCHANGED <<key, next, freed, op, it, node, retval>>

(* Mutated Unlocked: curr stays locked. *)
UnlockedPrev(t) == IF kind = "coarse" THEN mutex ELSE [mutex EXCEPT ![prev[t]] = NULL]

Unlocked(t) ==
  IF kind = "coarse" THEN mutex ELSE [mutex EXCEPT ![prev[t]] = NULL, ![curr[t]] = NULL]

(* Mutated Hit: prev is not looked for in the list. *)
MetAnywhere(t) == TRUE

(* The walk from the head has come to prev. *)
Hit(t) == it[t] = prev[t]

(* list_validate: one round of its loop, and what its answer leads to. *)
Validate(t) ==
  /\ LET here == key[it[t]] <= key[prev[t]]
         linked == next[prev[t]] = curr[t]
     IN  \/ /\ here /\ Hit(t) /\ linked /\ Move(t, "validate", "decide")
            /\ UNCHANGED <<mutex, prev, curr, it>>
         \/ /\ here /\ ~Hit(t) /\ Move(t, "validate", "validate")
            /\ it' = [it EXCEPT ![t] = next[it[t]]]
            /\ UNCHANGED <<mutex, prev, curr>>
         \/ /\ ~here \/ (Hit(t) /\ ~linked)
            /\ Move(t, "validate", "seek")
            /\ mutex' = Unlocked(t)
            /\ prev' = [prev EXCEPT ![t] = head] /\ curr' = [curr EXCEPT ![t] = head]
            /\ UNCHANGED it
  /\ UNCHANGED <<key, next, freed, op, node, retval>>

-----------------------------------------------------------------------------
(* The operation *)

(* What next is in a list whose last add is finished. *)
Finished ==
  [a \in Addresses |->
     IF \E t \in Callers : lc[t] = "link" /\ node[t] = a
     THEN curr[CHOOSE t \in Callers : lc[t] = "link" /\ node[t] = a]
     ELSE next[a]]

(* The nodes one comes to from the head. *)
ReachedBy(succ) ==
  LET within[n \in 0..MaxWork + 1] ==
        IF n = 0 THEN {head}
        ELSE LET nearer == within[n - 1] IN nearer \cup {succ[a] : a \in nearer}
  IN  within[MaxWork + 1]

Reached == ReachedBy(Finished)

(* coarse_grained.cpp: the walk under g_mutex ... *)
Place(t) ==
  CHOOSE a \in Reached : /\ key[a] < op[t].key
                         /\ \A b \in Reached : key[b] < op[t].key => key[b] <= key[a]

(* The tests and stores between p and c.  fine_grained.cpp stores          *)
(* prev->next first and node->next in a step of its own; optimistic.cpp    *)
(* stores node->next first, which nobody can see.                          *)
Effect(t, p, c) ==
  LET found == key[c] = op[t].key
      adds == op[t].type = "A" /\ ~found
      removes == op[t].type = "R" /\ found
  IN  /\ retval' = [retval EXCEPT ![t] = IF op[t].type = "A" THEN ~found ELSE found]
      /\ next' = IF adds /\ kind = "fine" THEN [next EXCEPT ![p] = node[t]]
                 ELSE IF adds THEN [next EXCEPT ![p] = node[t], ![node[t]] = c]
                 ELSE IF removes THEN [next EXCEPT ![p] = next[c]] ELSE next
      /\ lc' = [lc EXCEPT ![t] = IF adds /\ kind = "fine" THEN "link" ELSE "unlock"]

(* ... and everything else under it. *)
Whole(t) ==
  /\ lc[t] = "whole"
  /\ prev' = [prev EXCEPT ![t] = Place(t)]
  /\ curr' = [curr EXCEPT ![t] = next[Place(t)]]
  /\ Effect(t, prev'[t], curr'[t])
  /\ UNCHANGED <<kind, work, key, mutex, freed, op, it, node>>

Decide(t) ==
  /\ lc[t] = "decide"
  /\ Effect(t, prev[t], curr[t])
  /\ UNCHANGED <<kind, work, key, mutex, freed, op, prev, curr, it, node>>

Link(t) ==
  /\ Move(t, "link", "unlock")
  /\ next' = [next EXCEPT ![node[t]] = curr[t]]
  /\ UNCHANGED <<key, mutex, freed, op, prev, curr, it, node, retval>>

(* The function returns; its locals are gone. *)
Leave(t) ==
  /\ op' = [op EXCEPT ![t] = NULL] /\ retval' = [retval EXCEPT ![t] = FALSE]
  /\ prev' = [prev EXCEPT ![t] = head] /\ curr' = [curr EXCEPT ![t] = head]
  /\ it' = [it EXCEPT ![t] = head] /\ node' = [node EXCEPT ![t] = head]

(* Both unlocks.  The optimistic list does not free what it removes, and a *)
(* failed add never frees its node.                                        *)
Unlock(t) ==
  /\ mutex' = Unlocked(t)
  /\ LET frees == op[t].type = "R" /\ retval[t] /\ kind # "optimistic"
     IN  \/ /\ Move(t, "unlock", "free") /\ frees
            /\ UNCHANGED <<op, retval, prev, curr, it, node>>
         \/ Move(t, "unlock", "out") /\ ~frees /\ Leave(t)
  /\ UNCHANGED <<key, next, freed>>

Free(t) ==
  /\ Move(t, "free", "out")
  /\ freed' = freed \cup {curr[t]}
  /\ Leave(t)
  /\ UNCHANGED <<key, next, mutex>>

Step(t) ==
  \/ Seek(t) \/ LockPrev(t) \/ LockCurr(t) \/ Walk(t) \/ Validate(t)
  \/ Whole(t) \/ Decide(t) \/ Link(t) \/ Unlock(t) \/ Free(t)

ListNext == \E t \in Callers : Call(t) \/ Step(t)

(* Callers keep running.  A mutex that is unlocked again and again is got  *)
(* sooner or later, which pthread_mutex_lock does not promise but the      *)
(* finite work makes harmless.                                             *)
ListFairness == \A t \in Callers : WF_listVars(Step(t))

ListSpec == ListInit /\ [][ListNext]_listVars /\ ListFairness

-----------------------------------------------------------------------------
(* Properties *)

Contents == {key[a] : a \in Reached} \ {KEY_MIN, KEY_MAX}

Set == INSTANCE SetObject WITH
  Threads <- Callers,
  contents <- Contents,
  call <- [t \in Callers |->
             IF lc[t] = "out" THEN [phase |-> "idle"]
             ELSE IF lc[t] \in {"link", "unlock", "free"}
               THEN [phase |-> "applied", result |-> retval[t]]
               ELSE [phase |-> "called", op |-> op[t]]]

(* All three lists are linearizable sets: an operation takes effect, with  *)
(* the right answer, when it stores prev->next or finds that it need not,  *)
(* whatever the other threads have changed since it walked by.             *)
ListsImplementSet == Set!Spec

(* The nodes a thread is going to read, write or free. *)
InUse(t) ==
  CASE lc[t] = "free" -> {curr[t]}
    [] lc[t] \notin {"out", "free"} /\ kind # "coarse" -> {prev[t], curr[t], it[t]}
    [] OTHER -> {}

(* No thread uses a node that has been freed, or meets the new node of an  *)
(* add before its next is stored; the list ends at tail and is sorted.     *)
NodesSafe ==
  /\ \A t \in Callers : InUse(t) \cap freed = {}
  /\ \A s, t \in Callers : lc[s] = "link" /\ s # t => node[s] \notin InUse(t)
  /\ \A a \in Reached \ {tail} : key[a] < key[Finished[a]]
  /\ tail \in Reached

(* Every operation returns, if the sentinels' mutexes happened to be       *)
(* zeroed: neither hand over hand nor the two locks of the optimistic list *)
(* deadlock, and validation does not fail for ever.                        *)
OperationsReturn ==
  (kind = "coarse" \/ mutex[head] # "garbage") ~> (\A t \in Callers : lc[t] = "out")
=============================================================================
