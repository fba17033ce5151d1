----------------------------- MODULE VectorPool -----------------------------
(***************************************************************************)
(* VectorPool (src/Project1/src/util.cpp): searches take their buffers     *)
(* from a list of free vectors and give them back.  Alloc asks whether the *)
(* list is empty before it takes the mutex.                                *)
(***************************************************************************)
EXTENDS Integers, Sequences, FiniteSets, SequencesExt

CONSTANTS Threads,
          MaxVectors,  \* bound: vectors created with new
          MaxHeld      \* vectors a search holds at a time (3 in BFSSingleThread)

VARIABLES free_vector_list,
          created,  \* vectors 1..created exist
          held,     \* held[t]: the vectors thread t works on
          pc        \* "out" of Alloc, or before its "lock", or "undefined"

vars == <<free_vector_list, created, held, pc>>

Init ==
  /\ free_vector_list = <<>>
  /\ created = 0
  /\ held = [t \in Threads |-> {}]
  /\ pc = [t \in Threads |-> "out"]

(* Alloc finds the list empty and makes a new vector. *)
AllocNew(t) ==
  /\ pc[t] = "out" /\ Cardinality(held[t]) < MaxHeld
  /\ free_vector_list = <<>>
  /\ created < MaxVectors
  /\ created' = created + 1
  /\ held' = [held EXCEPT ![t] = @ \cup {created'}]
  /\ UNCHANGED <<free_vector_list, pc>>

(* Alloc finds the list not empty and goes on to take the mutex. *)
AllocFromList(t) ==
  /\ pc[t] = "out" /\ Cardinality(held[t]) < MaxHeld
  /\ free_vector_list # <<>>
  /\ pc' = [pc EXCEPT ![t] = "lock"]
  /\ UNCHANGED <<free_vector_list, created, held>>

(* Mutated Rest: the vector handed out stays in the list. *)
RestKept(list) == list

(* pop_front() *)
Rest(list) == Tail(list)

(* The locked section.  On an empty list front() and pop_front() have no   *)
(* defined result; the thread goes no further in the model.                *)
PopFront(t) ==
  /\ pc[t] = "lock"
  /\ \/ /\ free_vector_list # <<>>
        /\ held' = [held EXCEPT ![t] = @ \cup {Head(free_vector_list)}]
        /\ free_vector_list' = Rest(free_vector_list)
        /\ pc' = [pc EXCEPT ![t] = "out"]
     \/ /\ free_vector_list = <<>>
        /\ pc' = [pc EXCEPT ![t] = "undefined"]
        /\ UNCHANGED <<held, free_vector_list>>
  /\ UNCHANGED created

(* Free: a search gives one of its vectors back. *)
Free(t) ==
  /\ pc[t] = "out"
  /\ \E v \in held[t] :
       /\ free_vector_list' = Append(free_vector_list, v)
       /\ held' = [held EXCEPT ![t] = @ \ {v}]
  /\ UNCHANGED <<created, pc>>

Next == \E t \in Threads : AllocNew(t) \/ AllocFromList(t) \/ PopFront(t) \/ Free(t)

Spec == Init /\ [][Next]_vars

-----------------------------------------------------------------------------
(* Every vector is in one place: in the list once, or with one thread.  So *)
(* no two searches work on the same buffer and none is lost, in any order  *)
(* of unlocked tests and locked sections.                                  *)
OnePlaceEach ==
  \A v \in 1..created :
    Cardinality({k \in DOMAIN free_vector_list : free_vector_list[k] = v})
      + Cardinality({t \in Threads : v \in held[t]}) = 1

(* "return Allocated vector" (util.h): Alloc always has a vector to give,  *)
(* although others may empty the list between its test and its lock.       *)
AllocReturnsVector == \A t \in Threads : pc[t] # "undefined"
=============================================================================
