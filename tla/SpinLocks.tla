----------------------------- MODULE SpinLocks -----------------------------
(***************************************************************************)
(* Lab6's spin locks: test-and-set (tas.cpp), test-and-test-and-set        *)
(* (ttas.cpp), and a queue lock (clh.cpp) whose waiters spin on the node   *)
(* of their predecessor and free it.  One behaviour uses one of them.      *)
(***************************************************************************)
EXTENDS Naturals, FiniteSets

CONSTANTS Threads,
          Nodes,   \* what malloc hands out; one more than there are threads will do
          NULL

VARIABLES kind,         \* which of the three programs runs
          lock_object,  \* 0 or 1
          tail,         \* the last node of the queue, or NULL
          node,         \* each node: "freed", or "0" or "1"
          x, old_one,   \* each thread's node and its predecessor's, while it uses them
          pc

vars == <<kind, lock_object, tail, node, x, old_one, pc>>

TypeOK ==
  /\ kind \in {"tas", "ttas", "clh"} /\ lock_object \in {0, 1}
  /\ tail \in Nodes \cup {NULL}
  /\ node \in [Nodes -> {"freed", "0", "1"}]
  /\ <<x, old_one>> \in [Threads -> Nodes \cup {NULL}] \X [Threads -> Nodes \cup {NULL}]
  /\ pc \in [Threads -> {"out", "look", "swap", "enqueue", "spin", "free", "in"}]

Init ==
  /\ kind \in {"tas", "ttas", "clh"} /\ lock_object = 0 /\ tail = NULL
  /\ node = [n \in Nodes |-> "freed"]
  /\ x = [t \in Threads |-> NULL] /\ old_one = [t \in Threads |-> NULL]
  /\ pc = [t \in Threads |-> "out"]

Moves(t, from, to) == pc[t] = from /\ pc' = [pc EXCEPT ![t] = to] /\ UNCHANGED kind

(* lock is called; CLHMutex::lock allocates its node and clears it. *)
Call(t) ==
  \/ /\ kind = "tas" /\ Moves(t, "out", "swap")
     /\ UNCHANGED <<lock_object, tail, node, x, old_one>>
  \/ /\ kind = "ttas" /\ Moves(t, "out", "look")
     /\ UNCHANGED <<lock_object, tail, node, x, old_one>>
  \/ /\ kind = "clh" /\ Moves(t, "out", "enqueue")
     /\ \E n \in Nodes : /\ node[n] = "freed"
                         /\ node' = [node EXCEPT ![n] = "0"]
                         /\ x' = [x EXCEPT ![t] = n]
     /\ UNCHANGED <<lock_object, tail, old_one>>

(* ttas.cpp: the inner loop, which only reads. *)
Look(t) ==
  /\ lock_object = 0 /\ Moves(t, "look", "swap")
  /\ UNCHANGED <<lock_object, tail, node, x, old_one>>

(* Mutated Swap: the outcome of the swap is not looked at. *)
SwapBlind(t) ==
  /\ lock_object' = 1 /\ Moves(t, "swap", "in")
  /\ UNCHANGED <<tail, node, x, old_one>>

(* __sync_lock_test_and_set on the lock word. *)
Swap(t) ==
  /\ lock_object' = 1
  /\ Moves(t, "swap", IF lock_object = 0 THEN "in" ELSE IF kind = "tas" THEN "swap" ELSE "look")
  /\ UNCHANGED <<tail, node, x, old_one>>

(* __sync_lock_test_and_set on the tail of the queue. *)
Enqueue(t) ==
  /\ Moves(t, "enqueue", IF tail = NULL THEN "in" ELSE "spin")
  /\ tail' = x[t]
  /\ old_one' = [old_one EXCEPT ![t] = tail]
  /\ UNCHANGED <<lock_object, node, x>>

(* The predecessor has unlocked. *)
Spin(t) ==
  /\ Moves(t, "spin", "free") /\ node[old_one[t]] # "0"
  /\ UNCHANGED <<lock_object, tail, node, x, old_one>>

(* Mutated Free: the thread frees its own node, too early. *)
FreeOwn(t) ==
  /\ Moves(t, "free", "in")
  /\ node' = [node EXCEPT ![x[t]] = "freed"]
  /\ old_one' = [old_one EXCEPT ![t] = NULL]
  /\ UNCHANGED <<lock_object, tail, x>>

Free(t) ==
  /\ Moves(t, "free", "in")
  /\ node' = [node EXCEPT ![old_one[t]] = "freed"]
  /\ old_one' = [old_one EXCEPT ![t] = NULL]
  /\ UNCHANGED <<lock_object, tail, x>>

Unlock(t) ==
  /\ Moves(t, "in", "out")
  /\ \/ kind # "clh" /\ lock_object' = 0 /\ UNCHANGED node
     \/ kind = "clh" /\ node' = [node EXCEPT ![x[t]] = "1"] /\ UNCHANGED lock_object
  /\ x' = [x EXCEPT ![t] = NULL]
  /\ UNCHANGED <<tail, old_one>>

Step(t) == Look(t) \/ Swap(t) \/ Enqueue(t) \/ Spin(t) \/ Free(t) \/ Unlock(t)

Next == \E t \in Threads : Call(t) \/ Step(t)

(* A thread that has called lock keeps running, and unlocks. *)
Fairness == \A t \in Threads : WF_vars(Step(t))

Spec == Init /\ [][Next]_vars /\ Fairness

-----------------------------------------------------------------------------
(* Who has the lock: in the queue lock, from the moment the predecessor's  *)
(* node is seen to be 1.                                                   *)
Holders == {t \in Threads : pc[t] \in {"in", "free"}}

(* At most one thread holds the lock; and in the queue lock no thread      *)
(* waits on, frees or writes a node that has been freed, although every    *)
(* node is freed by another thread than the one that allocated it and      *)
(* malloc reuses it at once.                                               *)
ExclusionAndNodes ==
  /\ Cardinality(Holders) <= 1
  /\ \A t \in Threads : pc[t] \in {"spin", "free"} => node[old_one[t]] # "freed"
  /\ \A t \in Threads : pc[t] \in {"enqueue", "spin", "free", "in"} /\ kind = "clh" => node[x[t]] = "0"

AbstractMutex == INSTANCE Mutex WITH
  Nobody  <- NULL,
  holder  <- IF Holders = {} THEN NULL ELSE CHOOSE t \in Threads : t \in Holders,
  waiting <- {t \in Threads : pc[t] \notin {"out", "in", "free"}}

(* Each of the three is a lock in the sense of Mutex: one holder at a      *)
(* time, and a free lock somebody waits for is taken.                      *)
SpinLocksImplementMutex == AbstractMutex!Spec

(* The queue lock is fair: every thread in the queue gets the lock. *)
QueuedThreadEnters == \A t \in Threads : (pc[t] = "spin") ~> (pc[t] = "in")
=============================================================================
