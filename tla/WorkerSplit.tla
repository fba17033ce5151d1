---------------------------- MODULE WorkerSplit ----------------------------
(***************************************************************************)
(* How main divides the cores among the HouseWorkers (src/Project1/src/    *)
(* main.cpp): one thread for each of num_cores workers, or one worker per  *)
(* house when there are more cores than houses.                            *)
(***************************************************************************)
EXTENDS Integers, FiniteSets

CONSTANT MaxSize  \* bound: cores and houses of the inputs considered

ASSUME MaxSizeAssumption == MaxSize \in Nat

VARIABLES num_cores, num_houses,       \* the input
          num_threads_per_worker_arr,  \* as a function on 0, 1, ...
          num_threads,                 \* threads given out so far
          idx,                         \* the next worker to lose a thread
          split_pc                           \* "resize", "loop" or "done"

splitVars == <<num_cores, num_houses, num_threads_per_worker_arr, num_threads, idx, split_pc>>

(* Mutated max_threads_per_worker: a thread more than the share. *)
OneMore == (num_cores + num_houses - 1) \div num_houses + 1

(* ceil((float)num_cores / houses.size()) *)
max_threads_per_worker == (num_cores + num_houses - 1) \div num_houses

SplitTypeOK ==
  /\ num_cores \in 1..MaxSize /\ num_houses \in 1..MaxSize
  /\ num_threads_per_worker_arr \in [DOMAIN num_threads_per_worker_arr -> Nat]
  /\ num_threads \in Nat /\ idx \in Nat
  /\ split_pc \in {"resize", "loop", "done"}

SplitInit ==
  /\ num_cores \in 1..MaxSize /\ num_houses \in 1..MaxSize
  /\ num_threads_per_worker_arr = [w \in {} |-> 0]
  /\ num_threads = 0 /\ idx = 0
  /\ split_pc = "resize"

(* num_cores <= houses.size(): one thread per worker. *)
OnePerCore ==
  /\ split_pc = "resize" /\ num_cores <= num_houses
  /\ num_threads_per_worker_arr' = [w \in 0..num_cores - 1 |-> 1]
  /\ split_pc' = "done"
  /\ UNCHANGED <<num_cores, num_houses, num_threads, idx>>

(* More cores than houses: start from the rounded up share ... *)
OnePerHouse ==
  /\ split_pc = "resize" /\ num_cores > num_houses
  /\ num_threads_per_worker_arr' = [w \in 0..num_houses - 1 |-> max_threads_per_worker]
  /\ num_threads' = max_threads_per_worker * num_houses
  /\ split_pc' = "loop"
  /\ UNCHANGED <<num_cores, num_houses, idx>>

TooMany == num_threads > num_cores

(* Mutated NextWorker: the same worker loses all the threads. *)
SameWorker == idx

NextWorker == idx + 1

(* ... and take a thread from one worker after the other. *)
TakeOne ==
  /\ split_pc = "loop" /\ TooMany
  /\ num_threads' = num_threads - 1
  /\ num_threads_per_worker_arr' = [num_threads_per_worker_arr EXCEPT ![idx] = @ - 1]
  /\ idx' = NextWorker
  /\ UNCHANGED <<num_cores, num_houses, split_pc>>

LoopEnd ==
  /\ split_pc = "loop" /\ ~TooMany
  /\ split_pc' = "done"
  /\ UNCHANGED <<num_cores, num_houses, num_threads_per_worker_arr, num_threads, idx>>

SplitNext == OnePerCore \/ OnePerHouse \/ TakeOne \/ LoopEnd

SplitSpec == SplitInit /\ [][SplitNext]_splitVars

-----------------------------------------------------------------------------
(* The loop has no bound of its own: it never writes past the last worker, *)
(* because rounding up adds less than one thread per worker.               *)
InBounds == split_pc = "loop" /\ TooMany => idx \in DOMAIN num_threads_per_worker_arr

(* Every worker has at least one thread, without which it cannot search,   *)
(* and none has two more than another: "3 3 3 3 4 4 4 4 4 4".              *)
Balanced ==
  split_pc = "done" =>
    LET arr == num_threads_per_worker_arr
    IN  \A v, w \in DOMAIN arr : arr[w] >= 1 /\ arr[v] <= arr[w] + 1
=============================================================================
