------------------------------- MODULE Mutex -------------------------------
(***************************************************************************)
(* What a lock promises its callers, whatever its implementation: a thread *)
(* asks, at most one thread holds, and the holder lets go.  It is the      *)
(* abstract specification the repository's hand-written locks are compared *)
(* with.                                                                   *)
(***************************************************************************)

CONSTANTS Threads,   \* the threads that use the lock
          Nobody     \* not a thread: the value of holder when the lock is free

VARIABLES holder,    \* the thread that owns the lock, or Nobody
          waiting    \* the threads that asked for the lock and do not own it

vars == <<holder, waiting>>

Init == holder = Nobody /\ waiting = {}

(* A thread that has nothing to do with the lock asks for it. *)
Request(t) ==
  /\ t \notin waiting
  /\ t # holder
  /\ waiting' = waiting \cup {t}
  /\ UNCHANGED holder

(* One of the threads that asked gets the free lock. *)
Acquire(t) ==
  /\ t \in waiting
  /\ holder = Nobody
  /\ holder' = t
  /\ waiting' = waiting \ {t}

(* Only the holder gives the lock back. *)
Release(t) ==
  /\ holder = t
  /\ holder' = Nobody
  /\ UNCHANGED waiting

Next == \E t \in Threads : Request(t) \/ Acquire(t) \/ Release(t)

(* A free lock somebody waits for is eventually taken by somebody: no      *)
(* promise is made to any particular thread.                               *)
Fairness == WF_vars(\E t \in Threads : Acquire(t))

Spec == Init /\ [][Next]_vars /\ Fairness
=============================================================================
