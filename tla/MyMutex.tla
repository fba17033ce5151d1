------------------------------ MODULE MyMutex ------------------------------
(***************************************************************************)
(* Project2's MyMutex (src/Project2/src/my_mutex.cpp): a compare-and-swap  *)
(* lock whose Lock does not look at the result of the swap but reads       *)
(* throne_ back in a second, separate access.  Every access to throne_ is  *)
(* a step of its own.                                                      *)
(***************************************************************************)
EXTENDS Naturals, FiniteSets

CONSTANTS Threads,   \* thread ids passed to Lock and Unlock
          EMPTY,     \* the value of throne_ when nobody holds the lock (-1)
          Patience   \* spins before a waiting thread sleeps (4 in the code)

ASSUME EmptyAssumption == EMPTY \notin Threads
ASSUME PatienceAssumption == Patience \in Nat

VARIABLES throne_,   \* MyMutex::throne_, the only shared word
          pc,        \* where each thread is in Lock/Unlock
          count      \* Lock's local counter of failed tries

vars == <<throne_, pc, count>>

Locations == {"out", "try", "check", "spin", "sleep", "retry", "recheck", "in"}

TypeOK ==
  /\ throne_ \in Threads \cup {EMPTY}
  /\ pc \in [Threads -> Locations]
  /\ count \in [Threads -> 0..Patience + 1]

Init ==
  /\ throne_ = EMPTY
  /\ pc = [t \in Threads |-> "out"]
  /\ count = [t \in Threads |-> 0]

Goto(t, from, to) ==
  /\ pc[t] = from
  /\ pc' = [pc EXCEPT ![t] = to]

(* Mutated TakeTheIronThrone: a plain store instead of compare-and-swap. *)
TakeUnconditionally(t) == t

(* Mutated TakeTheIronThrone: the swap compares with the wrong value and   *)
(* can never succeed on an empty throne.                                   *)
TakeNever(t) == throne_

(* The value throne_ has after TakeTheIronThrone(t): an atomic              *)
(* compare-and-swap whose result is thrown away.                            *)
TakeTheIronThrone(t) == IF throne_ = EMPTY THEN t ELSE throne_

(* Mutated Recheck: a waiting thread goes back to sleep on a throne it won. *)
RecheckForgets(t) ==
  /\ Goto(t, "recheck", "spin")
  /\ UNCHANGED <<throne_, count>>

(* Lock is called; its counter is a fresh local variable. *)
Call(t) ==
  /\ Goto(t, "out", "try")
  /\ count' = [count EXCEPT ![t] = 0]
  /\ UNCHANGED throne_

(* The first try of Lock. *)
Try(t) ==
  /\ Goto(t, "try", "check")
  /\ throne_' = TakeTheIronThrone(t)
  /\ UNCHANGED count

(* The fast path: read throne_ back and return if it is ours. *)
Check(t) ==
  /\ Goto(t, "check", IF throne_ = t THEN "in" ELSE "spin")
  /\ UNCHANGED <<throne_, count>>

(* The busy wait, counted; the counter only matters up to Patience + 1, so *)
(* it saturates there.                                                     *)
Spin(t) ==
  /\ Goto(t, "spin", IF count[t] > Patience THEN "sleep" ELSE "retry")
  /\ count' = [count EXCEPT ![t] = IF @ > Patience THEN @ ELSE @ + 1]
  /\ UNCHANGED throne_

(* nanosleep returns. *)
Wake(t) ==
  /\ Goto(t, "sleep", "retry")
  /\ UNCHANGED <<throne_, count>>

(* The try inside the loop. *)
Retry(t) ==
  /\ Goto(t, "retry", "recheck")
  /\ throne_' = TakeTheIronThrone(t)
  /\ UNCHANGED count

(* Mutated Recheck: the loop is left after one retry, won or lost. *)
RecheckGivesUp(t) ==
  /\ Goto(t, "recheck", "in")
  /\ UNCHANGED <<throne_, count>>

(* The loop condition, the only way out of the loop. *)
Recheck(t) ==
  /\ Goto(t, "recheck", IF throne_ = t THEN "in" ELSE "spin")
  /\ UNCHANGED <<throne_, count>>

(* Unlock stores EMPTY without looking at who owns the throne; the callers *)
(* only call it while they hold the lock.                                  *)
Unlock(t) ==
  /\ Goto(t, "in", "out")
  /\ throne_' = EMPTY
  /\ UNCHANGED count

LockStep(t) == Try(t) \/ Check(t) \/ Spin(t) \/ Wake(t) \/ Retry(t) \/ Recheck(t)

Next == \E t \in Threads : Call(t) \/ LockStep(t) \/ Unlock(t)

(* Every thread inside Lock keeps running, and every critical section of   *)
(* the program is straight-line code, so it ends; nothing makes a thread   *)
(* ask for the lock.                                                       *)
Fairness == \A t \in Threads : WF_vars(LockStep(t)) /\ WF_vars(Unlock(t))

Spec == Init /\ [][Next]_vars /\ Fairness

-----------------------------------------------------------------------------
(* At most one thread is between the return of Lock and the store of       *)
(* Unlock, although the swap and the test of its outcome are two accesses. *)
MutualExclusion ==
  \A s, t \in Threads : pc[s] = "in" /\ pc[t] = "in" => s = t

(* The throne is never left to a thread that does not know it: whoever     *)
(* throne_ names has either returned from Lock or is about to read its own *)
(* id back, so no interleaving of failed tries, sleeps and unlocks can     *)
(* strand the lock.                                                        *)
ThroneNotStranded ==
  \A t \in Threads : throne_ = t => pc[t] \in {"check", "recheck", "in"}

(* A thread in its critical section is the one throne_ names, so Unlock's  *)
(* unconditional store never takes the lock away from somebody else.       *)
OwnerOnThrone == \A t \in Threads : pc[t] = "in" => throne_ = t

(* The inductive invariant behind MutualExclusion: the variables have      *)
(* their types, the throne is never stranded, and its owner is on it.      *)
IInv == TypeOK /\ ThroneNotStranded /\ OwnerOnThrone

(* Deadlock freedom: while somebody is inside Lock, somebody eventually    *)
(* gets the critical section.  (The lock is not fair: a given thread may   *)
(* lose every race.)                                                       *)
SomebodyEnters ==
  (\E t \in Threads : pc[t] \notin {"out", "in"}) ~> (\E t \in Threads : pc[t] = "in")

(* The abstract lock: the throne is the holder, and a thread waits from    *)
(* the call of Lock until its swap succeeds.                               *)
AbstractMutex == INSTANCE Mutex WITH
  Nobody  <- EMPTY,
  holder  <- throne_,
  waiting <- {t \in Threads : pc[t] \notin {"out", "in"} /\ throne_ # t}

(* MyMutex implements Mutex: the successful swap is the acquisition, and   *)
(* reading throne_ back is a stuttering step.                              *)
ImplementsMutex == AbstractMutex!Spec
=============================================================================
