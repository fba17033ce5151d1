------------------------------ MODULE MCLocks ------------------------------
(***************************************************************************)
(* The repository's locks, model-checked together: a behaviour is one of   *)
(* MyMutex, one of Lab6's spin locks, Lab7's reader-writer lock or Lab3's  *)
(* Peterson lock, and the others stay as they were initialised.            *)
(***************************************************************************)
EXTENDS MyMutex

CONSTANTS Nodes, Readers, CounterEnd

ASSUME NodesAssumption == EMPTY \notin Nodes

(* There are not as many readers as an int has values. *)
ASSUME ReadersAssumption ==
  IsFiniteSet(Readers) /\ CounterEnd \in Nat /\ Cardinality(Readers) < CounterEnd

VARIABLES which,
          kind, lock_object, tail, node, x, old_one, spin_pc,
          writing, readAcquires, readReleases, seen, writer, reader, overtaken,
          g_flag, g_victim, buffer, peterson_pc, hasty

Sl == INSTANCE SpinLocks WITH NULL <- EMPTY, pc <- spin_pc
Rw == INSTANCE RwLock
Pt == INSTANCE Peterson WITH pc <- peterson_pc

spinVars == <<kind, lock_object, tail, node, x, old_one, spin_pc>>
rwVars == <<writing, readAcquires, readReleases, seen, writer, reader, overtaken>>
petersonVars == <<g_flag, g_victim, buffer, peterson_pc, hasty>>

InitLocks ==
  /\ which \in {"my_mutex", "spin", "rw", "peterson"}
  /\ Init /\ Sl!Init /\ Rw!Init /\ Pt!Init
  /\ which # "spin" => kind = "tas"

NextLocks ==
  /\ UNCHANGED which
  /\ \/ which = "my_mutex" /\ Next /\ UNCHANGED <<spinVars, rwVars, petersonVars>>
     \/ which = "spin" /\ Sl!Next /\ UNCHANGED <<vars, rwVars, petersonVars>>
     \/ which = "rw" /\ Rw!Next /\ UNCHANGED <<vars, spinVars, petersonVars>>
     \/ which = "peterson" /\ Pt!Next /\ UNCHANGED <<vars, spinVars, rwVars>>

SpecLocks ==
  /\ InitLocks
  /\ [][NextLocks]_<<which, vars, spinVars, rwVars, petersonVars>>
  /\ Fairness /\ Sl!Fairness /\ Rw!Fairness /\ Pt!Fairness

-----------------------------------------------------------------------------
(* Lab6: at most one thread holds the lock, and no thread of the queue     *)
(* lock uses a node that was freed.  Lab7: the writer is alone, unless a   *)
(* reader had passed its test and not counted itself when the flag was     *)
(* raised.  Lab3: both threads are inside only through the missing fence.  *)
LabLocksExclude == Sl!ExclusionAndNodes /\ Rw!WriterAlone /\ Pt!OnlyTheMissingFence

(* MyMutex and each of Lab6's three spin locks implement Mutex. *)
LocksImplementMutex == ImplementsMutex /\ Sl!SpinLocksImplementMutex

(* Who waits gets in: somebody through MyMutex, everybody in the queue of  *)
(* the queue lock, Lab7's writer although readers never stop coming, and   *)
(* each thread in Lab3's Lock.                                             *)
WaitersEnter ==
  SomebodyEnters /\ Sl!QueuedThreadEnters /\ Rw!WriterEnters /\ Pt!EverybodyEnters
=============================================================================
