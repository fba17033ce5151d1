--------------------------- MODULE MCLocksProofs ---------------------------
(***************************************************************************)
(* The repository's locks, for any number of threads, nodes and readers:   *)
(* Project2's MyMutex excludes; Lab6's three spin locks exclude, and the   *)
(* queue lock never touches a freed node; Lab7's writer is alone; Lab3's   *)
(* threads are both inside only through the missing fence.  MyMutex and    *)
(* the spin locks implement Mutex.                                         *)
(***************************************************************************)
EXTENDS MCLocks, FiniteSetTheorems, SequenceTheorems, TLAPS

-----------------------------------------------------------------------------
(* Project2: MyMutex *)

(* A swap keeps the inductive invariant: it names the caller on an empty   *)
(* throne and leaves a taken one alone.                                    *)
LEMMA SwapKeeps ==
  ASSUME IInv, NEW t \in Threads, Try(t) \/ Retry(t)
  PROVE  IInv'
<1>1. throne_ # EMPTY => throne_' = throne_
  BY DEF Try, Retry, TakeTheIronThrone
<1>2. throne_ = EMPTY => throne_' = t
  BY DEF Try, Retry, TakeTheIronThrone
<1>3. pc' = [pc EXCEPT ![t] = IF pc[t] = "try" THEN "check" ELSE "recheck"]
  BY DEF Try, Retry, Goto
<1>4. pc[t] \in {"try", "retry"} /\ count' = count
  BY DEF Try, Retry, Goto
<1> QED
  BY <1>1, <1>2, <1>3, <1>4, EmptyAssumption
     DEF IInv, TypeOK, ThroneNotStranded, OwnerOnThrone, Locations

(* The steps that leave the throne alone.  Only reading one's own id back  *)
(* leads into the critical section.                                        *)
LEMMA WaitKeeps ==
  ASSUME IInv, NEW t \in Threads, Call(t) \/ Check(t) \/ Spin(t) \/ Wake(t) \/ Recheck(t)
  PROVE  IInv'
<1>1. CASE Check(t) \/ Recheck(t)
  BY <1>1 DEF Check, Recheck, Goto, IInv, TypeOK, ThroneNotStranded, OwnerOnThrone, Locations
<1>2. CASE Call(t) \/ Spin(t) \/ Wake(t)
  BY <1>2, PatienceAssumption
     DEF Call, Spin, Wake, Goto, IInv, TypeOK, ThroneNotStranded, OwnerOnThrone, Locations
<1> QED
  BY <1>1, <1>2

(* Unlock empties the throne, which by OwnerOnThrone named the caller.     *)
LEMMA UnlockKeeps ==
  ASSUME IInv, NEW t \in Threads, Unlock(t)
  PROVE  IInv'
  BY EmptyAssumption
     DEF Unlock, Goto, IInv, TypeOK, ThroneNotStranded, OwnerOnThrone, Locations

(* Every step of any thread keeps the inductive invariant. *)
LEMMA StepKeepsIInv == IInv /\ [Next]_vars => IInv'
<1> HAVE IInv /\ [Next]_vars
<1>1. CASE Next
  <2> PICK t \in Threads : Call(t) \/ LockStep(t) \/ Unlock(t)
    BY <1>1 DEF Next
  <2> QED
    BY SwapKeeps, WaitKeeps, UnlockKeeps DEF LockStep
<1>2. CASE vars' = vars
  BY <1>2 DEF vars, IInv, TypeOK, ThroneNotStranded, OwnerOnThrone
<1> QED
  BY <1>1, <1>2

(* The inductive invariant holds in every reachable state of MyMutex. *)
THEOREM LockInvariant == Spec => []IInv
<1>1. Init => IInv
  BY EmptyAssumption, PatienceAssumption
     DEF Init, IInv, TypeOK, ThroneNotStranded, OwnerOnThrone, Locations
<1>2. QED
  BY <1>1, StepKeepsIInv, PTL DEF Spec

(* At most one thread is inside the section Lock and Unlock protect, for   *)
(* any number of threads: each one there is the thread throne_ names.      *)
THEOREM MutualExclusionHolds == Spec => []MutualExclusion
<1>1. IInv => MutualExclusion
  BY DEF IInv, OwnerOnThrone, MutualExclusion
<1>2. QED
  BY <1>1, LockInvariant, PTL

(* A swap that finds the throne empty is the acquisition, and one that     *)
(* finds it taken is nothing Mutex sees.                                   *)
LEMMA SwapMaps ==
  ASSUME IInv, NEW t \in Threads, Try(t) \/ Retry(t)
  PROVE  AbstractMutex!Acquire(t) \/ UNCHANGED AbstractMutex!vars
<1> USE EmptyAssumption
        DEF IInv, TypeOK, ThroneNotStranded, OwnerOnThrone, Goto, Try, Retry, TakeTheIronThrone
<1>a. throne_ = EMPTY => AbstractMutex!Acquire(t)
  BY DEF AbstractMutex!Acquire
<1>b. throne_ # EMPTY => UNCHANGED AbstractMutex!vars
  BY DEF AbstractMutex!vars
<1> QED
  BY <1>a, <1>b

(* Every step of MyMutex is a step of Mutex or changes nothing it sees:    *)
(* the winning swap is the acquisition.                                    *)
THEOREM RefinesMutexSafety ==
  Spec => AbstractMutex!Init /\ [][AbstractMutex!Next]_(AbstractMutex!vars)
<1>1. Init => AbstractMutex!Init
  BY EmptyAssumption DEF Init, AbstractMutex!Init
<1>2. ASSUME IInv, NEW t \in Threads, Call(t) \/ LockStep(t) \/ Unlock(t)
      PROVE  [AbstractMutex!Next]_(AbstractMutex!vars)
  <2> USE <1>2, EmptyAssumption
          DEF IInv, TypeOK, ThroneNotStranded, OwnerOnThrone, Goto, AbstractMutex!vars
  <2>call. Call(t) => AbstractMutex!Request(t)
    BY DEF Call, AbstractMutex!Request
  <2>wait. Check(t) \/ Spin(t) \/ Wake(t) \/ Recheck(t) => UNCHANGED AbstractMutex!vars
    BY DEF Check, Spin, Wake, Recheck
  <2>unlock. Unlock(t) => AbstractMutex!Release(t)
    BY DEF Unlock, AbstractMutex!Release
  <2> QED
    BY <2>call, <2>wait, <2>unlock, SwapMaps DEF LockStep, AbstractMutex!Next
<1>3. UNCHANGED vars => UNCHANGED AbstractMutex!vars
  BY DEF vars, AbstractMutex!vars
<1>4. IInv /\ [Next]_vars => [AbstractMutex!Next]_(AbstractMutex!vars)
  BY <1>2, <1>3 DEF Next, AbstractMutex!vars
<1> QED
  BY <1>1, <1>4, LockInvariant, PTL DEF Spec

-----------------------------------------------------------------------------
(* Lab6: the spin locks *)

SpinTypes ==
  /\ kind \in {"tas", "ttas", "clh"} /\ lock_object \in {0, 1}
  /\ tail \in Nodes \cup {EMPTY}
  /\ node \in [Nodes -> {"freed", "0", "1"}]
  /\ x \in [Threads -> Nodes \cup {EMPTY}]
  /\ old_one \in [Threads -> Nodes \cup {EMPTY}]
  /\ spin_pc \in [Threads -> {"out", "look", "swap", "enqueue", "spin", "free", "in"}]

(* The lock word is 1 exactly while one thread is inside. *)
WordInv ==
  kind # "clh" =>
    /\ \A t \in Threads : spin_pc[t] \in {"out", "look", "swap", "in"}
    /\ \A t \in Threads : spin_pc[t] = "in" => lock_object = 1
    /\ \A s, t \in Threads : spin_pc[s] = "in" /\ spin_pc[t] = "in" => s = t

Queued(t) == spin_pc[t] \in {"spin", "free"}
Active(t) == spin_pc[t] \in {"enqueue", "spin", "free", "in"}

(* Who owns which node: its thread while it is 0, its successor once there *)
(* is one, and the tail of the queue nobody yet.                           *)
NodesInv ==
  /\ \A t \in Threads : spin_pc[t] \in {"out", "enqueue", "spin", "free", "in"}
  /\ \A t \in Threads : Active(t) => x[t] \in Nodes /\ node[x[t]] = "0"
  /\ \A s, t \in Threads : Active(s) /\ Active(t) /\ x[s] = x[t] => s = t
  /\ \A t \in Threads : Queued(t) =>
       old_one[t] \in Nodes /\ node[old_one[t]] # "freed" /\ old_one[t] # tail
  /\ \A s, t \in Threads : Queued(s) /\ Queued(t) /\ old_one[s] = old_one[t] => s = t
  /\ tail # EMPTY => node[tail] # "freed"
  /\ \A t \in Threads : spin_pc[t] = "enqueue" =>
       x[t] # tail /\ \A s \in Threads : Queued(s) => old_one[s] # x[t]

(* The right to enter is either with the thread inside or with the one     *)
(* node that is 1.                                                         *)
TokenInv ==
  /\ \A m, n \in Nodes : node[m] = "1" /\ node[n] = "1" => m = n
  /\ \A t \in Threads : spin_pc[t] = "in" => \A n \in Nodes : node[n] # "1"
  /\ \A s, t \in Threads : spin_pc[s] = "in" /\ spin_pc[t] = "in" => s = t
  /\ \A t \in Threads : spin_pc[t] = "free" => node[old_one[t]] = "1"
  /\ tail = EMPTY =>
       /\ \A t \in Threads : spin_pc[t] \in {"out", "enqueue"}
       /\ \A n \in Nodes : node[n] # "1"

SpinInv == SpinTypes /\ WordInv /\ (kind = "clh" => NodesInv /\ TokenInv)

(* Somebody goes from one place to another. *)
LEMMA SpinMove ==
  ASSUME SpinTypes, NEW t \in Threads, NEW from, NEW to, Sl!Moves(t, from, to)
  PROVE  /\ spin_pc[t] = from /\ spin_pc'[t] = to /\ kind' = kind
         /\ \A s \in Threads \ {t} : spin_pc'[s] = spin_pc[s]
  BY DEF Sl!Moves, SpinTypes

LEMMA SpinTypesKept ==
  ASSUME SpinTypes, Sl!Next
  PROVE  SpinTypes'
<1> PICK t \in Threads : Sl!Call(t) \/ Sl!Step(t)
  BY DEF Sl!Next
<1> USE DEF SpinTypes, Sl!Moves
<1>1. CASE Sl!Call(t)
  BY <1>1 DEF Sl!Call
<1>2. CASE Sl!Look(t)
  BY <1>2 DEF Sl!Look
<1>3. CASE Sl!Swap(t)
  BY <1>3 DEF Sl!Swap
<1>4. CASE Sl!Enqueue(t)
  BY <1>4 DEF Sl!Enqueue
<1>5. CASE Sl!Spin(t)
  BY <1>5 DEF Sl!Spin
<1>6. CASE Sl!Free(t)
  BY <1>6 DEF Sl!Free
<1>7. CASE Sl!Unlock(t)
  BY <1>7 DEF Sl!Unlock
<1> QED BY <1>1, <1>2, <1>3, <1>4, <1>5, <1>6, <1>7 DEF Sl!Step

LEMMA WordKept ==
  ASSUME SpinInv, kind # "clh", Sl!Next
  PROVE  WordInv' /\ kind' # "clh"
<1> PICK t \in Threads : Sl!Call(t) \/ Sl!Step(t)
  BY DEF Sl!Next
<1> USE DEF SpinInv, WordInv, Sl!Moves
<1>1. CASE Sl!Call(t)
  BY <1>1 DEF Sl!Call, SpinTypes
<1>2. CASE Sl!Look(t)
  BY <1>2 DEF Sl!Look, SpinTypes
<1>3. CASE Sl!Swap(t)
  BY <1>3 DEF Sl!Swap, SpinTypes
<1>4. CASE Sl!Enqueue(t) \/ Sl!Spin(t) \/ Sl!Free(t)
  BY <1>4 DEF Sl!Enqueue, Sl!Spin, Sl!Free
<1>5. CASE Sl!Unlock(t)
  BY <1>5 DEF Sl!Unlock, SpinTypes
<1> QED BY <1>1, <1>2, <1>3, <1>4, <1>5 DEF Sl!Step

LEMMA QueueKept ==
  ASSUME SpinInv, kind = "clh", Sl!Next
  PROVE  NodesInv' /\ TokenInv' /\ kind' = "clh"
<1> PICK t \in Threads : Sl!Call(t) \/ Sl!Step(t)
  BY DEF Sl!Next
<1> USE NodesAssumption DEF SpinInv, SpinTypes, Queued, Active
<1>1. CASE Sl!Call(t)
  <2> PICK n \in Nodes : /\ Sl!Moves(t, "out", "enqueue")
                         /\ node[n] = "freed" /\ node' = [node EXCEPT ![n] = "0"]
                         /\ x' = [x EXCEPT ![t] = n]
                         /\ UNCHANGED <<lock_object, tail, old_one>>
    BY <1>1 DEF Sl!Call
  <2>1. NodesInv'
    BY SpinMove DEF NodesInv
  <2>2. TokenInv'
    BY SpinMove DEF NodesInv, TokenInv
  <2> QED BY <2>1, <2>2 DEF Sl!Moves
<1>2. CASE Sl!Look(t) \/ Sl!Swap(t)
  BY <1>2 DEF Sl!Look, Sl!Swap, Sl!Moves, NodesInv
<1>3. CASE Sl!Enqueue(t)
  <2>1. /\ spin_pc[t] = "enqueue" /\ spin_pc'[t] = IF tail = EMPTY THEN "in" ELSE "spin"
        /\ kind' = kind /\ \A s \in Threads \ {t} : spin_pc'[s] = spin_pc[s]
        /\ tail' = x[t] /\ old_one'[t] = tail
        /\ \A s \in Threads \ {t} : old_one'[s] = old_one[s]
        /\ UNCHANGED <<node, x>>
    BY <1>3 DEF Sl!Enqueue, Sl!Moves
  <2>2. NodesInv'
    BY <2>1 DEF NodesInv
  <2>3. TokenInv'
    BY <2>1 DEF NodesInv, TokenInv
  <2> QED BY <2>1, <2>2, <2>3
<1>4. CASE Sl!Spin(t)
  <2>1. /\ spin_pc[t] = "spin" /\ spin_pc'[t] = "free" /\ node[old_one[t]] # "0"
        /\ kind' = kind /\ \A s \in Threads \ {t} : spin_pc'[s] = spin_pc[s]
        /\ UNCHANGED <<tail, node, x, old_one>>
    BY <1>4 DEF Sl!Spin, Sl!Moves
  <2>2. NodesInv'
    BY <2>1 DEF NodesInv
  <2>3. TokenInv'
    BY <2>1 DEF NodesInv, TokenInv
  <2> QED BY <2>1, <2>2, <2>3
<1>5. CASE Sl!Free(t)
  <2>1. /\ spin_pc[t] = "free" /\ spin_pc'[t] = "in"
        /\ kind' = kind /\ \A s \in Threads \ {t} : spin_pc'[s] = spin_pc[s]
        /\ node' = [node EXCEPT ![old_one[t]] = "freed"]
        /\ \A s \in Threads \ {t} : old_one'[s] = old_one[s]
        /\ UNCHANGED <<tail, x>>
    BY <1>5 DEF Sl!Free, Sl!Moves
  <2>2. old_one[t] \in Nodes /\ node[old_one[t]] = "1"
    BY <2>1 DEF NodesInv, TokenInv
  <2>3. NodesInv'
    BY <2>1, <2>2 DEF NodesInv
  <2>4. TokenInv'
    BY <2>1, <2>2 DEF NodesInv, TokenInv
  <2> QED BY <2>1, <2>3, <2>4
<1>6. CASE Sl!Unlock(t)
  <2>1. /\ spin_pc[t] = "in" /\ spin_pc'[t] = "out"
        /\ kind' = kind /\ \A s \in Threads \ {t} : spin_pc'[s] = spin_pc[s] /\ x'[s] = x[s]
        /\ node' = [node EXCEPT ![x[t]] = "1"]
        /\ UNCHANGED <<tail, old_one>>
    BY <1>6 DEF Sl!Unlock, Sl!Moves
  <2>2. x[t] \in Nodes /\ node[x[t]] = "0"
    BY <2>1 DEF NodesInv
  <2>3. NodesInv'
    BY <2>1, <2>2 DEF NodesInv
  <2>4. TokenInv'
    BY <2>1, <2>2 DEF NodesInv, TokenInv
  <2> QED BY <2>1, <2>3, <2>4
<1> QED BY <1>1, <1>2, <1>3, <1>4, <1>5, <1>6 DEF Sl!Step

(* What the invariant says of the holders. *)
LEMMA SpinOneHolder ==
  ASSUME SpinInv, NEW s \in Sl!Holders, NEW t \in Sl!Holders
  PROVE  s = t
<1>1. CASE kind # "clh"
  BY <1>1 DEF SpinInv, WordInv, Sl!Holders
<1>2. CASE kind = "clh"
  <2> USE <1>2 DEF SpinInv, NodesInv, TokenInv, Queued
  <2>1. CASE spin_pc[s] = "free" /\ spin_pc[t] = "free"
    BY <2>1 DEF Sl!Holders
  <2>2. CASE spin_pc[s] # spin_pc[t]
    BY <2>2 DEF Sl!Holders
  <2>3. CASE spin_pc[s] = "in" /\ spin_pc[t] = "in"
    BY <2>3 DEF Sl!Holders
  <2> QED BY <2>1, <2>2, <2>3 DEF Sl!Holders
<1> QED BY <1>1, <1>2

LEMMA SpinInvExcludes ==
  ASSUME SpinInv
  PROVE  Sl!ExclusionAndNodes
<1>1. ASSUME NEW s \in Sl!Holders, NEW t \in Sl!Holders PROVE s = t
  BY SpinOneHolder
<1>2. Cardinality(Sl!Holders) <= 1
  <2>1. CASE Sl!Holders = {}
    <3>1. Cardinality(Sl!Holders) = 0
      BY <2>1, FS_EmptySet
    <3> QED BY <3>1
  <2>2. CASE Sl!Holders # {}
    <3>1. PICK t : t \in Sl!Holders
      BY <2>2
    <3>2. Sl!Holders = {t}
      BY <1>1, <3>1
    <3>3. Cardinality(Sl!Holders) = 1
      BY <3>2, FS_Singleton
    <3> QED BY <3>3
  <2> QED BY <2>1, <2>2
<1>3. \A t \in Threads : spin_pc[t] \in {"spin", "free"} => node[old_one[t]] # "freed"
  BY DEF SpinInv, WordInv, NodesInv, Queued
<1>4. \A t \in Threads : spin_pc[t] \in {"enqueue", "spin", "free", "in"} /\ kind = "clh"
                           => node[x[t]] = "0"
  BY DEF SpinInv, NodesInv, Active
<1>5. Sl!Cardinality(Sl!Holders) = Cardinality(Sl!Holders)
  BY DEF Sl!Cardinality, Cardinality
<1> QED BY <1>2, <1>3, <1>4, <1>5 DEF Sl!ExclusionAndNodes

-----------------------------------------------------------------------------
(* Lab7: the reader-writer lock *)

ReadersIn == {r \in Readers : reader[r] = "in"}

(* The counters, which may wrap, are as far apart as there are readers     *)
(* inside, and that is never a whole turn.  While the flag is up and       *)
(* nobody was overtaken no reader is on its way in, so the readers the     *)
(* writer has counted are all there are.                                   *)
Ahead(n) == readAcquires = readReleases + n \/ readAcquires + CounterEnd = readReleases + n

RwInv ==
  /\ readAcquires \in 0..CounterEnd - 1 /\ readReleases \in 0..CounterEnd - 1
  /\ writing \in BOOLEAN /\ overtaken \in BOOLEAN
  /\ writer \in {"out", "acquires", "releases", "in"}
  /\ reader \in [Readers -> {"out", "test", "count", "in"}]
  /\ IsFiniteSet(ReadersIn) /\ Ahead(Cardinality(ReadersIn))
  /\ writer # "out" => writing
  /\ writing /\ ~overtaken => \A r \in Readers : reader[r] # "count"
  /\ writer = "releases" /\ ~overtaken => seen = readAcquires
  /\ Rw!WriterAlone

LEMMA AddIs ==
  ASSUME NEW n \in 0..CounterEnd - 1
  PROVE  /\ Rw!Add(n) \in 0..CounterEnd - 1
         /\ Rw!Add(n) = n + 1 \/ Rw!Add(n) + CounterEnd = n + 1
<1>1. PICK w \in Nat : w = CounterEnd /\ n \in 0..w - 1
  BY ReadersAssumption
<1>2. CASE n + 1 < w
  <2>1. (n + 1) % w = n + 1
    BY <1>1, <1>2
  <2> QED BY <1>1, <1>2, <2>1 DEF Rw!Add
<1>3. CASE n + 1 = w
  <2>1. w % w = 0
    BY <1>1, <1>3
  <2> QED BY <1>1, <1>3, <2>1 DEF Rw!Add
<1> QED BY <1>1, <1>2, <1>3

(* One counter goes on, and the distance between the two changes by one. *)
LEMMA TurnOn ==
  ASSUME NEW w \in Nat, NEW n \in Nat, NEW A \in Nat, NEW R \in Nat, NEW B \in Nat,
         A < w, R < w, B < w, n + 1 < w
  PROVE  /\ (A = R + n \/ A + w = R + n) /\ (B = A + 1 \/ B + w = A + 1) =>
              B = R + (n + 1) \/ B + w = R + (n + 1)
         /\ (A = R + (n + 1) \/ A + w = R + (n + 1)) /\ (B = R + 1 \/ B + w = R + 1) =>
              A = B + n \/ A + w = B + n
  OBVIOUS

(* There are never a whole turn of readers inside. *)
LEMMA FewReaders ==
  ASSUME NEW S \in SUBSET Readers
  PROVE  IsFiniteSet(S) /\ Cardinality(S) \in Nat /\ CounterEnd \in Nat /\ Cardinality(S) < CounterEnd
<1>1. IsFiniteSet(S) /\ Cardinality(S) <= Cardinality(Readers)
  BY ReadersAssumption, FS_Subset
<1>2. Cardinality(S) \in Nat /\ Cardinality(Readers) \in Nat
  BY <1>1, ReadersAssumption, FS_CardinalityType
<1> QED BY <1>1, <1>2, ReadersAssumption

LEMMA RwKept ==
  ASSUME RwInv, Rw!Next
  PROVE  RwInv'
<1> USE DEF RwInv
<1>1. CASE Rw!Raise \/ Rw!LoadAcquires \/ Rw!writeunlock
  <2>1. UNCHANGED <<readAcquires, readReleases, reader>>
    BY <1>1 DEF Rw!Raise, Rw!LoadAcquires, Rw!writeunlock
  <2>2. ReadersIn' = ReadersIn
    BY <2>1 DEF ReadersIn
  <2> QED
    BY <1>1, <2>1, <2>2 DEF Rw!Raise, Rw!LoadAcquires, Rw!writeunlock, Rw!WriterAlone, Ahead
<1>2. CASE Rw!Compare
  <2>1. ReadersIn' = ReadersIn
    BY <1>2 DEF Rw!Compare, ReadersIn
  <2>2. seen = readAcquires /\ seen = readReleases => \A r \in Readers : reader[r] # "in"
    <3>1. PICK n \in Nat, w \in Nat : n = Cardinality(ReadersIn) /\ w = CounterEnd /\ n < w
      BY FewReaders DEF ReadersIn
    <3>2. seen = readAcquires /\ seen = readReleases => Cardinality(ReadersIn) = 0
      BY <3>1 DEF Ahead
    <3>3. Cardinality(ReadersIn) = 0 => ReadersIn = {}
      BY FS_EmptySet
    <3> QED BY <3>2, <3>3 DEF ReadersIn
  <2> QED BY <1>2, <2>1, <2>2 DEF Rw!Compare, Rw!WriterAlone, Ahead
<1>3. ASSUME NEW r \in Readers, Rw!Read(r) \/ Rw!Test(r) PROVE RwInv'
  <2>1. ReadersIn' = ReadersIn
    BY <1>3 DEF Rw!Read, Rw!Test, Rw!Reader, ReadersIn
  <2> QED BY <1>3, <2>1 DEF Rw!Read, Rw!Test, Rw!Reader, Rw!WriterAlone, Ahead
<1>4. ASSUME NEW r \in Readers, Rw!Count(r) PROVE RwInv'
  <2>1. r \notin ReadersIn /\ ReadersIn' = ReadersIn \cup {r}
    BY <1>4 DEF Rw!Count, Rw!Reader, ReadersIn
  <2>2. IsFiniteSet(ReadersIn') /\ Cardinality(ReadersIn') = Cardinality(ReadersIn) + 1
    BY <2>1, FS_AddElement
  <2>3. readAcquires' \in 0..CounterEnd - 1 /\ Ahead(Cardinality(ReadersIn))'
    <3>1. PICK n \in Nat, w \in Nat : n = Cardinality(ReadersIn) /\ w = CounterEnd /\ n + 1 < w
      BY <2>2, FewReaders DEF ReadersIn
    <3>2. readAcquires' \in 0..w - 1 /\ (readAcquires' = readAcquires + 1 \/ readAcquires' + w = readAcquires + 1)
      BY <1>4, <3>1, AddIs DEF Rw!Count
    <3>3. readAcquires = readReleases + n \/ readAcquires + w = readReleases + n
      BY <3>1 DEF Ahead
    <3>4. readAcquires \in Nat /\ readReleases \in Nat /\ readAcquires' \in Nat
          /\ readAcquires < w /\ readReleases < w /\ readAcquires' < w
      BY <3>1, <3>2
    <3>5. readAcquires' = readReleases + (n + 1) \/ readAcquires' + w = readReleases + (n + 1)
      <4>1. PICK A \in Nat, R \in Nat, B \in Nat : A = readAcquires /\ R = readReleases /\ B = readAcquires'
        BY <3>4
      <4>2. A < w /\ R < w /\ B < w /\ n + 1 < w
        BY <3>1, <3>4, <4>1
      <4> HIDE DEF RwInv
      <4>3. (A = R + n \/ A + w = R + n) /\ (B = A + 1 \/ B + w = A + 1)
        BY <3>2, <3>3, <4>1, Zenon
      <4>4. B = R + (n + 1) \/ B + w = R + (n + 1)
        BY <4>2, <4>3, TurnOn
      <4> QED BY <4>1, <4>4, Zenon
    <3>6. readReleases' = readReleases /\ Cardinality(ReadersIn)' = n + 1
      BY <1>4, <2>2, <3>1 DEF Rw!Count
    <3> QED BY <3>1, <3>2, <3>5, <3>6 DEF Ahead
  <2>4. reader[r] = "count" /\ ~(writing /\ ~overtaken)
    BY <1>4 DEF Rw!Count, Rw!Reader
  <2> QED BY <1>4, <2>2, <2>3, <2>4 DEF Rw!Count, Rw!Reader, Rw!WriterAlone
<1>5. ASSUME NEW r \in Readers, Rw!readunlock(r) PROVE RwInv'
  <2>1. r \in ReadersIn /\ ReadersIn' = ReadersIn \ {r}
    BY <1>5 DEF Rw!readunlock, Rw!Reader, ReadersIn
  <2>2. IsFiniteSet(ReadersIn') /\ Cardinality(ReadersIn') = Cardinality(ReadersIn) - 1
    BY <2>1, FS_RemoveElement
  <2>3. readReleases' \in 0..CounterEnd - 1 /\ Ahead(Cardinality(ReadersIn))'
    <3>0. PICK n \in Nat : n = Cardinality(ReadersIn')
      BY <2>2, FS_CardinalityType
    <3>1. PICK w \in Nat : w = CounterEnd /\ n + 1 = Cardinality(ReadersIn) /\ n + 1 < w
      <4>1. ReadersIn \in SUBSET Readers
        BY DEF ReadersIn
      <4>2. PICK k \in Nat, w \in Nat : k = Cardinality(ReadersIn) /\ w = CounterEnd /\ k < w
        BY <4>1, FewReaders
      <4>3. n = k - 1
        BY <2>2, <3>0, <4>2
      <4> QED BY <4>2, <4>3
    <3>2. readReleases' \in 0..w - 1 /\ (readReleases' = readReleases + 1 \/ readReleases' + w = readReleases + 1)
      BY <1>5, <3>1, AddIs DEF Rw!readunlock
    <3>3. readAcquires = readReleases + (n + 1) \/ readAcquires + w = readReleases + (n + 1)
      BY <3>1 DEF Ahead
    <3>4. readAcquires \in Nat /\ readReleases \in Nat /\ readReleases' \in Nat
          /\ readAcquires < w /\ readReleases < w /\ readReleases' < w
      BY <3>1, <3>2
    <3>5. readAcquires = readReleases' + n \/ readAcquires + w = readReleases' + n
      <4>1. PICK A \in Nat, R \in Nat, B \in Nat : A = readAcquires /\ R = readReleases /\ B = readReleases'
        BY <3>4
      <4>2. A < w /\ R < w /\ B < w /\ n + 1 < w
        BY <3>1, <3>4, <4>1
      <4> HIDE DEF RwInv
      <4>3. (A = R + (n + 1) \/ A + w = R + (n + 1)) /\ (B = R + 1 \/ B + w = R + 1)
        BY <3>2, <3>3, <4>1, Zenon
      <4>4. A = B + n \/ A + w = B + n
        BY <4>2, <4>3, TurnOn
      <4> QED BY <4>1, <4>4, Zenon
    <3>6. readAcquires' = readAcquires
      BY <1>5 DEF Rw!readunlock
    <3> QED BY <3>0, <3>1, <3>2, <3>5, <3>6 DEF Ahead
  <2> QED BY <1>5, <2>2, <2>3 DEF Rw!readunlock, Rw!Reader, Rw!WriterAlone
<1> QED BY <1>1, <1>2, <1>3, <1>4, <1>5 DEF Rw!Next, Rw!writelock

-----------------------------------------------------------------------------
(* Lab3: Peterson's lock with a store buffer *)

Up == <<"flag", TRUE>>
Down == <<"flag", FALSE>>
Yield == <<"victim">>

(* What a thread's stores on their way to memory can be, and that its flag *)
(* is up in memory from the fence until it unlocks.                        *)
BufferOK(t) ==
  /\ peterson_pc[t] = "out" => buffer[t] \in {<<>>, <<Down>>, <<Yield, Down>>}
  /\ peterson_pc[t] = "fence" =>
       /\ buffer[t] \in {<<>>, <<Up>>, <<Down, Up>>, <<Yield, Down, Up>>}
       /\ buffer[t] = <<>> => g_flag[t]
  /\ peterson_pc[t] = "victim" => buffer[t] = <<>> /\ g_flag[t]
  /\ peterson_pc[t] \in {"flag?", "victim?", "in"} => buffer[t] \in {<<>>, <<Yield>>} /\ g_flag[t]
  /\ peterson_pc[t] = "in" /\ t \notin hasty => buffer[t] = <<>>

(* While a thread is inside that did not enter in haste, the other one is  *)
(* held back by its own turn to wait, or is inside in haste.               *)
HeldBack(t) ==
  \/ peterson_pc[t] \in {"out", "fence", "victim"}
  \/ peterson_pc[t] \in {"flag?", "victim?"} /\ (buffer[t] = <<Yield>> \/ g_victim = t)
  \/ peterson_pc[t] = "in" /\ t \in hasty

PetersonInv ==
  /\ g_flag \in [{0, 1} -> BOOLEAN] /\ g_victim \in {0, 1}
  /\ DOMAIN buffer = {0, 1} /\ buffer = [t \in {0, 1} |-> buffer[t]]
  /\ peterson_pc \in [{0, 1} -> {"out", "fence", "victim", "flag?", "victim?", "in"}]
  /\ \A t \in {0, 1} : BufferOK(t)
  /\ \A t \in {0, 1} : peterson_pc[t] = "in" /\ t \notin hasty => HeldBack(1 - t)

(* What a sequence is that has one element more. *)
LEMMA AppendIs ==
  ASSUME NEW S, NEW s \in Seq(S), NEW e \in S, NEW u \in Seq(S),
         Len(u) = Len(s) + 1, u[Len(s) + 1] = e, \A k \in 1..Len(s) : u[k] = s[k]
  PROVE  Append(s, e) = u
<1>1. /\ Append(s, e) \in Seq(S) /\ Len(Append(s, e)) = Len(u)
      /\ Append(s, e)[Len(s) + 1] = e /\ \A k \in 1..Len(s) : Append(s, e)[k] = s[k]
  BY AppendProperties
<1>2. \A k \in 1..Len(u) : k \in 1..Len(s) \/ k = Len(s) + 1
  OBVIOUS
<1>3. \A k \in 1..Len(u) : Append(s, e)[k] = u[k]
  BY <1>1, <1>2
<1> QED BY <1>1, <1>3, SeqEqual

(* The stores differ, and what happens to the buffers when one is added or *)
(* leaves.                                                                 *)
LEMMA Buffers ==
  /\ Up # Down /\ Up # Yield /\ Down # Yield
  /\ Up[2] = TRUE /\ Down[2] = FALSE
  /\ \A a, b, c : /\ Append(<<>>, a) = <<a>> /\ Append(<<a>>, b) = <<a, b>>
                  /\ Append(<<a, b>>, c) = <<a, b, c>>
                  /\ Head(<<a>>) = a /\ Tail(<<a>>) = <<>>
                  /\ Head(<<a, b>>) = a /\ Tail(<<a, b>>) = <<b>>
                  /\ Head(<<a, b, c>>) = a /\ Tail(<<a, b, c>>) = <<b, c>>
                  /\ <<a>> # <<>> /\ <<a, b>> # <<>> /\ <<a, b, c>> # <<>>
                  /\ <<a>> # <<b, c>>
<1>1. Up # Down /\ Up # Yield /\ Down # Yield /\ Up[2] = TRUE /\ Down[2] = FALSE
  BY DEF Up, Down, Yield
<1>2. ASSUME NEW a, NEW b, NEW c
      PROVE  /\ Append(<<>>, a) = <<a>> /\ Append(<<a>>, b) = <<a, b>>
             /\ Append(<<a, b>>, c) = <<a, b, c>>
  <2>1. Append(<<>>, a) = <<a>>
    OBVIOUS
  <2>2. Append(<<a>>, b) = <<a, b>>
    <3> DEFINE s == <<a>>  u == <<a, b>>  S == {a, b}
    <3>1. s \in Seq(S) /\ u \in Seq(S) /\ b \in S /\ Len(s) = 1 /\ Len(u) = 2 /\ u[2] = b
      OBVIOUS
    <3>2. \A k \in 1..1 : u[k] = s[k]
      <4> TAKE k \in 1..1
      <4>1. k = 1
        OBVIOUS
      <4> QED BY <4>1
    <3> HIDE DEF s, u, S
    <3>3. Len(u) = Len(s) + 1 /\ u[Len(s) + 1] = b /\ \A k \in 1..Len(s) : u[k] = s[k]
      BY <3>1, <3>2
    <3>4. Append(s, b) = u
      BY <3>1, <3>3, AppendIs
    <3> QED BY <3>4 DEF s, u
  <2>3. Append(<<a, b>>, c) = <<a, b, c>>
    <3> DEFINE s == <<a, b>>  u == <<a, b, c>>  S == {a, b, c}
    <3>1. s \in Seq(S) /\ u \in Seq(S) /\ c \in S /\ Len(s) = 2 /\ Len(u) = 3 /\ u[3] = c
      OBVIOUS
    <3>2. \A k \in 1..2 : u[k] = s[k]
      <4> TAKE k \in 1..2
      <4>1. k = 1 \/ k = 2
        OBVIOUS
      <4> QED BY <4>1
    <3> HIDE DEF s, u, S
    <3>3. Len(u) = Len(s) + 1 /\ u[Len(s) + 1] = c /\ \A k \in 1..Len(s) : u[k] = s[k]
      BY <3>1, <3>2
    <3>4. Append(s, c) = u
      BY <3>1, <3>3, AppendIs
    <3> QED BY <3>4 DEF s, u
  <2> QED BY <2>1, <2>2, <2>3
<1>3. ASSUME NEW a, NEW b, NEW c
      PROVE  /\ Head(<<a>>) = a /\ Tail(<<a>>) = <<>>
             /\ Head(<<a, b>>) = a /\ Tail(<<a, b>>) = <<b>>
             /\ Head(<<a, b, c>>) = a /\ Tail(<<a, b, c>>) = <<b, c>>
  OBVIOUS
<1>4. ASSUME NEW a, NEW b, NEW c
      PROVE  <<a>> # <<>> /\ <<a, b>> # <<>> /\ <<a, b, c>> # <<>> /\ <<a>> # <<b, c>>
  OBVIOUS
<1> QED BY <1>1, <1>2, <1>3, <1>4

(* ... and so the buffers that occur. *)
LEMMA BufferSteps ==
  /\ Append(<<>>, Up) = <<Up>> /\ Append(<<Down>>, Up) = <<Down, Up>>
  /\ Append(<<Yield, Down>>, Up) = <<Yield, Down, Up>>
  /\ Append(<<>>, Down) = <<Down>> /\ Append(<<Yield>>, Down) = <<Yield, Down>>
  /\ Append(<<>>, Yield) = <<Yield>>
  /\ Head(<<Up>>) = Up /\ Head(<<Down>>) = Down /\ Head(<<Yield>>) = Yield
  /\ Head(<<Yield, Down>>) = Yield /\ Head(<<Down, Up>>) = Down
  /\ Head(<<Yield, Down, Up>>) = Yield
  /\ Tail(<<Up>>) = <<>> /\ Tail(<<Down>>) = <<>> /\ Tail(<<Yield>>) = <<>>
  /\ Tail(<<Yield, Down>>) = <<Down>> /\ Tail(<<Down, Up>>) = <<Up>>
  /\ Tail(<<Yield, Down, Up>>) = <<Down, Up>>
  /\ <<Up>> # <<>> /\ <<Down, Up>> # <<>> /\ <<Yield, Down, Up>> # <<>>
  /\ <<Down>> # <<>> /\ <<Yield>> # <<>> /\ <<Yield, Down>> # <<>>
<1>1. /\ Append(<<>>, Up) = <<Up>> /\ Append(<<Down>>, Up) = <<Down, Up>>
      /\ Append(<<Yield, Down>>, Up) = <<Yield, Down, Up>>
      /\ Append(<<>>, Down) = <<Down>> /\ Append(<<Yield>>, Down) = <<Yield, Down>>
      /\ Append(<<>>, Yield) = <<Yield>>
  BY Buffers
<1>2. /\ Head(<<Up>>) = Up /\ Head(<<Down>>) = Down /\ Head(<<Yield>>) = Yield
      /\ Head(<<Yield, Down>>) = Yield /\ Head(<<Down, Up>>) = Down
      /\ Head(<<Yield, Down, Up>>) = Yield
  BY Buffers
<1>3. /\ Tail(<<Up>>) = <<>> /\ Tail(<<Down>>) = <<>> /\ Tail(<<Yield>>) = <<>>
      /\ Tail(<<Yield, Down>>) = <<Down>> /\ Tail(<<Down, Up>>) = <<Up>>
      /\ Tail(<<Yield, Down, Up>>) = <<Down, Up>>
  BY Buffers
<1>4. /\ <<Up>> # <<>> /\ <<Down, Up>> # <<>> /\ <<Yield, Down, Up>> # <<>>
      /\ <<Down>> # <<>> /\ <<Yield>> # <<>> /\ <<Yield, Down>> # <<>>
  BY Buffers
<1> QED BY <1>1, <1>2, <1>3, <1>4

LEMMA BufferedYield ==
  ASSUME NEW t \in {0, 1}, buffer[t] \in {<<>>, <<Yield>>}
  PROVE  Pt!Buffered(t) <=> buffer[t] = <<Yield>>
  BY DEF Pt!Buffered, Yield

(* A step of one thread leaves the other one's buffer and place alone. *)
LEMMA OtherKept ==
  ASSUME PetersonInv, NEW t \in {0, 1}, NEW o \in {0, 1}, o = 1 - t,
         g_flag' \in [{0, 1} -> BOOLEAN], g_victim' \in {0, 1},
         buffer' = [r \in {0, 1} |-> buffer'[r]],
         peterson_pc' \in [{0, 1} -> {"out", "fence", "victim", "flag?", "victim?", "in"}],
         g_flag'[o] = g_flag[o], buffer'[o] = buffer[o], peterson_pc'[o] = peterson_pc[o],
         o \in hasty' <=> o \in hasty,
         BufferOK(t)',
         peterson_pc[o] = "in" /\ o \notin hasty => HeldBack(t)',
         peterson_pc'[t] = "in" /\ t \notin hasty' => HeldBack(o)'
  PROVE  PetersonInv'
<1>1. t = 1 - o /\ \A r \in {0, 1} : r = t \/ r = o
  OBVIOUS
<1>2. BufferOK(o)'
  BY DEF PetersonInv, BufferOK
<1>3. \A r \in {0, 1} : BufferOK(r)'
  BY <1>1, <1>2
<1>4. \A r \in {0, 1} : peterson_pc'[r] = "in" /\ r \notin hasty' => HeldBack(1 - r)'
  BY <1>1
<1>5. DOMAIN buffer' = {0, 1}
  OBVIOUS
<1> QED BY <1>3, <1>4, <1>5 DEF PetersonInv

LEMMA PetersonKept ==
  ASSUME PetersonInv, Pt!Next
  PROVE  PetersonInv'
<1> PICK t \in {0, 1} : Pt!SetFlag(t) \/ Pt!Step(t)
  BY DEF Pt!Next, Pt!Both
<1> DEFINE o == 1 - t
<1>o. o \in {0, 1} /\ o # t
  OBVIOUS
<1> HIDE DEF o
<1>b. BufferOK(t) /\ BufferOK(o)
  BY <1>o DEF PetersonInv
<1>h. /\ peterson_pc[t] = "in" /\ t \notin hasty => HeldBack(o)
      /\ peterson_pc[o] = "in" /\ o \notin hasty => HeldBack(t)
  <2>1. t = 1 - o
    BY DEF o
  <2> QED BY <1>o, <2>1 DEF PetersonInv, o
<1>t. /\ g_flag \in [{0, 1} -> BOOLEAN] /\ g_victim \in {0, 1}
      /\ buffer = [r \in {0, 1} |-> buffer[r]]
      /\ peterson_pc \in [{0, 1} -> {"out", "fence", "victim", "flag?", "victim?", "in"}]
  BY DEF PetersonInv
<1>e. o = 1 - t
  BY DEF o
<1>1. CASE Pt!SetFlag(t)
  <2>1. /\ peterson_pc[t] = "out" /\ peterson_pc'[t] = "fence"
        /\ buffer'[t] = Append(buffer[t], Up)
        /\ UNCHANGED <<g_flag, g_victim, hasty>>
        /\ buffer' = [r \in {0, 1} |-> buffer'[r]]
        /\ peterson_pc' \in [{0, 1} -> {"out", "fence", "victim", "flag?", "victim?", "in"}]
        /\ buffer'[o] = buffer[o] /\ peterson_pc'[o] = peterson_pc[o]
    BY <1>1, <1>o, <1>t DEF Pt!SetFlag, Pt!Goto, Pt!Store, Up
  <2>2. BufferOK(t)'
    BY <1>b, <2>1, BufferSteps DEF BufferOK
  <2>3. HeldBack(t)'
    BY <2>1 DEF HeldBack
  <2> QED BY <1>o, <1>t, <1>e, <2>1, <2>2, <2>3, OtherKept
<1>2. CASE Pt!Fence(t)
  <2>1. /\ peterson_pc[t] = "fence" /\ peterson_pc'[t] = "victim"
        /\ buffer[t] = <<>>
        /\ UNCHANGED <<g_flag, g_victim, buffer, hasty>>
        /\ peterson_pc' \in [{0, 1} -> {"out", "fence", "victim", "flag?", "victim?", "in"}]
        /\ peterson_pc'[o] = peterson_pc[o]
    BY <1>2, <1>o, <1>t DEF Pt!Fence, Pt!Goto
  <2>2. BufferOK(t)'
    BY <1>b, <2>1, BufferSteps DEF BufferOK
  <2>3. HeldBack(t)'
    BY <2>1 DEF HeldBack
  <2> QED BY <1>o, <1>t, <1>e, <2>1, <2>2, <2>3, OtherKept
<1>3. CASE Pt!SetVictim(t)
  <2>1. /\ peterson_pc[t] = "victim" /\ peterson_pc'[t] = "flag?"
        /\ buffer'[t] = Append(buffer[t], Yield)
        /\ UNCHANGED <<g_flag, g_victim, hasty>>
        /\ buffer' = [r \in {0, 1} |-> buffer'[r]]
        /\ peterson_pc' \in [{0, 1} -> {"out", "fence", "victim", "flag?", "victim?", "in"}]
        /\ buffer'[o] = buffer[o] /\ peterson_pc'[o] = peterson_pc[o]
    BY <1>3, <1>o, <1>t DEF Pt!SetVictim, Pt!Goto, Pt!Store, Yield
  <2>2. BufferOK(t)'
    BY <1>b, <2>1, BufferSteps DEF BufferOK
  <2>3. HeldBack(t)'
    BY <1>b, <2>1, BufferSteps DEF HeldBack, BufferOK
  <2> QED BY <1>o, <1>t, <1>e, <2>1, <2>2, <2>3, OtherKept
<1>4. CASE Pt!Unlock(t)
  <2>1. /\ peterson_pc[t] = "in" /\ peterson_pc'[t] = "out"
        /\ buffer'[t] = Append(buffer[t], Down)
        /\ UNCHANGED <<g_flag, g_victim, hasty>>
        /\ buffer' = [r \in {0, 1} |-> buffer'[r]]
        /\ peterson_pc' \in [{0, 1} -> {"out", "fence", "victim", "flag?", "victim?", "in"}]
        /\ buffer'[o] = buffer[o] /\ peterson_pc'[o] = peterson_pc[o]
    BY <1>4, <1>o, <1>t DEF Pt!Unlock, Pt!Goto, Pt!Store, Down
  <2>2. BufferOK(t)'
    BY <1>b, <2>1, BufferSteps DEF BufferOK
  <2>3. HeldBack(t)'
    BY <2>1 DEF HeldBack
  <2> QED BY <1>o, <1>t, <1>e, <2>1, <2>2, <2>3, OtherKept
<1>5. CASE Pt!Drain(t)
  <2>1. /\ buffer[t] # <<>> /\ buffer'[t] = Tail(buffer[t])
        /\ UNCHANGED <<peterson_pc, hasty>>
        /\ buffer' = [r \in {0, 1} |-> buffer'[r]] /\ buffer'[o] = buffer[o]
        /\ \/ Head(buffer[t]) = Yield /\ g_victim' = t /\ UNCHANGED g_flag
           \/ /\ Head(buffer[t]) # Yield /\ UNCHANGED g_victim
              /\ g_flag' = [g_flag EXCEPT ![t] = Head(buffer[t])[2]]
    BY <1>5, <1>o, <1>t DEF Pt!Drain, Yield
  <2>2. /\ buffer[t] = <<Up>> => g_flag'[t] = TRUE
        /\ buffer[t] = <<Yield>> => g_victim' = t /\ UNCHANGED g_flag
        /\ g_flag'[o] = g_flag[o]
        /\ g_victim' \in {0, 1}
    BY <1>o, <1>t, <2>1, Buffers, BufferSteps
  <2>3. Head(buffer[t]) \in {Yield, Up, Down} /\ g_flag' \in [{0, 1} -> BOOLEAN]
    <3>1. Head(buffer[t]) \in {Yield, Up, Down}
      BY <1>b, <1>t, <2>1, BufferSteps DEF BufferOK
    <3>2. Up[2] \in BOOLEAN /\ Down[2] \in BOOLEAN
      BY Buffers
    <3> QED BY <1>t, <2>1, <3>1, <3>2
  <2>4. BufferOK(t)'
    <3>1. CASE peterson_pc[t] = "out"
      <4>1. buffer'[t] \in {<<>>, <<Down>>}
        BY <1>b, <2>1, <3>1, BufferSteps DEF BufferOK
      <4> QED BY <2>1, <3>1, <4>1 DEF BufferOK
    <3>2. CASE peterson_pc[t] = "fence"
      <4>1. \/ buffer[t] = <<Up>> /\ buffer'[t] = <<>>
            \/ buffer'[t] \in {<<Up>>, <<Down, Up>>} /\ buffer'[t] # <<>>
        BY <1>b, <2>1, <3>2, BufferSteps DEF BufferOK
      <4> QED BY <2>1, <2>2, <3>2, <4>1 DEF BufferOK
    <3>3. CASE peterson_pc[t] \in {"flag?", "victim?", "in"}
      <4>1. buffer[t] = <<Yield>> /\ buffer'[t] = <<>> /\ g_flag[t]
        BY <1>b, <2>1, <3>3, BufferSteps DEF BufferOK
      <4> QED BY <2>1, <2>2, <3>3, <4>1 DEF BufferOK
    <3>4. CASE peterson_pc[t] = "victim"
      BY <1>b, <2>1, <3>4 DEF BufferOK
    <3> QED BY <1>t, <3>1, <3>2, <3>3, <3>4
  <2>5. peterson_pc[o] = "in" /\ o \notin hasty => HeldBack(t)'
    BY <1>b, <1>h, <1>t, <2>1, <2>2, BufferSteps DEF BufferOK, HeldBack
  <2>6. peterson_pc'[t] = "in" /\ t \notin hasty' => FALSE
    BY <1>b, <2>1 DEF BufferOK
  <2> QED BY <1>o, <1>t, <1>e, <2>1, <2>2, <2>3, <2>4, <2>5, <2>6, OtherKept
<1>6. CASE Pt!TestFlag(t) \/ Pt!TestVictim(t)
  <2>1. /\ peterson_pc[t] \in {"flag?", "victim?"} /\ peterson_pc'[t] \in {"flag?", "victim?", "in"}
        /\ UNCHANGED <<g_flag, g_victim, buffer>>
        /\ peterson_pc' \in [{0, 1} -> {"out", "fence", "victim", "flag?", "victim?", "in"}]
        /\ peterson_pc'[o] = peterson_pc[o] /\ (o \in hasty' <=> o \in hasty)
    BY <1>6, <1>o, <1>t DEF Pt!TestFlag, Pt!TestVictim, Pt!Goto, Pt!Enter
  <2>2. buffer[t] \in {<<>>, <<Yield>>} /\ (Pt!Buffered(t) <=> buffer[t] = <<Yield>>)
    BY <1>b, <2>1, BufferedYield DEF BufferOK
  <2>3. peterson_pc'[t] = "in" =>
          /\ ~g_flag[o] \/ (buffer[t] # <<Yield>> /\ g_victim # t)
          /\ t \notin hasty' => buffer[t] = <<>>
    BY <1>6, <1>t, <1>e, <2>1, <2>2 DEF Pt!TestFlag, Pt!TestVictim, Pt!Goto, Pt!Enter
  <2>4. BufferOK(t)'
    BY <1>b, <2>1, <2>2, <2>3 DEF BufferOK
  <2>5. peterson_pc[o] = "in" /\ o \notin hasty => HeldBack(t)'
    BY <1>b, <1>h, <2>1, <2>3 DEF HeldBack, BufferOK
  <2>6. peterson_pc'[t] = "in" /\ t \notin hasty' => HeldBack(o)'
    <3> SUFFICES ASSUME peterson_pc'[t] = "in", t \notin hasty' PROVE HeldBack(o)'
      OBVIOUS
    <3>1. CASE ~g_flag[o]
      BY <1>b, <1>o, <1>t, <2>1, <3>1 DEF HeldBack, BufferOK
    <3>2. CASE g_victim # t
      <4>1. g_victim = o
        BY <1>o, <1>t, <1>e, <3>2
      <4>2. CASE peterson_pc[o] # "in"
        BY <1>o, <1>t, <2>1, <4>1, <4>2 DEF HeldBack
      <4>3. CASE peterson_pc[o] = "in"
        BY <1>b, <1>h, <2>1, <2>3, <4>3 DEF HeldBack, BufferOK
      <4> QED BY <4>2, <4>3
    <3> QED BY <2>3, <3>1, <3>2
  <2> QED BY <1>o, <1>t, <1>e, <2>1, <2>4, <2>5, <2>6, OtherKept
<1> QED BY <1>1, <1>2, <1>3, <1>4, <1>5, <1>6 DEF Pt!Step

-----------------------------------------------------------------------------
(* The results *)

LabInv == SpinInv /\ RwInv /\ PetersonInv

LEMMA LabInvInit == InitLocks => LabInv
<1> SUFFICES ASSUME InitLocks PROVE LabInv
  OBVIOUS
<1> USE DEF InitLocks
<1>1. SpinInv
  BY NodesAssumption
     DEF Sl!Init, SpinInv, SpinTypes, WordInv, NodesInv, TokenInv, Queued, Active
<1>2. RwInv
  <2>1. ReadersIn = {}
    BY DEF Rw!Init, ReadersIn
  <2>2. IsFiniteSet(ReadersIn) /\ Cardinality(ReadersIn) = 0
    BY <2>1, FS_EmptySet
  <2>3. writing \in BOOLEAN /\ overtaken \in BOOLEAN
    BY DEF Rw!Init
  <2>4. /\ ~writing /\ writer = "out" /\ readAcquires = 0 /\ readReleases = 0
        /\ reader \in [Readers -> {"out", "test", "count", "in"}]
    BY DEF Rw!Init
  <2>5. 0 \in 0..CounterEnd - 1 /\ Ahead(0)
    <3>1. CounterEnd \in Nat /\ CounterEnd > 0
      BY ReadersAssumption, FS_CardinalityType
    <3> QED BY <2>4, <3>1 DEF Ahead
  <2> QED BY <2>2, <2>3, <2>4, <2>5 DEF RwInv, Rw!WriterAlone
<1>3. PetersonInv
  BY DEF Pt!Init, Pt!Both, PetersonInv, BufferOK
<1> QED BY <1>1, <1>2, <1>3 DEF LabInv

LEMMA SpinInvKept ==
  ASSUME SpinInv, Sl!Next \/ UNCHANGED spinVars
  PROVE  SpinInv'
<1>1. CASE Sl!Next
  <2>1. SpinTypes'
    BY <1>1, SpinTypesKept DEF SpinInv
  <2>2. CASE kind = "clh"
    BY <1>1, <2>1, <2>2, QueueKept DEF SpinInv, WordInv
  <2>3. CASE kind # "clh"
    BY <1>1, <2>1, <2>3, WordKept DEF SpinInv
  <2> QED BY <2>2, <2>3
<1>2. CASE UNCHANGED spinVars
  BY <1>2 DEF spinVars, SpinInv, SpinTypes, WordInv, NodesInv, TokenInv, Queued, Active
<1> QED BY <1>1, <1>2

LEMMA LabInvKept ==
  ASSUME LabInv, [NextLocks]_<<which, vars, spinVars, rwVars, petersonVars>>
  PROVE  LabInv'
<1>1. /\ Sl!Next \/ UNCHANGED spinVars
      /\ Rw!Next \/ UNCHANGED rwVars
      /\ Pt!Next \/ UNCHANGED petersonVars
  BY DEF NextLocks
<1>2. SpinInv'
  BY <1>1, SpinInvKept DEF LabInv
<1>3. RwInv'
  <2>1. UNCHANGED rwVars => RwInv'
    BY DEF LabInv, RwInv, rwVars, ReadersIn, Rw!WriterAlone, Ahead
  <2> QED BY <1>1, <2>1, RwKept DEF LabInv
<1>4. PetersonInv'
  <2>1. UNCHANGED petersonVars => PetersonInv'
    BY DEF LabInv, PetersonInv, petersonVars, BufferOK, HeldBack
  <2> QED BY <1>1, <2>1, PetersonKept DEF LabInv
<1> QED BY <1>2, <1>3, <1>4 DEF LabInv

(* The inductive invariant of the labs' locks. *)
THEOREM LabLocksInvariant == SpecLocks => []LabInv
  BY LabInvInit, LabInvKept, PTL DEF SpecLocks

(* At most one thread holds a spin lock of Lab6 and its queue lock never   *)
(* touches a freed node; Lab7's writer is alone unless a reader overtook   *)
(* the flag; Lab3's Lock lets both threads in only through the missing     *)
(* fence.                                                                  *)
THEOREM LabLocksSafe == SpecLocks => []LabLocksExclude
<1>1. LabInv => LabLocksExclude
  <2> SUFFICES ASSUME LabInv PROVE LabLocksExclude
    OBVIOUS
  <2>1. Sl!ExclusionAndNodes
    BY SpinInvExcludes DEF LabInv
  <2>2. Rw!WriterAlone
    BY DEF LabInv, RwInv
  <2>3. Pt!OnlyTheMissingFence
    <3> SUFFICES ASSUME \A t \in {0, 1} : peterson_pc[t] = "in" PROVE hasty # {}
      BY DEF Pt!OnlyTheMissingFence, Pt!Both
    <3>1. 0 \in hasty \/ HeldBack(1)
      BY DEF LabInv, PetersonInv
    <3> QED BY <3>1 DEF HeldBack
  <2> QED BY <2>1, <2>2, <2>3 DEF LabLocksExclude
<1> QED BY <1>1, LabLocksInvariant, PTL

-----------------------------------------------------------------------------
(* The spin locks implement Mutex *)

TheHolder == IF Sl!Holders = {} THEN EMPTY ELSE CHOOSE t \in Threads : t \in Sl!Holders

(* There is one holder, or none. *)
HolderOK ==
  /\ \A t \in Threads : t \in Sl!Holders <=> TheHolder = t
  /\ TheHolder \in Threads \cup {EMPTY}

LEMMA HolderIs == SpinInv => HolderOK
<1> SUFFICES ASSUME SpinInv PROVE HolderOK
  OBVIOUS
<1>1. Sl!Holders \subseteq Threads
  BY DEF Sl!Holders
<1>2. ASSUME NEW s \in Sl!Holders, NEW t \in Sl!Holders PROVE s = t
  BY SpinOneHolder
<1>3. CASE Sl!Holders = {}
  BY <1>3, EmptyAssumption DEF TheHolder, HolderOK
<1>4. CASE Sl!Holders # {}
  <2>1. PICK t \in Threads : t \in Sl!Holders
    BY <1>1, <1>4
  <2>2. TheHolder \in Threads /\ TheHolder \in Sl!Holders
    BY <1>4, <2>1 DEF TheHolder
  <2> QED BY <1>2, <2>2 DEF HolderOK
<1> QED BY <1>3, <1>4

Waiting == {t \in Threads : spin_pc[t] \notin {"out", "in", "free"}}

(* The three things a step may do to the holder and the waiting threads,   *)
(* as Mutex has them.                                                      *)
LEMMA MutexSteps ==
  ASSUME NEW t \in Threads,
         \/ t \notin Waiting /\ t # TheHolder /\ Waiting' = Waiting \cup {t} /\ TheHolder' = TheHolder
         \/ t \in Waiting /\ TheHolder = EMPTY /\ TheHolder' = t /\ Waiting' = Waiting \ {t}
         \/ TheHolder = t /\ TheHolder' = EMPTY /\ Waiting' = Waiting
         \/ TheHolder' = TheHolder /\ Waiting' = Waiting
  PROVE  [Sl!AbstractMutex!Next]_(Sl!AbstractMutex!vars)
  BY DEF Sl!AbstractMutex!Next, Sl!AbstractMutex!vars, Sl!AbstractMutex!Request,
         Sl!AbstractMutex!Acquire, Sl!AbstractMutex!Release, TheHolder, Waiting

(* Who holds after a step that moves one thread. *)
LEMMA SpinStepMaps ==
  ASSUME SpinInv, SpinInv', NEW t \in Threads, Sl!Call(t) \/ Sl!Step(t)
  PROVE  [Sl!AbstractMutex!Next]_(Sl!AbstractMutex!vars)
<1>1. /\ \A s \in Threads : spin_pc[s] \in {"in", "free"} <=> TheHolder = s
      /\ TheHolder \in Threads \cup {EMPTY}
  BY HolderIs DEF HolderOK, Sl!Holders
<1>2. /\ \A s \in Threads : spin_pc'[s] \in {"in", "free"} <=> TheHolder' = s
      /\ TheHolder' \in Threads \cup {EMPTY}
  <2>1. HolderOK'
    BY HolderIs, PTL
  <2> QED BY <2>1 DEF HolderOK, Sl!Holders
<1>3. /\ kind' = kind /\ \A s \in Threads \ {t} : spin_pc'[s] = spin_pc[s]
      /\ spin_pc \in [Threads -> {"out", "look", "swap", "enqueue", "spin", "free", "in"}]
      /\ spin_pc' \in [Threads -> {"out", "look", "swap", "enqueue", "spin", "free", "in"}]
  BY DEF Sl!Call, Sl!Step, Sl!Look, Sl!Swap, Sl!Enqueue, Sl!Spin, Sl!Free, Sl!Unlock,
         Sl!Moves, SpinInv, SpinTypes
<1> USE EmptyAssumption
<1>4. ASSUME spin_pc[t] = "out", spin_pc'[t] \notin {"out", "in", "free"}
      PROVE  t \notin Waiting /\ t # TheHolder /\ Waiting' = Waiting \cup {t} /\ TheHolder' = TheHolder
  BY <1>1, <1>2, <1>3, <1>4 DEF Waiting
<1>5. ASSUME TheHolder = EMPTY, spin_pc[t] \notin {"out", "in", "free"},
             spin_pc'[t] \in {"in", "free"}
      PROVE  t \in Waiting /\ TheHolder' = t /\ Waiting' = Waiting \ {t}
  BY <1>1, <1>2, <1>3, <1>5 DEF Waiting
<1>6. ASSUME spin_pc[t] \in {"in", "free"}, spin_pc'[t] = "out"
      PROVE  TheHolder = t /\ TheHolder' = EMPTY /\ Waiting' = Waiting
  BY <1>1, <1>2, <1>3, <1>6 DEF Waiting
<1>7. ASSUME \/ spin_pc[t] \in {"in", "free"} /\ spin_pc'[t] \in {"in", "free"}
             \/ spin_pc[t] \notin {"out", "in", "free"} /\ spin_pc'[t] \notin {"out", "in", "free"}
      PROVE  TheHolder' = TheHolder /\ Waiting' = Waiting
  BY <1>1, <1>2, <1>3, <1>7 DEF Waiting
<1>8. CASE Sl!Call(t)
  <2>1. spin_pc[t] = "out" /\ spin_pc'[t] \notin {"out", "in", "free"}
    BY <1>3, <1>8 DEF Sl!Call, Sl!Moves
  <2> QED BY <1>4, <2>1, MutexSteps
<1>9. CASE Sl!Look(t) \/ Sl!Free(t)
  <2>1. \/ spin_pc[t] \in {"in", "free"} /\ spin_pc'[t] \in {"in", "free"}
        \/ spin_pc[t] \notin {"out", "in", "free"} /\ spin_pc'[t] \notin {"out", "in", "free"}
    BY <1>3, <1>9 DEF Sl!Look, Sl!Free, Sl!Moves
  <2> QED BY <1>7, <2>1, MutexSteps
<1>10. CASE Sl!Unlock(t)
  <2>1. spin_pc[t] \in {"in", "free"} /\ spin_pc'[t] = "out"
    BY <1>3, <1>10 DEF Sl!Unlock, Sl!Moves
  <2> QED BY <1>6, <2>1, MutexSteps
<1>11. CASE Sl!Swap(t)
  <2>1. spin_pc[t] = "swap"
    BY <1>11 DEF Sl!Swap, Sl!Moves
  <2>2. CASE lock_object = 0
    <3>1. spin_pc'[t] = "in"
      BY <1>3, <1>11, <2>2 DEF Sl!Swap, Sl!Moves
    <3>2. kind # "clh"
      BY <2>1 DEF SpinInv, NodesInv
    <3>3. TheHolder = EMPTY
      BY <1>1, <2>2, <3>2 DEF SpinInv, WordInv
    <3> QED BY <1>5, <2>1, <3>1, <3>3, MutexSteps
  <2>3. CASE lock_object # 0
    <3>1. spin_pc'[t] \in {"swap", "look"}
      BY <1>3, <1>11, <2>3 DEF Sl!Swap, Sl!Moves
    <3> QED BY <1>7, <2>1, <3>1, MutexSteps
  <2> QED BY <2>2, <2>3
<1>12. CASE Sl!Enqueue(t)
  <2>1. spin_pc[t] = "enqueue" /\ spin_pc'[t] = IF tail = EMPTY THEN "in" ELSE "spin"
    BY <1>3, <1>12 DEF Sl!Enqueue, Sl!Moves
  <2>2. kind = "clh"
    BY <2>1 DEF SpinInv, WordInv
  <2>3. CASE tail = EMPTY
    <3>1. TheHolder = EMPTY
      BY <1>1, <2>2, <2>3 DEF SpinInv, TokenInv
    <3> QED BY <1>5, <2>1, <2>3, <3>1, MutexSteps
  <2>4. CASE tail # EMPTY
    BY <1>7, <2>1, <2>4, MutexSteps
  <2> QED BY <2>3, <2>4
<1>13. CASE Sl!Spin(t)
  <2>1. spin_pc[t] = "spin" /\ spin_pc'[t] = "free" /\ node[old_one[t]] # "0"
    BY <1>3, <1>13 DEF Sl!Spin, Sl!Moves
  <2>2. kind = "clh"
    BY <2>1 DEF SpinInv, WordInv
  <2>3. old_one[t] \in Nodes /\ node[old_one[t]] = "1"
    BY <2>1, <2>2 DEF SpinInv, SpinTypes, NodesInv, Queued
  <2>4. ASSUME NEW s \in Threads PROVE spin_pc[s] \notin {"in", "free"}
    <3>1. spin_pc[s] # "in"
      BY <2>2, <2>3 DEF SpinInv, TokenInv
    <3>2. spin_pc[s] = "free" => old_one[s] = old_one[t]
      BY <2>2, <2>3 DEF SpinInv, NodesInv, TokenInv, Queued
    <3>3. spin_pc[s] = "free" => s = t
      BY <2>1, <2>2, <3>2 DEF SpinInv, NodesInv, Queued
    <3> QED BY <2>1, <3>1, <3>3
  <2>5. TheHolder = EMPTY
    BY <1>1, <2>4
  <2> QED BY <1>5, <2>1, <2>5, MutexSteps
<1> QED BY <1>8, <1>9, <1>10, <1>11, <1>12, <1>13 DEF Sl!Step

(* Every step of Lab6's spin locks is a step of Mutex or changes nothing   *)
(* it sees: the winning swap of the lock word, the swap of an empty queue  *)
(* and the look at a predecessor that has unlocked are the acquisitions.   *)
THEOREM SpinLocksRefineMutexSafety ==
  SpecLocks => Sl!AbstractMutex!Init /\ [][Sl!AbstractMutex!Next]_(Sl!AbstractMutex!vars)
<1>1. InitLocks => Sl!AbstractMutex!Init
  BY DEF InitLocks, Sl!Init, Sl!AbstractMutex!Init, Sl!Holders
<1>2. /\ LabInv /\ LabInv' /\ [NextLocks]_<<which, vars, spinVars, rwVars, petersonVars>>
      => [Sl!AbstractMutex!Next]_(Sl!AbstractMutex!vars)
  <2> SUFFICES ASSUME LabInv, LabInv',
                      [NextLocks]_<<which, vars, spinVars, rwVars, petersonVars>>
               PROVE  [Sl!AbstractMutex!Next]_(Sl!AbstractMutex!vars)
    OBVIOUS
  <2>1. CASE Sl!Next
    BY <2>1, SpinStepMaps DEF Sl!Next, LabInv
  <2>2. CASE UNCHANGED spinVars
    BY <2>2 DEF spinVars, Sl!AbstractMutex!vars, Sl!Holders
  <2> QED BY <2>1, <2>2 DEF NextLocks
<1> QED BY <1>1, <1>2, LabLocksInvariant, PTL DEF SpecLocks
=============================================================================
