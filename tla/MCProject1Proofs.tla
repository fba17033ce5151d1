-------------------------- MODULE MCProject1Proofs --------------------------
(***************************************************************************)
(* Project1's main, for any map, houses, workers, threads and vectors: the *)
(* searches never share a vector of the pool and never lose one; the cores *)
(* are divided within the array and evenly; and the HouseWorkers print the *)
(* smallest and the largest distance although most searches stop early.    *)
(* Lab4, for any map and houses: the meetings of the searches give their   *)
(* distances up to one road, and what MakeResult makes of them.            *)
(***************************************************************************)
EXTENDS MCProject1, RoadMapProofs

(* Only vectors that exist are listed or held. *)
PoolTypes ==
  /\ created \in Nat
  /\ free_vector_list \in Seq(1..created)
  /\ held \in [Threads -> SUBSET (1..created)]

(* No vector is listed twice, listed and held, or held by two threads. *)
Apart ==
  /\ \A j, k \in 1..Len(free_vector_list) :
       free_vector_list[j] = free_vector_list[k] => j = k
  /\ \A k \in 1..Len(free_vector_list) : \A t \in Threads : free_vector_list[k] \notin held[t]
  /\ \A s, t \in Threads : \A v \in held[s] : v \in held[t] => s = t

(* No vector is lost. *)
AllThere ==
  \A v \in 1..created : \/ \E k \in 1..Len(free_vector_list) : free_vector_list[k] = v
                        \/ \E t \in Threads : v \in held[t]

PoolInv == PoolTypes /\ Apart /\ AllThere

-----------------------------------------------------------------------------
LEMMA PoolInvInit == Pool!Init => PoolInv
<1> SUFFICES ASSUME Pool!Init PROVE PoolInv
  OBVIOUS
<1>1. PoolTypes
  BY DEF Pool!Init, PoolTypes
<1>2. Apart /\ AllThere
  BY DEF Pool!Init, Apart, AllThere
<1>3. QED
  BY <1>1, <1>2 DEF PoolInv

(* A new vector is made when the list was seen empty; the list may not be  *)
(* empty any more for others, but the vector is new to all of them.        *)
LEMMA AllocNewKeeps ==
  ASSUME PoolInv, NEW t \in Threads, Pool!AllocNew(t)
  PROVE  PoolInv'
<1> USE DEF PoolInv
<1>1. /\ created \in Nat /\ created' = created + 1
      /\ free_vector_list = <<>> /\ free_vector_list' = <<>>
      /\ held' = [held EXCEPT ![t] = held[t] \cup {created + 1}]
  BY DEF Pool!AllocNew, PoolTypes
<1>2. /\ held'[t] = held[t] \cup {created + 1}
      /\ \A s \in Threads : s # t => held'[s] = held[s]
      /\ \A s \in Threads : held[s] \subseteq 1..created
      /\ \A x : x \in 1..created + 1 <=> x \in 1..created \/ x = created + 1
      /\ created + 1 \notin 1..created
  BY <1>1 DEF PoolTypes
<1>3. PoolTypes'
  <2>1. held' \in [Threads -> SUBSET (1..created + 1)]
    BY <1>1, <1>2 DEF PoolTypes
  <2>2. QED
    BY <1>1, <2>1 DEF PoolTypes
<1>4. Apart'
  <2>1. \A r, s \in Threads : \A v \in held'[r] : v \in held'[s] => r = s
    BY <1>2 DEF Apart
  <2>2. QED
    BY <1>1, <2>1 DEF Apart
<1>5. AllThere'
  <2>1. \A v \in 1..created : \E s \in Threads : v \in held[s]
    BY <1>1 DEF AllThere
  <2>2. \A v \in 1..created + 1 : \E s \in Threads : v \in held'[s]
    BY <1>2, <2>1
  <2>3. QED
    BY <1>1, <2>2 DEF AllThere
<1>6. QED
  BY <1>3, <1>4, <1>5

(* The first vector of the list moves to the thread. *)
LEMMA PopFrontKeeps ==
  ASSUME PoolInv, NEW t \in Threads, Pool!PopFront(t)
  PROVE  PoolInv'
<1> USE DEF PoolInv
<1>1. CASE UNCHANGED <<free_vector_list, held>>
  BY <1>1 DEF Pool!PopFront, PoolTypes, Apart, AllThere
<1>2. CASE ~UNCHANGED <<free_vector_list, held>>
  <2> DEFINE list == free_vector_list
             rest == Tail(free_vector_list)
             h == Head(free_vector_list)
  <2>1. /\ list # <<>> /\ free_vector_list' = rest
        /\ held' = [held EXCEPT ![t] = held[t] \cup {h}] /\ created' = created
    BY <1>2 DEF Pool!PopFront, Pool!Rest
  <2>2. /\ rest \in Seq(1..created) /\ h = list[1] /\ h \in 1..created
        /\ Len(list) \in Nat /\ Len(list) > 0 /\ Len(rest) = Len(list) - 1
        /\ \A k \in 1..Len(rest) : rest[k] = list[k + 1]
    BY <2>1, HeadTailProperties DEF PoolTypes
  <2>3. /\ held'[t] = held[t] \cup {h}
        /\ \A s \in Threads : s # t => held'[s] = held[s]
    BY <2>1 DEF PoolTypes
  <2> HIDE DEF rest, h
  <2>4. /\ \A k \in 1..Len(rest) : k + 1 \in 1..Len(list) /\ k + 1 # 1 /\ rest[k] = list[k + 1]
        /\ \A k \in 1..Len(list) : k = 1 \/ (k - 1 \in 1..Len(rest) /\ rest[k - 1] = list[k])
        /\ 1 \in 1..Len(list)
    BY <2>2
  <2>5. \A k \in 1..Len(rest) : rest[k] # h
    BY <2>2, <2>4 DEF Apart
  <2>6. \A s \in Threads : h \notin held[s]
    BY <2>2, <2>4 DEF Apart
  <2>7. PoolTypes'
    <3>1. held' \in [Threads -> SUBSET (1..created)]
      BY <2>1, <2>2 DEF PoolTypes
    <3>2. QED
      BY <2>1, <2>2, <3>1 DEF PoolTypes
  <2>8. Apart'
    <3>1. ASSUME NEW j \in 1..Len(rest), NEW k \in 1..Len(rest), rest[j] = rest[k]
          PROVE  j = k
      <4>1. j + 1 \in 1..Len(list) /\ k + 1 \in 1..Len(list) /\ list[j + 1] = list[k + 1]
        BY <2>4, <3>1
      <4>2. j + 1 = k + 1
        BY <4>1 DEF Apart
      <4>3. QED
        BY <2>2, <4>2
    <3>2. \A k \in 1..Len(rest) : \A s \in Threads : rest[k] \notin held'[s]
      BY <2>3, <2>4, <2>5 DEF Apart
    <3>3. \A r, s \in Threads : \A v \in held'[r] : v \in held'[s] => r = s
      BY <2>3, <2>6 DEF Apart
    <3>4. QED
      BY <2>1, <3>1, <3>2, <3>3 DEF Apart
  <2>9. AllThere'
    <3>1. ASSUME NEW v \in 1..created
          PROVE  \/ \E k \in 1..Len(rest) : rest[k] = v
                 \/ \E s \in Threads : v \in held'[s]
      <4>1. CASE \E s \in Threads : v \in held[s]
        BY <2>3, <4>1
      <4>2. CASE \E k \in 1..Len(list) : list[k] = v
        <5>1. PICK k \in 1..Len(list) : list[k] = v
          BY <4>2
        <5>2. CASE k = 1
          BY <2>2, <2>3, <5>1, <5>2
        <5>3. CASE k # 1
          BY <2>4, <5>1, <5>3
        <5>4. QED
          BY <5>2, <5>3
      <4>3. QED
        BY <4>1, <4>2 DEF AllThere
    <3>2. QED
      BY <2>1, <3>1 DEF AllThere
  <2>10. QED
    BY <2>7, <2>8, <2>9
<1>3. QED
  BY <1>1, <1>2

(* A vector of the thread moves to the end of the list. *)
LEMMA FreeKeeps ==
  ASSUME PoolInv, NEW t \in Threads, Pool!Free(t)
  PROVE  PoolInv'
<1> USE DEF PoolInv
<1>1. PICK v \in held[t] : /\ free_vector_list' = Append(free_vector_list, v)
                           /\ held' = [held EXCEPT ![t] = held[t] \ {v}]
  BY DEF Pool!Free
<1> DEFINE list == free_vector_list
           longer == Append(free_vector_list, v)
<1>2. v \in 1..created /\ created' = created
  BY DEF Pool!Free, PoolTypes
<1>3. /\ longer \in Seq(1..created) /\ Len(list) \in Nat /\ Len(longer) = Len(list) + 1
      /\ \A k \in 1..Len(list) : longer[k] = list[k]
      /\ longer[Len(list) + 1] = v
  BY <1>2, AppendProperties DEF PoolTypes
<1>4. /\ held'[t] = held[t] \ {v}
      /\ \A s \in Threads : s # t => held'[s] = held[s]
  BY <1>1 DEF PoolTypes
<1>5. free_vector_list' = longer
  BY <1>1
<1> HIDE DEF longer
<1>6. /\ \A k \in 1..Len(longer) : \/ k \in 1..Len(list) /\ longer[k] = list[k]
                                   \/ k = Len(list) + 1 /\ longer[k] = v
      /\ \A k \in 1..Len(list) : k \in 1..Len(longer) /\ longer[k] = list[k]
      /\ Len(list) + 1 \in 1..Len(longer)
  BY <1>3
<1>7. \A k \in 1..Len(list) : list[k] # v
  BY DEF Apart
<1>8. PoolTypes'
  <2>1. held' \in [Threads -> SUBSET (1..created)]
    BY <1>1 DEF PoolTypes
  <2>2. QED
    BY <1>2, <1>3, <1>5, <2>1 DEF PoolTypes
<1>9. Apart'
  <2>1. ASSUME NEW j \in 1..Len(longer), NEW k \in 1..Len(longer), longer[j] = longer[k]
        PROVE  j = k
    BY <1>6, <1>7, <2>1 DEF Apart
  <2>2. \A k \in 1..Len(longer) : \A s \in Threads : longer[k] \notin held'[s]
    BY <1>4, <1>6 DEF Apart
  <2>3. \A r, s \in Threads : \A x \in held'[r] : x \in held'[s] => r = s
    BY <1>4 DEF Apart
  <2>4. QED
    BY <1>5, <2>1, <2>2, <2>3 DEF Apart
<1>10. AllThere'
  <2>1. \A x \in 1..created : \/ \E k \in 1..Len(longer) : longer[k] = x
                              \/ \E s \in Threads : x \in held'[s]
    BY <1>3, <1>4, <1>6 DEF AllThere
  <2>2. QED
    BY <1>2, <1>5, <2>1 DEF AllThere
<1>11. QED
  BY <1>8, <1>9, <1>10

LEMMA PoolStep == PoolInv /\ [MCNext]_<<part, splitVars, vars, poolVars, meetingVars, listVars>> => PoolInv'
<1> SUFFICES ASSUME PoolInv, [MCNext]_<<part, splitVars, vars, poolVars, meetingVars, listVars>>
             PROVE  PoolInv'
  OBVIOUS
<1>1. ASSUME NEW t \in Threads, Pool!AllocFromList(t)
      PROVE  PoolInv'
  BY <1>1 DEF Pool!AllocFromList, PoolInv, PoolTypes, Apart, AllThere
<1>2. CASE Pool!Next
  BY <1>1, <1>2, AllocNewKeeps, PopFrontKeeps, FreeKeeps DEF Pool!Next
<1>3. CASE UNCHANGED poolVars
  BY <1>3 DEF poolVars, PoolInv, PoolTypes, Apart, AllThere
<1>4. QED
  BY <1>2, <1>3 DEF MCNext

-----------------------------------------------------------------------------
(* Listed and held vectors stay apart and none is lost, for any number of  *)
(* threads and vectors.                                                    *)
THEOREM PoolInvariant == MCSpec => []PoolInv
<1>1. MCInit => PoolInv
  BY PoolInvInit DEF MCInit
<1>2. QED
  BY <1>1, PoolStep, PTL DEF MCSpec

(* Every vector is in the free list once or with one thread, so no two     *)
(* searches work on the same buffer.                                       *)
THEOREM VectorsInOnePlace == MCSpec => []OnePlaceEach
<1>1. PoolInv => OnePlaceEach
  <2> DEFINE L(v) == {k \in DOMAIN free_vector_list : free_vector_list[k] = v}
             H(v) == {t \in Threads : v \in held[t]}
  <2>0. \A S : Pool!Cardinality(S) = Cardinality(S)
    BY DEF Pool!Cardinality, Cardinality
  <2> SUFFICES ASSUME PoolInv, NEW v \in 1..created
               PROVE  Cardinality(L(v)) + Cardinality(H(v)) = 1
    BY <2>0 DEF OnePlaceEach, Pool!OnePlaceEach
  <2>1. DOMAIN free_vector_list = 1..Len(free_vector_list)
    BY DEF PoolInv, PoolTypes
  <2>2. CASE \E k \in 1..Len(free_vector_list) : free_vector_list[k] = v
    <3>1. PICK k \in 1..Len(free_vector_list) : free_vector_list[k] = v
      BY <2>2
    <3>2. L(v) = {k} /\ H(v) = {}
      BY <2>1, <3>1 DEF PoolInv, Apart
    <3>3. Cardinality({k}) = 1 /\ Cardinality({}) = 0
      BY FS_Singleton, FS_EmptySet
    <3> HIDE DEF L, H
    <3>4. QED
      BY <3>2, <3>3
  <2>3. CASE ~\E k \in 1..Len(free_vector_list) : free_vector_list[k] = v
    <3>1. PICK t \in Threads : v \in held[t]
      BY <2>3 DEF PoolInv, AllThere
    <3>2. L(v) = {} /\ H(v) = {t}
      BY <2>1, <2>3, <3>1 DEF PoolInv, Apart
    <3>3. Cardinality({t}) = 1 /\ Cardinality({}) = 0
      BY FS_Singleton, FS_EmptySet
    <3> HIDE DEF L, H
    <3>4. QED
      BY <3>2, <3>3
  <2>4. QED
    BY <2>2, <2>3
<1>2. QED
  BY <1>1, PoolInvariant, PTL

-----------------------------------------------------------------------------
(* The split of the cores is safe and balanced for every number of cores   *)
(* and houses.                                                             *)

(* What rounding up gives: c threads fit, and less than one per worker is  *)
(* too many.                                                               *)
LEMMA RoundedUp ==
  ASSUME NEW c \in Nat \ {0}, NEW h \in Nat \ {0}
  PROVE  /\ (c + h - 1) \div h \in Nat
         /\ c <= ((c + h - 1) \div h) * h
         /\ ((c + h - 1) \div h) * h < c + h
  <1> DEFINE a == c + h - 1
  <1> DEFINE k == a \div h
  <1>1. a \in Nat /\ h \in Nat /\ h > 0
    OBVIOUS
  <1> HIDE DEF a
  <1>2. k \in Int /\ h * k <= a /\ a < h * k + h
    BY <1>1, SMT
  <1>3. a = c + h - 1
    BY DEF a
  <1> QED
    BY <1>1, <1>2, <1>3, SMT

(* While the loop runs: the first idx workers have lost their thread. *)
LoopInv ==
  split_pc = "loop" =>
    /\ num_cores > num_houses
    /\ num_threads = max_threads_per_worker * num_houses - idx
    /\ num_threads >= num_cores
    /\ num_threads_per_worker_arr =
         [w \in 0..num_houses - 1 |->
            IF w < idx THEN max_threads_per_worker - 1 ELSE max_threads_per_worker]

SplitInv ==
  /\ SplitTypeOK
  /\ split_pc = "resize" => idx = 0
  /\ LoopInv
  /\ Balanced

(* The share of a worker when there are more cores than houses is at least *)
(* two, so that taking one thread leaves one.                              *)
LEMMA ShareAtLeastTwo ==
  ASSUME NEW c \in Nat \ {0}, NEW h \in Nat \ {0}, c > h
  PROVE  (c + h - 1) \div h >= 2
  <1> DEFINE k == (c + h - 1) \div h
  <1>1. k \in Nat /\ c <= k * h
    BY RoundedUp
  <1> HIDE DEF k
  <1>2. k = 0 => k * h = 0
    BY <1>1
  <1>3. k = 1 => k * h = h
    BY <1>1
  <1>4. k >= 2
    BY <1>1, <1>2, <1>3
  <1> QED
    BY <1>4 DEF k

LEMMA SplitInvInit == SplitInit => SplitInv
  BY DEF SplitInit, SplitInv, SplitTypeOK, LoopInv, Balanced

LEMMA SplitInvNext == SplitInv /\ [SplitNext]_splitVars => SplitInv'
  <1> SUFFICES ASSUME SplitInv, [SplitNext]_splitVars PROVE SplitInv'
    OBVIOUS
  <1> DEFINE k == max_threads_per_worker
  <1>c. num_cores \in Nat \ {0} /\ num_houses \in Nat \ {0}
    BY MaxSizeAssumption DEF SplitInv, SplitTypeOK
  <1>k. /\ k \in Nat
        /\ num_cores <= k * num_houses
        /\ k * num_houses < num_cores + num_houses
    BY <1>c, RoundedUp DEF max_threads_per_worker
  <1>2. num_cores > num_houses => k >= 2
    BY <1>c, ShareAtLeastTwo DEF max_threads_per_worker
  <1>s. UNCHANGED <<num_cores, num_houses>> => k' = k
    BY DEF max_threads_per_worker
  <1> HIDE DEF k
  <1>n. k * num_houses \in Nat
    BY <1>c, <1>k
  <1>3. CASE OnePerCore
    BY <1>3, <1>c DEF OnePerCore, SplitInv, SplitTypeOK, LoopInv, Balanced
  <1>4. CASE OnePerHouse
    <2>1. /\ num_threads_per_worker_arr' = [w \in 0..num_houses - 1 |-> k]
          /\ num_threads' = k * num_houses
          /\ idx' = 0 /\ k' = k /\ split_pc' = "loop"
          /\ UNCHANGED <<num_cores, num_houses>> /\ num_cores > num_houses
      BY <1>4, <1>s DEF OnePerHouse, SplitInv, k
    <2>2. SplitTypeOK'
      BY <2>1, <1>k, <1>n DEF SplitInv, SplitTypeOK
    <2>3. num_threads_per_worker_arr' =
            [w \in 0..num_houses - 1 |-> IF w < idx' THEN k' - 1 ELSE k']
      BY <2>1
    <2>4. num_threads' = k' * num_houses' - idx' /\ num_threads' >= num_cores'
      BY <2>1, <1>k, <1>n, <1>c
    <2>5. LoopInv'
      BY <2>1, <2>3, <2>4 DEF LoopInv, k
    <2> QED
      BY <2>1, <2>2, <2>5 DEF SplitInv, Balanced
  <1>5. CASE TakeOne
    <2>0. /\ num_cores > num_houses
          /\ num_threads = k * num_houses - idx
          /\ num_threads > num_cores
          /\ num_threads_per_worker_arr =
               [w \in 0..num_houses - 1 |-> IF w < idx THEN k - 1 ELSE k]
          /\ idx \in Nat /\ num_threads \in Nat
      BY <1>5 DEF TakeOne, TooMany, SplitInv, SplitTypeOK, LoopInv, k
    <2>1. idx \in 0..num_houses - 1
      BY <2>0, <1>c, <1>k, <1>n
    <2>2. /\ num_threads' = num_threads - 1 /\ idx' = idx + 1 /\ k' = k /\ split_pc' = "loop"
          /\ num_threads_per_worker_arr' =
               [num_threads_per_worker_arr EXCEPT ![idx] = @ - 1]
          /\ UNCHANGED <<num_cores, num_houses>>
      BY <1>5, <1>s DEF TakeOne, NextWorker
    <2>3. num_threads_per_worker_arr' =
            [w \in 0..num_houses - 1 |-> IF w < idx' THEN k' - 1 ELSE k']
      BY <2>0, <2>1, <2>2, <1>k, <1>c
    <2>4. num_threads' = k' * num_houses' - idx' /\ num_threads' >= num_cores'
      BY <2>0, <2>2, <1>n, <1>c
    <2>5. LoopInv'
      BY <2>0, <2>2, <2>3, <2>4 DEF LoopInv, k
    <2>6. SplitTypeOK'
      BY <2>0, <2>2, <2>3, <2>4, <1>k, <1>2, <1>c DEF SplitInv, SplitTypeOK
    <2> QED
      BY <2>2, <2>5, <2>6 DEF SplitInv, Balanced
  <1>6. CASE LoopEnd
    <2>1. /\ num_cores > num_houses
          /\ num_threads_per_worker_arr =
               [w \in 0..num_houses - 1 |-> IF w < idx THEN k - 1 ELSE k]
          /\ idx \in Nat
      BY <1>6 DEF LoopEnd, SplitInv, SplitTypeOK, LoopInv, k
    <2>2. \A v, w \in DOMAIN num_threads_per_worker_arr :
            /\ num_threads_per_worker_arr[w] >= 1
            /\ num_threads_per_worker_arr[v] <= num_threads_per_worker_arr[w] + 1
      BY <2>1, <1>2, <1>k, <1>c
    <2> QED
      BY <1>6, <2>2 DEF LoopEnd, SplitInv, SplitTypeOK, LoopInv, Balanced
  <1>7. CASE UNCHANGED splitVars
    BY <1>7 DEF splitVars, SplitInv, SplitTypeOK, LoopInv, Balanced, max_threads_per_worker
  <1> QED
    BY <1>3, <1>4, <1>5, <1>6, <1>7 DEF SplitNext

(* The loop of main that takes threads back never writes past the last     *)
(* HouseWorker, for any number of cores and houses.                        *)
THEOREM NeverOutOfBounds == SplitSpec => []InBounds
  <1>1. SplitInv => InBounds
    <2> SUFFICES ASSUME SplitInv, split_pc = "loop", TooMany
                 PROVE  idx \in DOMAIN num_threads_per_worker_arr
      BY DEF InBounds
    <2> DEFINE k == max_threads_per_worker
    <2>1. num_cores \in Nat \ {0} /\ num_houses \in Nat \ {0}
      BY MaxSizeAssumption DEF SplitInv, SplitTypeOK
    <2>2. k * num_houses < num_cores + num_houses /\ k * num_houses \in Nat
      BY <2>1, RoundedUp DEF max_threads_per_worker
    <2>3. /\ num_threads = k * num_houses - idx /\ num_threads > num_cores
          /\ idx \in Nat /\ DOMAIN num_threads_per_worker_arr = 0..num_houses - 1
      BY DEF SplitInv, SplitTypeOK, LoopInv, TooMany
    <2> HIDE DEF k
    <2> QED
      BY <2>1, <2>2, <2>3
  <1> QED
    BY <1>1, SplitInvInit, SplitInvNext, PTL DEF SplitSpec

(* Every HouseWorker gets at least one thread and none two more than       *)
(* another, for any number of cores and houses.                            *)
THEOREM SplitIsBalanced == SplitSpec => []Balanced
  <1>1. SplitInv => Balanced
    BY DEF SplitInv
  <1> QED
    BY <1>1, SplitInvInit, SplitInvNext, PTL DEF SplitSpec

-----------------------------------------------------------------------------
(* main and the HouseWorkers *)

(* A result that has only seen distances of pairs of houses. *)
Truthful == [min_dist : Distances \cup {INT_MAX}, max_dist : Distances \cup {0}]

SearchTypes ==
  /\ g_house_index \in Nat /\ joined \in 0..num_workers
  /\ visit_bitmap \in [Houses -> SUBSET Houses]
  /\ pc \in [Workers -> {"loop", "take", "level", "visit", "exit"}]
  /\ house \in [Workers -> Houses] /\ check_map \in [Workers -> SUBSET Vertices]
  /\ next_vertices \in [Workers -> Seq(Vertices)] /\ todo \in [Workers -> Seq(Vertices)]
  /\ dist \in [Workers -> Nat]
  /\ found \in [Workers -> Truthful] /\ result_ \in [Workers -> Truthful] /\ result \in Truthful

(* Between two levels a search has found exactly what lies up to dist      *)
(* roads away, and next_vertices is the outermost of it.                   *)
AtLevel(w) ==
  /\ check_map[w] = Ball(house[w], dist[w])
  /\ \A v \in Vertices : Holds(next_vertices[w], v) <=> v \in Sphere(house[w], dist[w])

(* Inside a level it is on the way to the next such state. *)
AtVisit(w) ==
  /\ Ball(house[w], dist[w]) \subseteq check_map[w]
  /\ check_map[w] \subseteq Ball(house[w], dist[w] + 1)
  /\ \A v \in Vertices : Holds(next_vertices[w], v) <=>
                        v \in check_map[w] /\ v \in Sphere(house[w], dist[w] + 1)
  /\ \A v \in Vertices : Holds(todo[w], v) => v \in Ball(house[w], dist[w] + 1)
  /\ \A v \in Sphere(house[w], dist[w] + 1) : v \in check_map[w] \/ Holds(todo[w], v)

(* A house found by a search has met its house; a HouseWorker that does    *)
(* not search has passed on what it found.                                 *)
SearchRight(w) ==
  /\ pc[w] = "level" => AtLevel(w)
  /\ pc[w] = "visit" => AtVisit(w)
  /\ pc[w] \in {"level", "visit"} =>
       \A h \in Houses \cap check_map[w] : h # house[w] => h \in visit_bitmap[house[w]]
  /\ pc[w] \notin {"level", "visit"} => found[w] = NewResult
  /\ pc[w] = "exit" => g_house_index >= NumSearched

(* A house that was taken has met all it can, or is being searched from. *)
TakenRight ==
  \A k \in 1..NumSearched : k <= g_house_index =>
    \/ Reachable(houses[k]) \subseteq visit_bitmap[houses[k]]
    \/ \E w \in Workers : pc[w] \in {"level", "visit"} /\ house[w] = houses[k]

(* main has all that the HouseWorkers it joined have found. *)
JoinedRight ==
  \A w \in 1..joined : /\ pc[w] = "exit"
                       /\ result.min_dist <= result_[w].min_dist
                       /\ result_[w].max_dist <= result.max_dist

SearchInv ==
  /\ SearchTypes /\ TakenRight /\ JoinedRight /\ MetIsRecorded
  /\ \A w \in Workers : SearchRight(w)

LEMMA SearchConstants ==
  /\ Distances \subseteq Nat /\ INT_MAX \in Nat /\ \A d \in Distances : 0 < d /\ d < INT_MAX
  /\ NewResult \in Truthful
  /\ num_workers \in Nat /\ Workers = 1..num_workers /\ 1 \in Workers
  /\ NumSearched \in Nat /\ Len(houses) = NumSearched + 1 /\ houses[1] \in Houses
  /\ \A k \in 1..NumSearched + 1 : houses[k] \in Houses
<1>1. \A g, h \in Houses : Distance[g][h] \in 0..num_vertices
  BY DistanceFacts, HousesAreVertices
<1>2. num_vertices \in Nat /\ INT_MAX \in Nat /\ INT_MAX > num_vertices
      /\ num_workers \in Nat /\ num_workers > 0 /\ houses # <<>> /\ houses \in Seq(Vertices)
  BY MapAssumption, WorkersAssumption
<1>3. \A d \in Distances : d \in Nat /\ 0 < d /\ d < INT_MAX
  BY <1>1, <1>2 DEF Distances
<1>4. NewResult \in Truthful
  BY DEF NewResult, Truthful
<1>5. Len(houses) \in Nat /\ Len(houses) > 0 /\ \A k \in 1..Len(houses) : houses[k] \in Houses
  <2>1. DOMAIN houses = 1..Len(houses) /\ Len(houses) \in Nat
    BY <1>2, LenProperties
  <2>2. Len(houses) # 0
    BY <1>2, EmptySeq
  <2> QED BY <2>1, <2>2 DEF Houses, ToSet
<1> QED BY <1>2, <1>3, <1>4, <1>5 DEF Workers, NumSearched

LEMMA TruthfulNat ==
  ASSUME NEW r \in Truthful
  PROVE  r.min_dist \in Nat /\ r.max_dist \in Nat
<1>1. Distances \subseteq Nat /\ INT_MAX \in Nat
  BY SearchConstants
<1>2. r.min_dist \in Distances \cup {INT_MAX} /\ r.max_dist \in Distances \cup {0}
  BY DEF Truthful
<1>3. 0 \in Nat
  OBVIOUS
<1>4. (\A x \in Distances \cup {INT_MAX} : x \in Nat) /\ (\A x \in Distances \cup {0} : x \in Nat)
  BY <1>1, <1>3
<1> QED BY <1>2, <1>4

(* A result that is updated covers what it covered before and what came.   *)
LEMMA UpdateWidens ==
  ASSUME NEW r \in Truthful, NEW q \in Truthful
  PROVE  /\ Update(r, q) \in Truthful
         /\ Update(r, q).min_dist <= r.min_dist /\ Update(r, q).min_dist <= q.min_dist
         /\ r.max_dist <= Update(r, q).max_dist /\ q.max_dist <= Update(r, q).max_dist
<1>1. r.min_dist \in Nat /\ q.min_dist \in Nat /\ r.max_dist \in Nat /\ q.max_dist \in Nat
  BY TruthfulNat
<1>2. Update(r, q) \in Truthful
  BY DEF Update, Truthful
<1> QED BY <1>1, <1>2 DEF Update

LEMMA UpdateDistWidens ==
  ASSUME NEW r \in Truthful, NEW d \in Distances
  PROVE  /\ UpdateDist(r, d) \in Truthful
         /\ UpdateDist(r, d).min_dist <= r.min_dist /\ UpdateDist(r, d).min_dist <= d
         /\ r.max_dist <= UpdateDist(r, d).max_dist /\ d <= UpdateDist(r, d).max_dist
<1>1. r.min_dist \in Nat /\ r.max_dist \in Nat /\ d \in Nat
  BY TruthfulNat, SearchConstants
<1>2. UpdateDist(r, d) \in Truthful
  BY DEF UpdateDist, Truthful
<1> QED BY <1>1, <1>2 DEF UpdateDist

LEMMA RecordedIs ==
  \A d : Recorded(d) <=> \/ result.min_dist <= d /\ d <= result.max_dist
                         \/ \E w \in Workers : found[w].min_dist <= d /\ d <= found[w].max_dist
                         \/ \E w \in Workers : result_[w].min_dist <= d /\ d <= result_[w].max_dist
  BY DEF Recorded

(* What a search does not change of another one leaves it right. *)
LEMMA OtherRight ==
  ASSUME SearchTypes, SearchTypes', NEW x \in Workers, SearchRight(x),
         pc'[x] = pc[x], house'[x] = house[x], check_map'[x] = check_map[x],
         next_vertices'[x] = next_vertices[x], todo'[x] = todo[x], dist'[x] = dist[x],
         found'[x] = found[x], g_house_index' >= g_house_index,
         \A h \in Houses : visit_bitmap[h] \subseteq visit_bitmap'[h]
  PROVE  SearchRight(x)'
<1>1. house[x] \in Houses
  BY DEF SearchTypes
<1>2. AtLevel(x) => AtLevel(x)'
  BY DEF AtLevel
<1>3. AtVisit(x) => AtVisit(x)'
  BY DEF AtVisit
<1>4. pc[x] = "exit" => g_house_index' >= NumSearched
  BY SearchConstants DEF SearchRight, SearchTypes
<1>5. pc'[x] \in {"level", "visit"} =>
        \A h \in Houses \cap check_map'[x] : h # house'[x] => h \in visit_bitmap'[house'[x]]
  BY <1>1 DEF SearchRight
<1>6. pc'[x] \notin {"level", "visit"} => found'[x] = NewResult
  BY DEF SearchRight
<1> HIDE DEF AtLevel, AtVisit
<1> QED BY <1>2, <1>3, <1>4, <1>5, <1>6 DEF SearchRight

(* The pairs that have met stay recorded, and a new pair is. *)
LEMMA MetKept ==
  ASSUME MetIsRecorded, SearchTypes, \A d \in Nat : Recorded(d) => Recorded(d)',
         \A g, h \in Houses : h \in visit_bitmap'[g] =>
           h \in visit_bitmap[g] \/ Recorded(Distance[g][h])'
  PROVE  MetIsRecorded'
<1>1. \A g, h \in Houses : Distance[g][h] \in Nat
  BY DistanceFacts, HousesAreVertices
<1>2. ASSUME NEW g \in Houses, NEW h \in Houses, h \in visit_bitmap'[g]
      PROVE  Recorded(Distance[g][h])'
  <2>1. PICK d \in Nat : d = Distance[g][h]
    BY <1>1
  <2>2. h \in visit_bitmap[g] => Recorded(d)
    BY <2>1 DEF MetIsRecorded
  <2>3. h \in visit_bitmap[g] => Recorded(d)'
    BY <2>2
  <2>4. CASE h \in visit_bitmap[g]
    BY <2>1, <2>3, <2>4
  <2>5. CASE Recorded(Distance[g][h])'
    BY <2>5
  <2> QED BY <1>2, <2>4, <2>5
<1> QED BY <1>2 DEF MetIsRecorded

(* Nothing is recorded by a result that nothing was added to. *)
LEMMA NothingNew == \A d \in Nat : ~(NewResult.min_dist <= d /\ d <= NewResult.max_dist)
  BY WorkersAssumption, MapAssumption DEF NewResult

(* main has joined nobody who still runs. *)
LEMMA JoinedKept ==
  ASSUME SearchTypes, JoinedRight, NEW w \in Workers, pc[w] # "exit",
         \A x \in Workers : x # w => pc'[x] = pc[x] /\ result_'[x] = result_[x],
         joined' = joined, result' = result
  PROVE  JoinedRight'
<1>1. joined \in 0..num_workers /\ num_workers \in Nat /\ Workers = 1..num_workers
  BY SearchConstants DEF SearchTypes
<1>2. \A x \in 1..joined : x \in Workers /\ pc[x] = "exit"
  BY <1>1 DEF JoinedRight
<1>3. \A x \in 1..joined : pc'[x] = pc[x] /\ result_'[x] = result_[x]
  BY <1>2
<1> QED BY <1>3 DEF JoinedRight

LEMMA SearchInit == Init => SearchInv
<1> SUFFICES ASSUME Init PROVE SearchInv
  OBVIOUS
<1>1. SearchTypes
  <2>1. <<>> \in Seq(Vertices) /\ 0 \in 0..num_workers
    BY EmptySeq, SearchConstants
  <2> QED BY <2>1, SearchConstants DEF Init, SearchTypes
<1>2. TakenRight
  <2>1. \A k \in 1..NumSearched : ~(k <= g_house_index)
    BY SearchConstants DEF Init
  <2> QED BY <2>1 DEF TakenRight
<1>3. JoinedRight
  <2>1. 1..joined = {}
    BY DEF Init
  <2> QED BY <2>1 DEF JoinedRight
<1>4. MetIsRecorded
  BY DEF Init, MetIsRecorded
<1>5. \A w \in Workers : SearchRight(w)
  BY DEF Init, SearchRight
<1> QED BY <1>1, <1>2, <1>3, <1>4, <1>5 DEF SearchInv

(* The unlocked test: a HouseWorker that leaves has seen the counter at    *)
(* its end.                                                                *)
LEMMA LoopTestKeeps ==
  ASSUME SearchInv, NEW w \in Workers, LoopTest(w)
  PROVE  SearchInv'
<1>1. SearchTypes /\ TakenRight /\ JoinedRight /\ MetIsRecorded /\ \A x \in Workers : SearchRight(x)
  BY DEF SearchInv
<1>2. /\ pc[w] = "loop" /\ pc'[w] = IF g_house_index < NumSearched THEN "take" ELSE "exit"
      /\ \A x \in Workers : x # w => pc'[x] = pc[x]
      /\ UNCHANGED <<g_house_index, visit_bitmap, house, check_map, next_vertices, todo, dist, found,
                     result_, joined, result>>
  BY <1>1 DEF LoopTest, Goto, search, SearchTypes
<1>3. SearchTypes'
  BY <1>1, <1>2 DEF LoopTest, Goto, SearchTypes
<1>4. TakenRight'
  <2>1. \A x \in Workers : pc[x] \in {"level", "visit"} => pc'[x] \in {"level", "visit"}
    BY <1>2
  <2> QED BY <1>1, <1>2, <2>1 DEF TakenRight
<1>5. JoinedRight'
  BY <1>1, <1>2, JoinedKept
<1>6. MetIsRecorded'
  BY <1>1, <1>2 DEF MetIsRecorded, Recorded
<1>7. SearchRight(w)'
  <2>1. found'[w] = NewResult
    BY <1>1, <1>2 DEF SearchRight
  <2>2. pc'[w] \in {"take", "exit"} /\ (pc'[w] = "exit" => g_house_index' >= NumSearched)
    BY <1>1, <1>2, SearchConstants DEF SearchTypes
  <2> QED BY <2>1, <2>2 DEF SearchRight
<1>8. ASSUME NEW x \in Workers, x # w PROVE SearchRight(x)'
  <2>1. g_house_index' >= g_house_index /\ \A h \in Houses : visit_bitmap[h] \subseteq visit_bitmap'[h]
    BY <1>1, <1>2 DEF SearchTypes
  <2> QED BY <1>1, <1>2, <1>3, <1>8, <2>1, OtherRight
<1> QED BY <1>3, <1>4, <1>5, <1>6, <1>7, <1>8 DEF SearchInv

(* A house is taken: its search starts with itself.  The counter may pass  *)
(* its end, for HouseWorkers that saw it before the end.                   *)
LEMMA TakeKeeps ==
  ASSUME SearchInv, NEW w \in Workers, Take(w)
  PROVE  SearchInv'
<1>1. SearchTypes /\ TakenRight /\ JoinedRight /\ MetIsRecorded /\ \A x \in Workers : SearchRight(x)
  BY DEF SearchInv
<1>2. /\ pc[w] = "take" /\ g_house_index \in Nat /\ g_house_index' = g_house_index + 1
      /\ \A x \in Workers : x # w => pc'[x] = pc[x]
      /\ UNCHANGED <<visit_bitmap, result_, joined, result>>
  BY <1>1 DEF Take, Goto, SearchTypes
<1>3. found[w] = NewResult
  BY <1>1, <1>2 DEF SearchRight
<1>4. JoinedRight'
  BY <1>1, <1>2, JoinedKept
<1>5. g_house_index' >= g_house_index /\ \A h \in Houses : visit_bitmap[h] \subseteq visit_bitmap'[h]
  BY <1>1, <1>2 DEF SearchTypes
<1>6. CASE g_house_index >= NumSearched
  <2>1. /\ UNCHANGED <<house, check_map, next_vertices, todo, dist, found>>
        /\ pc' = [pc EXCEPT ![w] = "exit"] /\ pc'[w] = "exit"
    BY <1>1, <1>6 DEF Take, Goto, search, SearchTypes
  <2>2. SearchTypes'
    BY <1>1, <1>2, <2>1 DEF SearchTypes
  <2>3. TakenRight'
    <3>1. \A k \in 1..NumSearched : k <= g_house_index' => k <= g_house_index
      BY <1>2, <1>6, SearchConstants
    <3>2. \A x \in Workers : pc[x] \in {"level", "visit"} => pc'[x] \in {"level", "visit"}
      BY <1>2
    <3> QED BY <1>1, <1>2, <2>1, <3>1, <3>2 DEF TakenRight
  <2>4. MetIsRecorded'
    BY <1>1, <1>2, <2>1 DEF MetIsRecorded, Recorded
  <2>5. SearchRight(w)'
    BY <1>2, <1>3, <1>6, <2>1, SearchConstants DEF SearchRight
  <2>6. ASSUME NEW x \in Workers, x # w PROVE SearchRight(x)'
    BY <1>1, <1>2, <1>5, <2>1, <2>2, <2>6, OtherRight
  <2> QED BY <1>4, <2>2, <2>3, <2>4, <2>5, <2>6 DEF SearchInv
<1>7. CASE ~(g_house_index >= NumSearched)
  <2>1. PICK h : h = houses[g_house_index + 1]
    OBVIOUS
  <2>2. h \in Houses /\ h \in Vertices /\ g_house_index + 1 \in 1..NumSearched
    BY <1>2, <1>7, <2>1, SearchConstants, HousesAreVertices
  <2>3. /\ pc' = [pc EXCEPT ![w] = "level"] /\ house' = [house EXCEPT ![w] = h]
        /\ check_map' = [check_map EXCEPT ![w] = {h}]
        /\ next_vertices' = [next_vertices EXCEPT ![w] = <<h>>]
        /\ dist' = [dist EXCEPT ![w] = 0] /\ found' = [found EXCEPT ![w] = NewResult]
        /\ UNCHANGED todo
    BY <1>7, <2>1 DEF Take, Goto
  <2>4. /\ pc'[w] = "level" /\ house'[w] = h /\ check_map'[w] = {h} /\ next_vertices'[w] = <<h>>
        /\ dist'[w] = 0 /\ found' = found
        /\ \A x \in Workers : x # w =>
             /\ house'[x] = house[x] /\ check_map'[x] = check_map[x]
             /\ next_vertices'[x] = next_vertices[x] /\ dist'[x] = dist[x]
    BY <1>1, <1>3, <2>3 DEF SearchTypes
  <2>5. SearchTypes'
    <3>1. <<h>> \in Seq(Vertices)
      BY <2>2
    <3> QED BY <1>1, <1>2, <2>2, <2>3, <3>1, SearchConstants DEF SearchTypes
  <2>6. TakenRight'
    <3> SUFFICES ASSUME NEW k \in 1..NumSearched, k <= g_house_index'
                 PROVE  \/ Reachable(houses[k]) \subseteq visit_bitmap'[houses[k]]
                        \/ \E x \in Workers : pc'[x] \in {"level", "visit"} /\ house'[x] = houses[k]
      BY DEF TakenRight
    <3>1. CASE k = g_house_index + 1
      BY <2>1, <2>4, <3>1
    <3>2. CASE k # g_house_index + 1
      <4>1. k <= g_house_index
        BY <1>2, <3>2, SearchConstants
      <4>2. \A x \in Workers : pc[x] \in {"level", "visit"} => x # w
        BY <1>2
      <4> QED BY <1>1, <1>2, <2>4, <4>1, <4>2 DEF TakenRight
    <3> QED BY <3>1, <3>2
  <2>7. MetIsRecorded'
    BY <1>1, <1>2, <2>4 DEF MetIsRecorded, Recorded
  <2>8. SearchRight(w)'
    <3>1. AtLevel(w)'
      BY <2>2, <2>4, FirstLevel, HousesAreVertices, FewHolds DEF AtLevel
    <3> QED BY <2>4, <3>1 DEF SearchRight
  <2>9. ASSUME NEW x \in Workers, x # w PROVE SearchRight(x)'
    BY <1>1, <1>2, <1>5, <2>3, <2>4, <2>5, <2>9, OtherRight
  <2> QED BY <1>4, <2>5, <2>6, <2>7, <2>8, <2>9 DEF SearchInv
<1> QED BY <1>6, <1>7

(* A level begins with the neighbours of the one before. *)
LEMMA LevelBegins ==
  ASSUME SearchInv, NEW w \in Workers, Level(w),
         visit_bitmap[house[w]] # full_visit_bits(house[w]) /\ next_vertices[w] # <<>>
  PROVE  SearchInv'
<1>1. SearchTypes /\ TakenRight /\ JoinedRight /\ MetIsRecorded /\ \A x \in Workers : SearchRight(x)
  BY DEF SearchInv
<1>2. PICK h, d, vs, ts : /\ h = house[w] /\ d = dist[w] /\ vs = next_vertices[w]
                          /\ ts = NeighborsOf(vs)
  OBVIOUS
<1>3. /\ pc[w] = "level" /\ pc' = [pc EXCEPT ![w] = "visit"]
      /\ todo' = [todo EXCEPT ![w] = ts]
      /\ next_vertices' = [next_vertices EXCEPT ![w] = <<>>]
      /\ UNCHANGED <<house, check_map, dist, found, result_, g_house_index, visit_bitmap, joined, result>>
  BY <1>2 DEF Level, Goto
<1>4. h \in Houses /\ d \in Nat /\ vs \in Seq(Vertices)
  BY <1>1, <1>2 DEF SearchTypes
<1>5. /\ ts \in Seq(Vertices)
      /\ \A v : Holds(ts, v) <=> \E k \in 1..Len(vs) : Adjacent(vs[k], v)
  BY <1>2, <1>4, NeighborsOfHolds
<1>6. SearchTypes'
  <2>1. <<>> \in Seq(Vertices)
    BY EmptySeq
  <2> QED BY <1>1, <1>3, <1>5, <2>1 DEF SearchTypes
<1>7. /\ pc'[w] = "visit" /\ todo'[w] = ts /\ next_vertices'[w] = <<>>
      /\ \A x \in Workers : x # w =>
           pc'[x] = pc[x] /\ todo'[x] = todo[x] /\ next_vertices'[x] = next_vertices[x]
  BY <1>1, <1>3 DEF SearchTypes
<1>8. TakenRight'
  <2>1. \A x \in Workers : pc[x] \in {"level", "visit"} => pc'[x] \in {"level", "visit"}
    BY <1>7
  <2> QED BY <1>1, <1>3, <2>1 DEF TakenRight
<1>9. JoinedRight'
  BY <1>1, <1>3, <1>7, JoinedKept
<1>10. MetIsRecorded'
  BY <1>1, <1>3 DEF MetIsRecorded, Recorded
<1>11. AtVisit(w)'
  <2>1. check_map[w] = Ball(h, d) /\ \A v \in Vertices : Holds(vs, v) <=> v \in Sphere(h, d)
    BY <1>1, <1>2, <1>3 DEF SearchRight, AtLevel
  <2>2. /\ Ball(h, d + 1) = Ball(h, d) \cup Sphere(h, d + 1) /\ Ball(h, d) \cap Sphere(h, d + 1) = {}
        /\ \A u \in Sphere(h, d) : \A v \in Vertices : Adjacent(u, v) => v \in Ball(h, d + 1)
        /\ \A v \in Sphere(h, d + 1) : \E u \in Sphere(h, d) : Adjacent(u, v)
    BY <1>4, NextLevel, HousesAreVertices
  <2>3. ASSUME NEW v \in Vertices, Holds(ts, v) PROVE v \in Ball(h, d + 1)
    <3>1. PICK k \in 1..Len(vs) : Adjacent(vs[k], v)
      BY <1>5, <2>3
    <3>2. Holds(vs, vs[k]) /\ vs[k] \in Vertices
      BY <1>4, HoldsElements DEF Holds
    <3> QED BY <3>1, <3>2, <2>1, <2>2
  <2>4. ASSUME NEW v \in Sphere(h, d + 1) PROVE Holds(ts, v)
    <3>1. PICK u \in Sphere(h, d) : Adjacent(u, v)
      BY <2>2
    <3>2. u \in Vertices
      BY DEF Sphere
    <3>3. PICK k \in 1..Len(vs) : vs[k] = u
      BY <2>1, <3>2 DEF Holds
    <3> QED BY <1>5, <3>1, <3>3
  <2>5. house'[w] = h /\ dist'[w] = d /\ check_map'[w] = Ball(h, d)
    BY <1>2, <1>3, <2>1
  <2> QED BY <1>7, <2>2, <2>3, <2>4, <2>5, FewHolds DEF AtVisit
<1>12. SearchRight(w)'
  BY <1>1, <1>3, <1>7, <1>11 DEF SearchRight
<1>13. ASSUME NEW x \in Workers, x # w PROVE SearchRight(x)'
  <2>1. g_house_index' >= g_house_index /\ \A g \in Houses : visit_bitmap[g] \subseteq visit_bitmap'[g]
    BY <1>1, <1>3 DEF SearchTypes
  <2> QED BY <1>1, <1>3, <1>6, <1>7, <1>13, <2>1, OtherRight
<1> QED BY <1>6, <1>8, <1>9, <1>10, <1>12, <1>13 DEF SearchInv

(* A search returns when its house has met all others or when it has been  *)
(* wherever one can get: either way the house has met all it can.          *)
LEMMA SearchReturns ==
  ASSUME SearchInv, NEW w \in Workers, Level(w),
         ~(visit_bitmap[house[w]] # full_visit_bits(house[w]) /\ next_vertices[w] # <<>>)
  PROVE  SearchInv'
<1>1. SearchTypes /\ TakenRight /\ JoinedRight /\ MetIsRecorded /\ \A x \in Workers : SearchRight(x)
  BY DEF SearchInv
<1>2. PICK h, d, r : h = house[w] /\ d = dist[w] /\ r = Update(result_[w], found[w])
  OBVIOUS
<1>3. /\ pc[w] = "level" /\ pc' = [pc EXCEPT ![w] = "loop"]
      /\ result_' = [result_ EXCEPT ![w] = r]
      /\ check_map' = [check_map EXCEPT ![w] = {}]
      /\ next_vertices' = [next_vertices EXCEPT ![w] = <<>>]
      /\ found' = [found EXCEPT ![w] = NewResult]
      /\ UNCHANGED <<house, todo, dist, g_house_index, visit_bitmap, joined, result>>
  BY <1>2 DEF Level, Goto
<1>4. h \in Houses /\ d \in Nat /\ result_[w] \in Truthful /\ found[w] \in Truthful
  BY <1>1, <1>2 DEF SearchTypes
<1>5. /\ r \in Truthful
      /\ r.min_dist <= result_[w].min_dist /\ r.min_dist <= found[w].min_dist
      /\ result_[w].max_dist <= r.max_dist /\ found[w].max_dist <= r.max_dist
  BY <1>2, <1>4, UpdateWidens
<1>6. SearchTypes'
  <2>1. <<>> \in Seq(Vertices)
    BY EmptySeq
  <2> QED BY <1>1, <1>3, <1>5, <2>1, SearchConstants DEF SearchTypes
<1>7. /\ pc'[w] = "loop" /\ result_'[w] = r /\ found'[w] = NewResult
      /\ \A x \in Workers : x # w =>
           /\ pc'[x] = pc[x] /\ result_'[x] = result_[x] /\ found'[x] = found[x]
           /\ check_map'[x] = check_map[x] /\ next_vertices'[x] = next_vertices[x]
  BY <1>1, <1>3 DEF SearchTypes
<1>8. Reachable(h) \subseteq visit_bitmap[h]
  <2>1. CASE visit_bitmap[h] = full_visit_bits(h)
    BY <2>1 DEF full_visit_bits, Reachable
  <2>2. CASE next_vertices[w] = <<>>
    <3>1. check_map[w] = Ball(h, d) /\ \A v \in Vertices : v \notin Sphere(h, d)
      BY <1>1, <1>2, <1>3, <2>2, FewHolds DEF SearchRight, AtLevel
    <3>2. Sphere(h, d) = {}
      BY <3>1 DEF Sphere
    <3>3. \A v \in Vertices : Distance[h][v] # Unreachable => v \in check_map[w]
      BY <1>4, <3>1, <3>2, LastLevel, HousesAreVertices
    <3>4. \A g \in Houses \cap check_map[w] : g # h => g \in visit_bitmap[h]
      BY <1>1, <1>2, <1>3 DEF SearchRight
    <3> QED BY <3>3, <3>4, HousesAreVertices DEF Reachable
  <2> QED BY <1>2, <2>1, <2>2
<1>9. TakenRight'
  <2> SUFFICES ASSUME NEW k \in 1..NumSearched, k <= g_house_index'
               PROVE  \/ Reachable(houses[k]) \subseteq visit_bitmap'[houses[k]]
                      \/ \E x \in Workers : pc'[x] \in {"level", "visit"} /\ house'[x] = houses[k]
    BY DEF TakenRight
  <2>1. CASE houses[k] = h
    BY <1>3, <1>8, <2>1
  <2>2. CASE houses[k] # h
    BY <1>1, <1>2, <1>3, <1>7, <2>2 DEF TakenRight
  <2> QED BY <2>1, <2>2
<1>10. JoinedRight'
  BY <1>1, <1>3, <1>7, JoinedKept
<1>11. MetIsRecorded'
  <2>1. ASSUME NEW e \in Nat, Recorded(e) PROVE Recorded(e)'
    <3>1. \/ result.min_dist <= e /\ e <= result.max_dist
          \/ \E x \in Workers : found[x].min_dist <= e /\ e <= found[x].max_dist
          \/ \E x \in Workers : result_[x].min_dist <= e /\ e <= result_[x].max_dist
      BY <2>1, RecordedIs
    <3>2. CASE result.min_dist <= e /\ e <= result.max_dist
      BY <1>3, <3>2 DEF Recorded
    <3>3. r.min_dist \in Nat /\ r.max_dist \in Nat /\ found[w].min_dist \in Nat
          /\ found[w].max_dist \in Nat /\ result_[w].min_dist \in Nat /\ result_[w].max_dist \in Nat
      BY <1>4, <1>5, TruthfulNat
    <3>4. (r.min_dist <= e /\ e <= r.max_dist) => Recorded(e)'
      BY <1>7 DEF Recorded
    <3>5. ASSUME NEW x \in Workers, found[x].min_dist <= e /\ e <= found[x].max_dist
          PROVE  Recorded(e)'
      <4>1. CASE x = w
        BY <1>5, <3>3, <3>4, <3>5, <4>1
      <4>2. CASE x # w
        BY <1>7, <3>5, <4>2 DEF Recorded
      <4> QED BY <4>1, <4>2
    <3>6. ASSUME NEW x \in Workers, result_[x].min_dist <= e /\ e <= result_[x].max_dist
          PROVE  Recorded(e)'
      <4>1. CASE x = w
        BY <1>5, <3>3, <3>4, <3>6, <4>1
      <4>2. CASE x # w
        BY <1>7, <3>6, <4>2 DEF Recorded
      <4> QED BY <4>1, <4>2
    <3> QED BY <3>1, <3>2, <3>5, <3>6
  <2> QED BY <1>1, <1>3, <2>1, MetKept
<1>12. SearchRight(w)'
  BY <1>7 DEF SearchRight
<1>13. ASSUME NEW x \in Workers, x # w PROVE SearchRight(x)'
  <2>1. g_house_index' >= g_house_index /\ \A g \in Houses : visit_bitmap[g] \subseteq visit_bitmap'[g]
    BY <1>1, <1>3 DEF SearchTypes
  <2> QED BY <1>1, <1>3, <1>6, <1>7, <1>13, <2>1, OtherRight
<1> QED BY <1>6, <1>9, <1>10, <1>11, <1>12, <1>13 DEF SearchInv

(* The end of a level. *)
LEMMA LevelEnds ==
  ASSUME SearchInv, NEW w \in Workers, Visit(w), todo[w] = <<>>
  PROVE  SearchInv'
<1>1. SearchTypes /\ TakenRight /\ JoinedRight /\ MetIsRecorded /\ \A x \in Workers : SearchRight(x)
  BY DEF SearchInv
<1>2. /\ pc[w] = "visit" /\ pc' = [pc EXCEPT ![w] = "level"]
      /\ dist' = [dist EXCEPT ![w] = dist[w] + 1]
      /\ UNCHANGED <<todo, check_map, next_vertices, found, visit_bitmap, g_house_index, house, result_,
                     joined, result>>
  BY DEF Visit, Goto
<1>3. PICK h, d : h = house[w] /\ d = dist[w]
  OBVIOUS
<1>4. h \in Houses /\ d \in Nat
  BY <1>1, <1>3 DEF SearchTypes
<1>5. SearchTypes'
  BY <1>1, <1>2 DEF SearchTypes
<1>6. /\ pc'[w] = "level" /\ dist'[w] = d + 1
      /\ \A x \in Workers : x # w => pc'[x] = pc[x] /\ dist'[x] = dist[x]
  BY <1>1, <1>2, <1>3 DEF SearchTypes
<1>7. TakenRight'
  <2>1. \A x \in Workers : pc[x] \in {"level", "visit"} => pc'[x] \in {"level", "visit"}
    BY <1>6
  <2> QED BY <1>1, <1>2, <2>1 DEF TakenRight
<1>8. JoinedRight'
  BY <1>1, <1>2, <1>6, JoinedKept
<1>9. MetIsRecorded'
  BY <1>1, <1>2 DEF MetIsRecorded, Recorded
<1>10. AtLevel(w)'
  <2>1. /\ Ball(h, d) \subseteq check_map[w] /\ check_map[w] \subseteq Ball(h, d + 1)
        /\ \A v \in Vertices : Holds(next_vertices[w], v) <=> v \in check_map[w] /\ v \in Sphere(h, d + 1)
        /\ \A v \in Sphere(h, d + 1) : v \in check_map[w]
    BY <1>1, <1>2, <1>3, FewHolds DEF SearchRight, AtVisit
  <2>2. Ball(h, d + 1) = Ball(h, d) \cup Sphere(h, d + 1)
    BY <1>4, NextLevel, HousesAreVertices
  <2>3. check_map[w] = Ball(h, d + 1)
    BY <2>1, <2>2
  <2>4. check_map'[w] = check_map[w] /\ next_vertices'[w] = next_vertices[w] /\ house'[w] = h
    BY <1>2, <1>3
  <2> QED BY <1>6, <2>1, <2>3, <2>4 DEF AtLevel
<1>11. SearchRight(w)'
  BY <1>1, <1>2, <1>6, <1>10 DEF SearchRight
<1>12. ASSUME NEW x \in Workers, x # w PROVE SearchRight(x)'
  <2>1. g_house_index' >= g_house_index /\ \A g \in Houses : visit_bitmap[g] \subseteq visit_bitmap'[g]
    BY <1>1, <1>2 DEF SearchTypes
  <2> QED BY <1>1, <1>2, <1>5, <1>6, <1>12, <2>1, OtherRight
<1> QED BY <1>5, <1>7, <1>8, <1>9, <1>11, <1>12 DEF SearchInv

(* A neighbour that was found before. *)
LEMMA OldNeighbour ==
  ASSUME SearchInv, NEW w \in Workers, Visit(w), todo[w] # <<>>, Head(todo[w]) \in check_map[w]
  PROVE  SearchInv'
<1>1. SearchTypes /\ TakenRight /\ JoinedRight /\ MetIsRecorded /\ \A x \in Workers : SearchRight(x)
  BY DEF SearchInv
<1>2. PICK ts, u : ts = Tail(todo[w]) /\ u = Head(todo[w])
  OBVIOUS
<1>3. /\ pc[w] = "visit" /\ pc' = [pc EXCEPT ![w] = "visit"]
      /\ todo' = [todo EXCEPT ![w] = ts]
      /\ UNCHANGED <<dist, check_map, next_vertices, found, visit_bitmap, g_house_index, house, result_,
                     joined, result>>
  BY <1>2 DEF Visit, Goto
<1>4. todo[w] \in Seq(Vertices)
  BY <1>1 DEF SearchTypes
<1>5. ts \in Seq(Vertices) /\ \A v : Holds(todo[w], v) <=> v = u \/ Holds(ts, v)
  BY <1>2, <1>4, TailHolds
<1>6. SearchTypes'
  BY <1>1, <1>3, <1>5 DEF SearchTypes
<1>7. pc' = pc /\ todo'[w] = ts /\ \A x \in Workers : x # w => todo'[x] = todo[x]
  BY <1>1, <1>3 DEF SearchTypes
<1>8. TakenRight' /\ JoinedRight' /\ MetIsRecorded'
  BY <1>1, <1>3, <1>7 DEF TakenRight, JoinedRight, MetIsRecorded, Recorded
<1>9. AtVisit(w)'
  <2>1. AtVisit(w)
    BY <1>1, <1>3 DEF SearchRight
  <2>2. /\ \A v \in Vertices : Holds(todo'[w], v) => v \in Ball(house[w], dist[w] + 1)
        /\ \A v \in Sphere(house[w], dist[w] + 1) : v \in check_map[w] \/ Holds(todo'[w], v)
    BY <1>2, <1>5, <1>7, <2>1 DEF AtVisit
  <2> QED BY <1>3, <2>1, <2>2 DEF AtVisit
<1>10. SearchRight(w)'
  BY <1>1, <1>3, <1>7, <1>9 DEF SearchRight
<1>11. ASSUME NEW x \in Workers, x # w PROVE SearchRight(x)'
  <2>1. g_house_index' >= g_house_index /\ \A g \in Houses : visit_bitmap[g] \subseteq visit_bitmap'[g]
    BY <1>1, <1>3 DEF SearchTypes
  <2> QED BY <1>1, <1>3, <1>6, <1>7, <1>11, <2>1, OtherRight
<1> QED BY <1>6, <1>8, <1>10, <1>11 DEF SearchInv

(* A new neighbour is of the next level; when it is a house, its distance  *)
(* is recorded and the two houses have met.                                *)
LEMMA NewNeighbour ==
  ASSUME SearchInv, NEW w \in Workers, Visit(w), todo[w] # <<>>, Head(todo[w]) \notin check_map[w]
  PROVE  SearchInv'
<1>1. SearchTypes /\ TakenRight /\ JoinedRight /\ MetIsRecorded /\ \A x \in Workers : SearchRight(x)
  BY DEF SearchInv
<1>2. PICK ts, u, ns, h, d : /\ ts = Tail(todo[w]) /\ u = Head(todo[w]) /\ h = house[w] /\ d = dist[w]
                             /\ ns = Append(next_vertices[w], u)
  OBVIOUS
<1>3. /\ pc[w] = "visit" /\ pc' = [pc EXCEPT ![w] = "visit"] /\ u \notin check_map[w]
      /\ todo' = [todo EXCEPT ![w] = ts]
      /\ check_map' = [check_map EXCEPT ![w] = check_map[w] \cup {u}]
      /\ next_vertices' = [next_vertices EXCEPT ![w] = ns]
      /\ UNCHANGED <<dist, g_house_index, house, result_, joined, result>>
      /\ IF u \in Houses
           THEN /\ found' = [found EXCEPT ![w] = UpdateDist(found[w], d + 1)]
                /\ visit_bitmap' = Met(h, u)
           ELSE UNCHANGED <<found, visit_bitmap>>
  BY <1>2 DEF Visit, Goto, Discover
<1>4. todo[w] \in Seq(Vertices) /\ next_vertices[w] \in Seq(Vertices) /\ h \in Houses /\ d \in Nat
      /\ check_map[w] \subseteq Vertices /\ found[w] \in Truthful
  BY <1>1, <1>2 DEF SearchTypes
<1>5. ts \in Seq(Vertices) /\ u \in Vertices /\ \A v : Holds(todo[w], v) <=> v = u \/ Holds(ts, v)
  BY <1>2, <1>4, TailHolds
<1>6. ns \in Seq(Vertices) /\ \A v : Holds(ns, v) <=> Holds(next_vertices[w], v) \/ v = u
  BY <1>2, <1>4, <1>5, AppendHolds
<1>7. AtVisit(w)
  BY <1>1, <1>3 DEF SearchRight
<1>8. u \in Sphere(h, d + 1) /\ u \in Ball(h, d + 1)
  <2>1. u \in Ball(h, d + 1) /\ u \notin Ball(h, d)
    BY <1>2, <1>3, <1>5, <1>7 DEF AtVisit
  <2>2. Ball(h, d + 1) = Ball(h, d) \cup Sphere(h, d + 1)
    BY <1>4, NextLevel, HousesAreVertices
  <2> QED BY <2>1, <2>2
<1>9. Distance[h][u] = d + 1 /\ d + 1 # Unreachable /\ u # h
  <2>1. Distance[h][u] = d + 1 /\ d + 1 # Unreachable
    BY <1>8 DEF Sphere
  <2>2. Distance[h][h] = 0
    BY <1>4, DistanceFacts, HousesAreVertices
  <2> QED BY <1>4, <2>1, <2>2
<1>10. u \in Houses =>
         /\ d + 1 \in Distances /\ UpdateDist(found[w], d + 1) \in Truthful
         /\ UpdateDist(found[w], d + 1).min_dist <= found[w].min_dist
         /\ UpdateDist(found[w], d + 1).min_dist <= d + 1
         /\ found[w].max_dist <= UpdateDist(found[w], d + 1).max_dist
         /\ d + 1 <= UpdateDist(found[w], d + 1).max_dist
  <2>1. u \in Houses => d + 1 \in Distances
    <3>1. d + 1 # 0
      BY <1>4
    <3> QED BY <1>4, <1>9, <3>1 DEF Distances
  <2> QED BY <1>4, <2>1, UpdateDistWidens
<1>11. /\ visit_bitmap' \in [Houses -> SUBSET Houses]
       /\ \A g \in Houses : visit_bitmap[g] \subseteq visit_bitmap'[g]
       /\ u \in Houses => u \in visit_bitmap'[h]
       /\ \A f, g \in Houses : g \in visit_bitmap'[f] =>
            g \in visit_bitmap[f] \/ (u \in Houses /\ f = h /\ g = u) \/ (u \in Houses /\ f = u /\ g = h)
  <2>1. CASE u \in Houses
    <3>1. visit_bitmap' = [visit_bitmap EXCEPT ![h] = visit_bitmap[h] \cup {u}, ![u] = visit_bitmap[u] \cup {h}]
      BY <1>3, <2>1 DEF Met
    <3>2. visit_bitmap \in [Houses -> SUBSET Houses]
      BY <1>1 DEF SearchTypes
    <3>3. /\ visit_bitmap' \in [Houses -> SUBSET Houses]
          /\ visit_bitmap'[h] = visit_bitmap[h] \cup {u} /\ visit_bitmap'[u] = visit_bitmap[u] \cup {h}
          /\ \A g \in Houses : g # h /\ g # u => visit_bitmap'[g] = visit_bitmap[g]
      BY <1>4, <1>9, <2>1, <3>1, <3>2
    <3> QED BY <2>1, <3>3
  <2>2. CASE u \notin Houses
    BY <1>1, <1>3, <2>2 DEF SearchTypes
  <2> QED BY <2>1, <2>2
<1>12. found' \in [Workers -> Truthful] /\ \A x \in Workers : x # w => found'[x] = found[x]
  <2>1. found \in [Workers -> Truthful]
    BY <1>1 DEF SearchTypes
  <2>2. CASE u \in Houses
    BY <1>3, <1>10, <2>1, <2>2
  <2>3. CASE u \notin Houses
    BY <1>3, <2>1, <2>3
  <2> QED BY <2>2, <2>3
<1>13. SearchTypes'
  BY <1>1, <1>3, <1>5, <1>6, <1>11, <1>12 DEF SearchTypes
<1>14. /\ pc' = pc /\ todo'[w] = ts /\ check_map'[w] = check_map[w] \cup {u} /\ next_vertices'[w] = ns
       /\ house'[w] = h /\ dist'[w] = d
       /\ \A x \in Workers : x # w =>
            todo'[x] = todo[x] /\ check_map'[x] = check_map[x] /\ next_vertices'[x] = next_vertices[x]
  BY <1>1, <1>2, <1>3 DEF SearchTypes
<1>15. TakenRight'
  <2>1. \A k \in 1..NumSearched : houses[k] \in Houses
    BY SearchConstants
  <2> QED BY <1>1, <1>3, <1>11, <1>14, <2>1 DEF TakenRight
<1>16. JoinedRight'
  BY <1>1, <1>3, <1>14, JoinedKept
<1>17. MetIsRecorded'
  <2>1. ASSUME NEW e \in Nat, Recorded(e) PROVE Recorded(e)'
    <3>1. CASE \E x \in Workers : found[x].min_dist <= e /\ e <= found[x].max_dist
      <4>1. PICK x \in Workers : found[x].min_dist <= e /\ e <= found[x].max_dist
        BY <3>1
      <4>2. found'[x] \in Truthful /\ found[x] \in Truthful
        BY <1>1, <1>12 DEF SearchTypes
      <4>3. found'[x].min_dist <= found[x].min_dist /\ found[x].max_dist <= found'[x].max_dist
        <5>1. /\ found[x].min_dist \in Nat /\ found[x].max_dist \in Nat
          BY <4>2, TruthfulNat
        <5>2. CASE x = w /\ u \in Houses
          <6>1. found'[w] = UpdateDist(found[w], d + 1)
            BY <1>1, <1>3, <5>2 DEF SearchTypes
          <6> QED BY <1>10, <5>2, <6>1
        <5>3. CASE ~(x = w /\ u \in Houses)
          <6>1. found'[x] = found[x]
            BY <1>3, <1>12, <5>3
          <6> QED BY <5>1, <6>1
        <5> QED BY <5>2, <5>3
      <4>4. /\ found[x].min_dist \in Nat /\ found[x].max_dist \in Nat
            /\ found'[x].min_dist \in Nat /\ found'[x].max_dist \in Nat
        BY <4>2, TruthfulNat
      <4>5. found'[x].min_dist <= e /\ e <= found'[x].max_dist
        BY <4>1, <4>3, <4>4
      <4> QED BY <4>5 DEF Recorded
    <3>2. CASE ~\E x \in Workers : found[x].min_dist <= e /\ e <= found[x].max_dist
      BY <1>3, <2>1, <3>2 DEF Recorded
    <3> QED BY <3>1, <3>2
  <2>2. u \in Houses => Recorded(Distance[h][u])' /\ Recorded(Distance[u][h])'
    <3> SUFFICES ASSUME u \in Houses PROVE Recorded(Distance[h][u])' /\ Recorded(Distance[u][h])'
      OBVIOUS
    <3>1. Distance[u][h] = d + 1 /\ Distance[h][u] = d + 1
      BY <1>4, <1>9, DistanceSymmetric, HousesAreVertices
    <3>2. found'[w].min_dist <= d + 1 /\ d + 1 <= found'[w].max_dist
      <4>1. found'[w] = UpdateDist(found[w], d + 1)
        BY <1>1, <1>3 DEF SearchTypes
      <4> QED BY <1>10, <4>1
    <3>3. found'[w].min_dist <= Distance[h][u] /\ Distance[h][u] <= found'[w].max_dist
          /\ found'[w].min_dist <= Distance[u][h] /\ Distance[u][h] <= found'[w].max_dist
      BY <3>1, <3>2
    <3> QED BY <3>3 DEF Recorded
  <2>3. \A f, g \in Houses : g \in visit_bitmap'[f] => g \in visit_bitmap[f] \/ Recorded(Distance[f][g])'
    BY <1>11, <2>2
  <2> QED BY <1>1, <2>1, <2>3, MetKept
<1>18. AtVisit(w)'
  <2>1. /\ Ball(h, d) \subseteq check_map'[w] /\ check_map'[w] \subseteq Ball(h, d + 1)
    BY <1>2, <1>7, <1>8, <1>14 DEF AtVisit
  <2>2. \A v \in Vertices : Holds(next_vertices'[w], v) <=> v \in check_map'[w] /\ v \in Sphere(h, d + 1)
    BY <1>2, <1>6, <1>7, <1>8, <1>14 DEF AtVisit
  <2>3. /\ \A v \in Vertices : Holds(todo'[w], v) => v \in Ball(h, d + 1)
        /\ \A v \in Sphere(h, d + 1) : v \in check_map'[w] \/ Holds(todo'[w], v)
    BY <1>2, <1>5, <1>7, <1>14 DEF AtVisit
  <2> QED BY <1>14, <2>1, <2>2, <2>3 DEF AtVisit
<1>19. SearchRight(w)'
  <2>1. \A g \in Houses \cap check_map'[w] : g # h => g \in visit_bitmap'[h]
    <3>1. \A g \in Houses \cap check_map[w] : g # h => g \in visit_bitmap[h]
      BY <1>1, <1>2, <1>3 DEF SearchRight
    <3> QED BY <1>4, <1>11, <1>14, <3>1
  <2> QED BY <1>3, <1>14, <1>18, <2>1 DEF SearchRight
<1>20. ASSUME NEW x \in Workers, x # w PROVE SearchRight(x)'
  <2>1. g_house_index' >= g_house_index /\ house'[x] = house[x] /\ dist'[x] = dist[x]
    BY <1>1, <1>3 DEF SearchTypes
  <2> QED BY <1>1, <1>11, <1>12, <1>13, <1>14, <1>20, <2>1, OtherRight
<1> QED BY <1>13, <1>15, <1>16, <1>17, <1>19, <1>20 DEF SearchInv

LEMMA JoinKeeps ==
  ASSUME SearchInv, Join
  PROVE  SearchInv'
<1>1. SearchTypes /\ TakenRight /\ JoinedRight /\ MetIsRecorded /\ \A x \in Workers : SearchRight(x)
  BY DEF SearchInv
<1>2. PICK j, r : j = joined + 1 /\ r = Update(result, result_[j])
  OBVIOUS
<1>3. /\ joined < num_workers /\ pc[j] = "exit" /\ joined' = j /\ result' = r
      /\ UNCHANGED <<g_house_index, visit_bitmap, pc, house, check_map, next_vertices, todo, dist, found,
                     result_>>
  BY <1>2 DEF Join, search
<1>4. joined \in Nat /\ num_workers \in Nat /\ Workers = 1..num_workers /\ j \in Workers /\ j \in 0..num_workers
      /\ \A x : x \in 1..j <=> x \in 1..joined \/ x = j
  <2>1. joined \in 0..num_workers /\ num_workers \in Nat /\ Workers = 1..num_workers
    BY <1>1, SearchConstants DEF SearchTypes
  <2> QED BY <1>2, <1>3, <2>1
<1>5. result \in Truthful /\ \A x \in Workers : result_[x] \in Truthful
  BY <1>1 DEF SearchTypes
<1>6. /\ r \in Truthful
      /\ r.min_dist <= result.min_dist /\ r.min_dist <= result_[j].min_dist
      /\ result.max_dist <= r.max_dist /\ result_[j].max_dist <= r.max_dist
  BY <1>2, <1>4, <1>5, UpdateWidens
<1>7. /\ r.min_dist \in Nat /\ r.max_dist \in Nat /\ result.min_dist \in Nat /\ result.max_dist \in Nat
      /\ \A x \in Workers : result_[x].min_dist \in Nat /\ result_[x].max_dist \in Nat
  BY <1>5, <1>6, TruthfulNat
<1>8. SearchTypes'
  BY <1>1, <1>3, <1>4, <1>6 DEF SearchTypes
<1>9. TakenRight'
  BY <1>1, <1>3 DEF TakenRight
<1>10. JoinedRight'
  <2>1. ASSUME NEW x \in 1..j
        PROVE  pc[x] = "exit" /\ r.min_dist <= result_[x].min_dist /\ result_[x].max_dist <= r.max_dist
    <3>1. CASE x = j
      BY <1>3, <1>6, <3>1
    <3>2. CASE x # j
      <4>1. x \in 1..joined /\ x \in Workers
        <5>1. x \in 1..joined
          BY <1>4, <3>2
        <5> QED BY <1>3, <1>4, <5>1
      <4>2. pc[x] = "exit" /\ result.min_dist <= result_[x].min_dist /\ result_[x].max_dist <= result.max_dist
        BY <1>1, <4>1 DEF JoinedRight
      <4> QED BY <1>6, <1>7, <4>1, <4>2
    <3> QED BY <3>1, <3>2
  <2> QED BY <1>3, <2>1 DEF JoinedRight
<1>11. MetIsRecorded'
  <2>1. ASSUME NEW e \in Nat, Recorded(e) PROVE Recorded(e)'
    <3>1. CASE result.min_dist <= e /\ e <= result.max_dist
      <4>1. r.min_dist <= e /\ e <= r.max_dist
        BY <1>6, <1>7, <3>1
      <4> QED BY <1>3, <4>1 DEF Recorded
    <3>2. CASE ~(result.min_dist <= e /\ e <= result.max_dist)
      BY <1>3, <2>1, <3>2 DEF Recorded
    <3> QED BY <3>1, <3>2
  <2> QED BY <1>1, <1>3, <2>1, MetKept
<1>12. ASSUME NEW x \in Workers PROVE SearchRight(x)'
  <2>1. g_house_index' >= g_house_index /\ \A g \in Houses : visit_bitmap[g] \subseteq visit_bitmap'[g]
    BY <1>1, <1>3 DEF SearchTypes
  <2> QED BY <1>1, <1>3, <1>8, <2>1, OtherRight
<1> QED BY <1>8, <1>9, <1>10, <1>11, <1>12 DEF SearchInv

LEMMA SearchStep == SearchInv /\ [Next]_vars => SearchInv'
<1> SUFFICES ASSUME SearchInv, [Next]_vars PROVE SearchInv'
  OBVIOUS
<1>1. CASE Join
  BY <1>1, JoinKeeps
<1>2. ASSUME NEW w \in Workers, LoopTest(w) \/ Take(w) \/ Level(w) \/ Visit(w)
      PROVE  SearchInv'
  BY <1>2, LoopTestKeeps, TakeKeeps, LevelBegins, SearchReturns, LevelEnds, OldNeighbour, NewNeighbour
<1>3. CASE UNCHANGED vars
  <2>1. SearchTypes' /\ TakenRight' /\ JoinedRight'
    BY <1>3 DEF vars, SearchInv, SearchTypes, TakenRight, JoinedRight
  <2>2. MetIsRecorded'
    BY <1>3 DEF vars, SearchInv, MetIsRecorded, Recorded
  <2>3. ASSUME NEW w \in Workers PROVE SearchRight(w)'
    BY <1>3 DEF vars, SearchInv, SearchRight, AtLevel, AtVisit
  <2> QED BY <2>1, <2>2, <2>3 DEF SearchInv
<1> QED BY <1>1, <1>2, <1>3 DEF Next

(* For every map, every number of HouseWorkers and every interleaving: the *)
(* searches are right level by level, and each house that was taken has    *)
(* met all it can or is still being searched from.                         *)
THEOREM HouseSearchInvariant == MCSpec => []SearchInv
<1>1. MCInit => SearchInv
  BY SearchInit DEF MCInit
<1>2. SearchInv /\ [MCNext]_<<part, splitVars, vars, poolVars, meetingVars, listVars>> => SearchInv'
  <2> SUFFICES ASSUME SearchInv, [MCNext]_<<part, splitVars, vars, poolVars, meetingVars, listVars>>
               PROVE  SearchInv'
    OBVIOUS
  <2>1. [Next]_vars
    BY DEF MCNext
  <2> QED BY <2>1, SearchStep
<1> QED BY <1>1, <1>2, PTL DEF MCSpec

(* The distance of two houses that have met is in somebody's result, so a  *)
(* search may stop early.                                                  *)
THEOREM MeetingsAreRecorded == MCSpec => []MetIsRecorded
<1>1. SearchInv => MetIsRecorded
  BY DEF SearchInv
<1> QED BY <1>1, HouseSearchInvariant, PTL

(* What main prints are the smallest and the largest distance over all     *)
(* pairs of houses that can be reached from each other.                    *)
THEOREM PrintedDistancesRight == MCSpec => []ResultRight
<1>1. SearchInv => ResultRight
  <2> SUFFICES ASSUME SearchInv, joined = num_workers
               PROVE  result = IF Distances = {} THEN NewResult
                               ELSE [min_dist |-> Min(Distances), max_dist |-> Max(Distances)]
    BY DEF ResultRight
  <2>1. SearchTypes /\ TakenRight /\ JoinedRight /\ MetIsRecorded /\ \A x \in Workers : SearchRight(x)
    BY DEF SearchInv
  <2>2. \A w \in Workers : /\ pc[w] = "exit" /\ found[w] = NewResult
                           /\ result.min_dist <= result_[w].min_dist
                           /\ result_[w].max_dist <= result.max_dist
    <3>1. Workers = 1..joined
      BY SearchConstants
    <3> QED BY <2>1, <3>1 DEF JoinedRight, SearchRight
  <2>3. g_house_index >= NumSearched /\ g_house_index \in Nat
    BY <2>1, <2>2, SearchConstants DEF SearchRight, SearchTypes
  <2>4. ASSUME NEW e \in Nat, Recorded(e)
        PROVE  result.min_dist <= e /\ e <= result.max_dist
    <3>1. \A w \in Workers : ~(found[w].min_dist <= e /\ e <= found[w].max_dist)
      BY <2>2, NothingNew
    <3>2. /\ result.min_dist \in Nat /\ result.max_dist \in Nat
          /\ \A w \in Workers : result_[w].min_dist \in Nat /\ result_[w].max_dist \in Nat
      BY <2>1, TruthfulNat DEF SearchTypes
    <3>3. \/ result.min_dist <= e /\ e <= result.max_dist
          \/ \E w \in Workers : result_[w].min_dist <= e /\ e <= result_[w].max_dist
      BY <2>4, <3>1, RecordedIs
    <3> QED BY <2>2, <3>2, <3>3
  <2>5. ASSUME NEW e \in Distances
        PROVE  result.min_dist <= e /\ e <= result.max_dist
    <3>1. PICK g, h \in Houses : e = Distance[g][h] /\ e # 0 /\ e # Unreachable
      BY DEF Distances
    <3>2. g # h /\ Distance[h][g] = e /\ e \in Nat
      BY <3>1, DistanceFacts, HousesAreVertices, DistanceSymmetric, SearchConstants
    <3>3. PICK j, k \in 1..NumSearched + 1 : g = houses[j] /\ h = houses[k]
      <4>1. DOMAIN houses = 1..NumSearched + 1
        BY MapAssumption, LenProperties, SearchConstants
      <4> QED BY <4>1 DEF Houses, ToSet
    <3>4. j # k
      BY <3>2, <3>3
    <3>5. \A n \in 1..NumSearched : Reachable(houses[n]) \subseteq visit_bitmap[houses[n]]
      <4>1. \A n \in 1..NumSearched : n <= g_house_index
        BY <2>3, SearchConstants
      <4> QED BY <2>1, <2>2, <4>1 DEF TakenRight
    <3>6. h \in Reachable(g) /\ g \in Reachable(h)
      BY <3>1, <3>2 DEF Reachable
    <3>7. j \in 1..NumSearched \/ k \in 1..NumSearched
      BY <3>4, SearchConstants
    <3>8. h \in visit_bitmap[g] \/ g \in visit_bitmap[h]
      BY <3>3, <3>5, <3>6, <3>7
    <3>9. Recorded(Distance[g][h]) \/ Recorded(Distance[h][g])
      BY <2>1, <3>8 DEF MetIsRecorded
    <3>10. Recorded(e)
      BY <3>1, <3>2, <3>9
    <3> QED BY <2>4, <3>2, <3>10
  <2>6. /\ result.min_dist \in Distances \cup {INT_MAX} /\ result.max_dist \in Distances \cup {0}
        /\ result = [min_dist |-> result.min_dist, max_dist |-> result.max_dist]
    BY <2>1 DEF SearchTypes, Truthful
  <2>7. CASE Distances = {}
    BY <2>6, <2>7 DEF NewResult
  <2>8. CASE Distances # {}
    <3>1. PICK e \in Distances : TRUE
      BY <2>8
    <3>2. e \in Nat /\ 0 < e /\ e < INT_MAX /\ INT_MAX \in Nat
      BY SearchConstants
    <3>3. PICK a, b : a = result.min_dist /\ b = result.max_dist
      OBVIOUS
    <3>4. a \in Nat /\ b \in Nat /\ a <= e /\ e <= b
      BY <2>1, <2>5, <3>3, TruthfulNat DEF SearchTypes
    <3>5. a # INT_MAX /\ b # 0
      BY <3>2, <3>4
    <3>6. a \in Distances /\ b \in Distances /\ \A x \in Distances : a <= x /\ x <= b /\ x \in Nat
      BY <2>5, <2>6, <3>3, <3>5, SearchConstants
    <3>7. Min(Distances) = a
      <4>1. \A x \in Distances : (\A y \in Distances : x <= y) => x = a
        BY <3>4, <3>6
      <4> QED BY <3>6, <4>1 DEF Min
    <3>8. Max(Distances) = b
      <4>1. \A x \in Distances : (\A y \in Distances : x >= y) => x = b
        BY <3>4, <3>6
      <4>2. \A y \in Distances : b >= y
        BY <3>4, <3>6
      <4> QED BY <3>6, <4>1, <4>2 DEF Max
    <3> QED BY <2>6, <2>8, <3>3, <3>7, <3>8
  <2> QED BY <2>7, <2>8
<1> QED BY <1>1, HouseSearchInvariant, PTL

-----------------------------------------------------------------------------
(* Lab4's searches.  A search is known by the vertices it has marked: all  *)
(* that are nearer than the level it works on, and some of that level.     *)

Home(t) == MeetingHouses[t]
Away(t, v) == Distance[MeetingHouses[t]][v]
Newest(t) == Len(level[t]) - 1
HasMet(t, u) == u # t /\ u \in visited_flag[t]
MetAt(t, u) == g_visit_info[t][u].vid
MetDepth(t, u) == Away(t, MetAt(t, u))
Stored(t, u) == g_visit_info[t][u].depth

MeetingTypes ==
  /\ g_vertex_flag \in [Vertices -> SUBSET Meeting!Searches]
  /\ level \in [Meeting!Searches -> Seq(Seq(Vertices))]
  /\ meeting_todo \in [Meeting!Searches -> Seq(Vertices)]
  /\ visited_flag \in [Meeting!Searches -> SUBSET Meeting!Searches]
  /\ g_visit_info \in [Meeting!Searches -> [Meeting!Searches -> [vid : Nat, depth : Nat]]]
  /\ ended \in [Meeting!Searches -> BOOLEAN]

(* The levels of a search hold what lies at their distance; of the newest  *)
(* one the vertices marked so far, and the others are still to visit.      *)
LevelsRight(t) ==
  /\ Newest(t) \in Nat \ {0}
  /\ \A k \in 1..Newest(t) : \A v \in Vertices :
       Holds(level[t][k], v) <=> v \in Sphere(Home(t), k - 1)
  /\ \A v \in Vertices :
       /\ Holds(level[t][Newest(t) + 1], v) <=> v \in Sphere(Home(t), Newest(t)) /\ t \in g_vertex_flag[v]
       /\ v \in Ball(Home(t), Newest(t) - 1) => t \in g_vertex_flag[v]
       /\ t \in g_vertex_flag[v] \/ Holds(meeting_todo[t], v) => v \in Ball(Home(t), Newest(t))
       /\ v \in Sphere(Home(t), Newest(t)) => t \in g_vertex_flag[v] \/ Holds(meeting_todo[t], v)

(* What t knows of u: the vertex where it met u first is marked by both    *)
(* and its depth is stored in 16 bits, and every vertex marked by both was *)
(* a meeting for the later of them.                                        *)
MeetingRight(t, u) ==
  /\ HasMet(t, u) => /\ MetAt(t, u) \in Vertices
                     /\ {t, u} \subseteq g_vertex_flag[MetAt(t, u)]
                     /\ Stored(t, u) = MetDepth(t, u) % DepthEnd
                     /\ MetDepth(t, u) \in 1..Newest(t)
  /\ \A v \in Vertices : {t, u} \subseteq g_vertex_flag[v] =>
       \/ HasMet(t, u) /\ MetDepth(t, u) <= Away(t, v)
       \/ HasMet(u, t) /\ MetDepth(u, t) <= Away(u, v)
  /\ HasMet(t, u) /\ HasMet(u, t) => Away(t, Home(u)) <= MetDepth(t, u) + MetDepth(u, t)

(* Who has returned has met everybody, and what is printed is checked.     *)
EndRight ==
  /\ \A t \in Meeting!Searches : ended[t] => visited_flag[t] = Meeting!Searches /\ meeting_todo[t] = <<>>
  /\ printed # Meeting!NotYet => (\A t \in Meeting!Searches : ended[t]) /\ MinMaxRight

MeetingInv ==
  /\ MeetingTypes /\ EndRight
  /\ \A t \in Meeting!Searches : LevelsRight(t)
  /\ \A t, u \in Meeting!Searches : t # u => MeetingRight(t, u)

(* Lab4 searches the same map; only its houses are its own. *)
LEMMA SameMap ==
  /\ Meeting!Vertices = Vertices /\ Meeting!adjlist = adjlist /\ Meeting!Distance = Distance
  /\ \A ss : Meeting!FlattenSeq(ss) = FlattenSeq(ss)
  /\ \A S : Meeting!Min(S) = Min(S) /\ Meeting!Max(S) = Max(S)
  /\ \A s : Meeting!Last(s) = s[Len(s)] /\ Meeting!ToSet(s) = {s[k] : k \in DOMAIN s}
<1>1. Meeting!Vertices = Vertices
  BY DEF Meeting!Vertices, Vertices
<1>2. Meeting!adjlist = adjlist
  BY DEF Meeting!adjlist, Meeting!Push, Meeting!Vertices, adjlist, Push, Vertices
<1>3. Meeting!Distance = Distance
  BY DEF Meeting!Distance, Meeting!Within, Meeting!Adjacent, Meeting!Unreachable, Meeting!Vertices, Meeting!Min,
         Distance, Within, Adjacent, Unreachable, Vertices, Min
<1>4. ASSUME NEW ss PROVE Meeting!FlattenSeq(ss) = FlattenSeq(ss)
  BY DEF Meeting!FlattenSeq, FlattenSeq
<1>5. ASSUME NEW S PROVE Meeting!Min(S) = Min(S) /\ Meeting!Max(S) = Max(S)
  BY DEF Meeting!Min, Min, Meeting!Max, Max
<1>6. ASSUME NEW s PROVE Meeting!Last(s) = s[Len(s)] /\ Meeting!ToSet(s) = {s[k] : k \in DOMAIN s}
  BY DEF Meeting!Last, Meeting!ToSet
<1> QED BY <1>1, <1>2, <1>3, <1>4, <1>5, <1>6

LEMMA MeetingConstants ==
  /\ Meeting!Searches = 1..Len(MeetingHouses) /\ Len(MeetingHouses) \in Nat /\ Len(MeetingHouses) >= 2
  /\ \A t \in Meeting!Searches : Home(t) \in Vertices
  /\ \A t, u \in Meeting!Searches : Home(t) = Home(u) => t = u
<1>1. Meeting!Searches = 1..Len(MeetingHouses) /\ Len(MeetingHouses) \in Nat /\ Len(MeetingHouses) >= 2
  <2>1. MeetingHouses \in Seq(Vertices) /\ Len(MeetingHouses) \in 2..MAX_HOUSE
    BY MeetingAssumption
  <2>2. Len(MeetingHouses) \in Nat
    BY <2>1, LenProperties
  <2>3. PICK n \in Nat : n = Len(MeetingHouses) /\ n \in 2..64
    BY <2>1, <2>2 DEF MAX_HOUSE
  <2>4. n >= 2
    BY <2>3
  <2> QED BY <2>3, <2>4 DEF Meeting!Searches
<1>2. \A t \in Meeting!Searches : Home(t) \in Vertices
  BY <1>1, MeetingAssumption, ElementOfSeq DEF Home
<1>3. \A t, u \in Meeting!Searches : Home(t) = Home(u) => t = u
  <2>1. DOMAIN MeetingHouses = 1..Len(MeetingHouses)
    BY MeetingAssumption, LenProperties
  <2> QED BY <1>1, <2>1, MeetingAssumption DEF Home, IsInjective
<1> QED BY <1>1, <1>2, <1>3

(* From a full level the neighbours lead to the next one. *)
LEMMA NextTodo ==
  ASSUME NEW s \in Vertices, NEW c \in Nat, NEW vs \in Seq(Vertices),
         \A v \in Vertices : Holds(vs, v) <=> v \in Sphere(s, c)
  PROVE  /\ Meeting!Neighbors(vs) \in Seq(Vertices)
         /\ \A v \in Vertices : /\ Holds(Meeting!Neighbors(vs), v) => v \in Ball(s, c + 1)
                                /\ v \in Sphere(s, c + 1) => Holds(Meeting!Neighbors(vs), v)
<1>1. PICK n : n = Len(vs)
  OBVIOUS
<1>2. n \in Nat /\ \A k \in 1..n : vs[k] \in Vertices
  BY <1>1, LenProperties, ElementOfSeq
<1>3. PICK ss : ss = [k \in 1..n |-> adjlist[vs[k]]]
  OBVIOUS
<1>4. ASSUME NEW k \in 1..n
      PROVE  ss[k] \in Seq(Vertices) /\ \A v : Holds(ss[k], v) <=> Adjacent(vs[k], v)
  <2>1. adjlist[vs[k]] \in Seq(Vertices) /\ \A v : Holds(adjlist[vs[k]], v) <=> Adjacent(vs[k], v)
    BY <1>2, AdjlistIs
  <2>2. ss[k] = adjlist[vs[k]]
    BY <1>3
  <2> QED BY <2>1, <2>2
<1>5. ss \in [1..n -> Seq(Vertices)]
  <2>1. ss = [k \in 1..n |-> ss[k]]
    BY <1>3
  <2> QED BY <1>4, <2>1
<1>6. Len(ss) = n
  BY <1>2, <1>5
<1>7. Meeting!Neighbors(vs) = FlattenSeq(ss)
  BY <1>1, <1>3, SameMap DEF Meeting!Neighbors
<1>8. /\ FlattenSeq(ss) \in Seq(Vertices)
      /\ \A v : Holds(FlattenSeq(ss), v) <=> \E k \in 1..n : Holds(ss[k], v)
  BY <1>2, <1>5, <1>6, FlattenHolds
<1>9. \A v : Holds(FlattenSeq(ss), v) <=> \E k \in 1..n : Adjacent(vs[k], v)
  BY <1>4, <1>8
<1>10. \A v : Holds(FlattenSeq(ss), v) <=> \E u \in Sphere(s, c) : Adjacent(u, v)
  <2>1. \A u : u \in Sphere(s, c) <=> \E k \in 1..n : vs[k] = u
    BY <1>1, <1>2 DEF Holds, Sphere
  <2> QED BY <1>9, <2>1
<1>11. \A u \in Sphere(s, c) : \A v \in Vertices : Adjacent(u, v) => v \in Ball(s, c + 1)
  BY NextLevel
<1>12. \A v \in Sphere(s, c + 1) : \E u \in Sphere(s, c) : Adjacent(u, v)
  BY NextLevel
<1> QED BY <1>7, <1>8, <1>10, <1>11, <1>12

(* A search that others leave alone stays right. *)
LEMMA LevelsKept ==
  ASSUME NEW t \in Meeting!Searches, LevelsRight(t), level'[t] = level[t], meeting_todo'[t] = meeting_todo[t],
         \A v \in Vertices : t \in g_vertex_flag'[v] <=> t \in g_vertex_flag[v]
  PROVE  LevelsRight(t)'
  BY DEF LevelsRight, Newest, Home

LEMMA MeetingKept ==
  ASSUME NEW t \in Meeting!Searches, NEW u \in Meeting!Searches, MeetingRight(t, u),
         Newest(t) \in Nat, Newest(t)' \in Nat, Newest(t)' >= Newest(t),
         visited_flag'[t] = visited_flag[t], visited_flag'[u] = visited_flag[u],
         g_visit_info'[t] = g_visit_info[t], g_visit_info'[u] = g_visit_info[u],
         \A v \in Vertices : /\ t \in g_vertex_flag'[v] <=> t \in g_vertex_flag[v]
                             /\ u \in g_vertex_flag'[v] <=> u \in g_vertex_flag[v]
  PROVE  MeetingRight(t, u)'
<1>1. /\ HasMet(t, u)' <=> HasMet(t, u)
      /\ HasMet(u, t)' <=> HasMet(u, t)
      /\ MetAt(t, u)' = MetAt(t, u) /\ Stored(t, u)' = Stored(t, u)
      /\ MetDepth(t, u)' = MetDepth(t, u) /\ MetDepth(u, t)' = MetDepth(u, t)
  BY DEF HasMet, MetAt, MetDepth, Stored, Away
<1>2. \A v \in Vertices : Away(t, v)' = Away(t, v) /\ Away(u, v)' = Away(u, v)
  BY DEF Away
<1>3. HasMet(t, u)' => /\ MetAt(t, u)' \in Vertices
                       /\ {t, u} \subseteq g_vertex_flag'[MetAt(t, u)']
                       /\ Stored(t, u)' = MetDepth(t, u)' % DepthEnd
                       /\ MetDepth(t, u)' \in 1..Newest(t)'
  BY <1>1, <1>2 DEF MeetingRight
<1>4. \A v \in Vertices : {t, u} \subseteq g_vertex_flag'[v] =>
        \/ HasMet(t, u)' /\ MetDepth(t, u)' <= Away(t, v)
        \/ HasMet(u, t)' /\ MetDepth(u, t)' <= Away(u, v)
  BY <1>1, <1>2 DEF MeetingRight
<1>5. HasMet(t, u)' /\ HasMet(u, t)' => Away(t, Home(u)) <= MetDepth(t, u)' + MetDepth(u, t)'
  BY <1>1 DEF MeetingRight
<1> QED BY <1>3, <1>4, <1>5 DEF MeetingRight, Away, Home

LEMMA InitMeeting == Meeting!Init => MeetingInv
<1> SUFFICES ASSUME Meeting!Init
             PROVE  MeetingInv
  OBVIOUS
<1>1. ASSUME NEW t \in Meeting!Searches
      PROVE  /\ Home(t) \in Vertices /\ level[t] = <<<<Home(t)>>, <<>>>>
             /\ meeting_todo[t] = Meeting!Neighbors(<<Home(t)>>)
             /\ meeting_todo[t] \in Seq(Vertices) /\ level[t] \in Seq(Seq(Vertices))
             /\ visited_flag[t] = {t}
             /\ LevelsRight(t)
  <2>1. PICK h \in Vertices : h = Home(t) /\ h = MeetingHouses[t]
    BY MeetingConstants DEF Home
  <2>2. level[t] = <<<<h>>, <<>>>> /\ meeting_todo[t] = Meeting!Neighbors(<<h>>) /\ visited_flag[t] = {t}
    BY <2>1 DEF Meeting!Init
  <2>3. Len(level[t]) = 2 /\ Newest(t) = 1 /\ level[t][1] = <<h>> /\ level[t][2] = <<>>
    BY <2>2 DEF Newest
  <2>4. \A v \in Vertices : t \in g_vertex_flag[v] <=> v = h
    BY <2>1, SameMap DEF Meeting!Init
  <2>5. Ball(h, 0) = {h} /\ Sphere(h, 0) = {h}
    BY FirstLevel
  <2>6. \A v : (Holds(<<h>>, v) <=> v = h) /\ ~Holds(<<>>, v)
    BY FewHolds
  <2>7. <<h>> \in Seq(Vertices) /\ <<>> \in Seq(Vertices)
    OBVIOUS
  <2>8. /\ meeting_todo[t] \in Seq(Vertices)
        /\ \A v \in Vertices : /\ Holds(meeting_todo[t], v) => v \in Ball(h, 0 + 1)
                               /\ v \in Sphere(h, 0 + 1) => Holds(meeting_todo[t], v)
    <3>1. PICK vs \in Seq(Vertices) : vs = <<h>>
      BY <2>7
    <3>2. \A v \in Vertices : Holds(vs, v) <=> v \in Sphere(h, 0)
      BY <2>5, <2>6, <3>1
    <3>3. 0 \in Nat
      OBVIOUS
    <3>4. /\ Meeting!Neighbors(vs) \in Seq(Vertices)
          /\ \A v \in Vertices : /\ Holds(Meeting!Neighbors(vs), v) => v \in Ball(h, 0 + 1)
                                 /\ v \in Sphere(h, 0 + 1) => Holds(Meeting!Neighbors(vs), v)
      BY <3>2, <3>3, NextTodo
    <3> QED BY <2>2, <3>1, <3>4
  <2>9. Ball(h, 0 + 1) = Ball(h, 0) \cup Sphere(h, 0 + 1) /\ Ball(h, 0) \cap Sphere(h, 0 + 1) = {}
    BY NextLevel
  <2>10. level[t] \in Seq(Seq(Vertices))
    BY <2>2, <2>7
  <2>11. LevelsRight(t)
    <3>1. \A k \in 1..1 : k = 1 /\ k - 1 = 0
      OBVIOUS
    <3>2. 0 + 1 = 1 /\ 1 - 1 = 0 /\ 1 + 1 = 2 /\ 1 \in Nat \ {0}
      OBVIOUS
    <3> QED BY <2>1, <2>3, <2>4, <2>5, <2>6, <2>8, <2>9, <3>1, <3>2 DEF LevelsRight
  <2> QED BY <2>1, <2>2, <2>8, <2>10, <2>11
<1>2. MeetingTypes
  <2>1. g_vertex_flag \in [Vertices -> SUBSET Meeting!Searches]
    BY SameMap DEF Meeting!Init
  <2>2. level \in [Meeting!Searches -> Seq(Seq(Vertices))]
    <3>1. level = [t \in Meeting!Searches |-> level[t]]
      BY DEF Meeting!Init
    <3> QED BY <1>1, <3>1
  <2>3. meeting_todo \in [Meeting!Searches -> Seq(Vertices)]
    <3>1. meeting_todo = [t \in Meeting!Searches |-> meeting_todo[t]]
      BY DEF Meeting!Init
    <3> QED BY <1>1, <3>1
  <2>4. visited_flag \in [Meeting!Searches -> SUBSET Meeting!Searches] /\ ended \in [Meeting!Searches -> BOOLEAN]
    BY DEF Meeting!Init
  <2>5. g_visit_info \in [Meeting!Searches -> [Meeting!Searches -> [vid : Nat, depth : Nat]]]
    BY DEF Meeting!Init, Meeting!NoInfo
  <2> QED BY <2>1, <2>2, <2>3, <2>4, <2>5 DEF MeetingTypes
<1>3. EndRight
  BY DEF EndRight, Meeting!Init
<1>4. ASSUME NEW t \in Meeting!Searches, NEW u \in Meeting!Searches, t # u
      PROVE  MeetingRight(t, u)
  <2>1. ~HasMet(t, u) /\ ~HasMet(u, t)
    BY <1>1 DEF HasMet
  <2>2. \A v \in Vertices : ~({t, u} \subseteq g_vertex_flag[v])
    <3>1. \A v \in Vertices : g_vertex_flag[v] = {x \in Meeting!Searches : MeetingHouses[x] = v}
      BY SameMap DEF Meeting!Init
    <3> QED BY <1>4, <3>1, MeetingConstants DEF Home
  <2> QED BY <2>1, <2>2 DEF MeetingRight
<1> QED BY <1>1, <1>2, <1>3, <1>4 DEF MeetingInv

(* Who still has something to do has not returned, and nothing is printed. *)
LEMMA NotEnded ==
  ASSUME MeetingInv, NEW t \in Meeting!Searches, meeting_todo[t] # <<>> \/ ~ended[t]
  PROVE  ~ended[t] /\ printed = Meeting!NotYet
  BY DEF MeetingInv, EndRight

(* A neighbour that the search has marked before is passed over. *)
LEMMA VisitOldKeeps ==
  ASSUME MeetingInv, NEW t \in Meeting!Searches, meeting_todo[t] # <<>>,
         meeting_todo' = [meeting_todo EXCEPT ![t] = Tail(@)],
         t \in g_vertex_flag[Head(meeting_todo[t])],
         UNCHANGED <<g_vertex_flag, level, visited_flag, g_visit_info, ended, printed>>
  PROVE  MeetingInv'
<1>1. MeetingTypes /\ EndRight /\ ~ended[t] /\ printed = Meeting!NotYet
      /\ (\A x \in Meeting!Searches : LevelsRight(x))
      /\ (\A x, y \in Meeting!Searches : x # y => MeetingRight(x, y))
  BY NotEnded DEF MeetingInv
<1>2. PICK q, r, v : q = meeting_todo[t] /\ r = Tail(q) /\ v = Head(q)
  OBVIOUS
<1>3. q \in Seq(Vertices) /\ r \in Seq(Vertices) /\ v \in Vertices /\ \A w : Holds(q, w) <=> w = v \/ Holds(r, w)
  BY <1>1, <1>2, TailHolds DEF MeetingTypes
<1>4. meeting_todo'[t] = r /\ \A x \in Meeting!Searches : x # t => meeting_todo'[x] = meeting_todo[x]
  BY <1>1, <1>2 DEF MeetingTypes
<1>5. MeetingTypes'
  <2>1. meeting_todo' \in [Meeting!Searches -> Seq(Vertices)]
    BY <1>1, <1>2, <1>3 DEF MeetingTypes
  <2> QED BY <1>1, <2>1 DEF MeetingTypes
<1>6. ASSUME NEW x \in Meeting!Searches
      PROVE  LevelsRight(x)'
  <2>1. CASE x # t
    BY <1>1, <1>4, <2>1, LevelsKept
  <2>2. CASE x = t
    <3>1. LevelsRight(t)
      BY <1>1
    <3>2. t \in g_vertex_flag[v]
      BY <1>2
    <3>3. \A w : Holds(r, w) => Holds(meeting_todo[t], w)
      BY <1>2, <1>3
    <3>4. \A w \in Vertices : Holds(meeting_todo[t], w) => t \in g_vertex_flag[w] \/ Holds(r, w)
      BY <1>2, <1>3, <3>2
    <3> QED BY <1>4, <2>2, <3>1, <3>3, <3>4 DEF LevelsRight, Newest, Home
  <2> QED BY <2>1, <2>2
<1>7. ASSUME NEW x \in Meeting!Searches, NEW y \in Meeting!Searches, x # y
      PROVE  MeetingRight(x, y)'
  <2>1. Newest(x)' = Newest(x) /\ Newest(x) \in Nat
    BY <1>1 DEF Newest, LevelsRight
  <2>2. Newest(x)' \in Nat /\ Newest(x)' >= Newest(x)
    BY <2>1
  <2> QED BY <1>1, <1>7, <2>1, <2>2, MeetingKept
<1>8. EndRight'
  <2>1. \A x \in Meeting!Searches : ended'[x] => x # t
    BY <1>1
  <2> QED BY <1>1, <1>4, <2>1 DEF EndRight
<1> QED BY <1>5, <1>6, <1>7, <1>8 DEF MeetingInv

(* A search that has met everybody returns. *)
LEMMA ReturnKeeps ==
  ASSUME MeetingInv, NEW t \in Meeting!Searches, meeting_todo[t] = <<>>, ~ended[t],
         Meeting!MetAll(t), ended' = [ended EXCEPT ![t] = TRUE],
         UNCHANGED <<g_vertex_flag, level, meeting_todo, visited_flag, g_visit_info, printed>>
  PROVE  MeetingInv'
<1>1. MeetingTypes /\ EndRight /\ printed = Meeting!NotYet
      /\ (\A x \in Meeting!Searches : LevelsRight(x))
      /\ (\A x, y \in Meeting!Searches : x # y => MeetingRight(x, y))
  BY NotEnded DEF MeetingInv
<1>2. MeetingTypes'
  BY <1>1 DEF MeetingTypes
<1>3. \A x \in Meeting!Searches : ended'[x] => x = t \/ ended[x]
  BY <1>1 DEF MeetingTypes
<1>4. EndRight'
  BY <1>1, <1>3 DEF EndRight, Meeting!MetAll
<1>5. \A x \in Meeting!Searches : LevelsRight(x)'
  BY <1>1, LevelsKept
<1>6. ASSUME NEW x \in Meeting!Searches, NEW y \in Meeting!Searches, x # y
      PROVE  MeetingRight(x, y)'
  <2>1. Newest(x)' = Newest(x) /\ Newest(x) \in Nat
    BY <1>1 DEF Newest, LevelsRight
  <2>2. Newest(x)' \in Nat /\ Newest(x)' >= Newest(x)
    BY <2>1
  <2> QED BY <1>1, <1>6, <2>1, <2>2, MeetingKept
<1> QED BY <1>2, <1>4, <1>5, <1>6 DEF MeetingInv

(* The level is full and the next one begins. *)
LEMMA FenceKeeps ==
  ASSUME MeetingInv, NEW t \in Meeting!Searches, meeting_todo[t] = <<>>, ~ended[t],
         meeting_todo' = [meeting_todo EXCEPT ![t] = Meeting!Neighbors(Meeting!Last(level[t]))],
         level' = [level EXCEPT ![t] = Append(@, <<>>)],
         UNCHANGED <<g_vertex_flag, visited_flag, g_visit_info, ended, printed>>
  PROVE  MeetingInv'
<1>1. MeetingTypes /\ EndRight /\ printed = Meeting!NotYet
      /\ (\A x \in Meeting!Searches : LevelsRight(x))
      /\ (\A x, y \in Meeting!Searches : x # y => MeetingRight(x, y))
  BY NotEnded DEF MeetingInv
<1>2. PICK L, M, c, h : L = level[t] /\ M = Append(L, <<>>) /\ c = Newest(t) /\ h = Home(t)
  OBVIOUS
<1>3. L \in Seq(Seq(Vertices)) /\ c \in Nat /\ c > 0 /\ Len(L) = c + 1 /\ h \in Vertices
  <2>1. L \in Seq(Seq(Vertices)) /\ c \in Nat \ {0} /\ c = Len(L) - 1
    BY <1>1, <1>2 DEF MeetingTypes, LevelsRight, Newest
  <2>2. Len(L) \in Nat
    BY <2>1, LenProperties
  <2>3. PICK n \in Nat : n = Len(L)
    BY <2>2
  <2>4. c \in Nat /\ c > 0 /\ n = c + 1
    BY <2>1, <2>3
  <2>5. h \in Vertices
    BY <1>2, MeetingConstants
  <2> QED BY <2>1, <2>3, <2>4, <2>5
<1>4. <<>> \in Seq(Vertices)
  OBVIOUS
<1>5. /\ M \in Seq(Seq(Vertices)) /\ Len(M) = c + 2 /\ M[c + 2] = <<>>
      /\ \A k \in 1..c + 1 : M[k] = L[k]
  <2>1. /\ M \in Seq(Seq(Vertices)) /\ Len(M) = Len(L) + 1 /\ M[Len(L) + 1] = <<>>
        /\ \A k \in 1..Len(L) : M[k] = L[k]
    BY <1>2, <1>3, <1>4, AppendProperties
  <2>2. Len(L) + 1 = c + 2
    BY <1>3
  <2> QED BY <1>3, <2>1, <2>2
<1>6. PICK vs : vs = L[c + 1]
  OBVIOUS
<1>7. vs \in Seq(Vertices)
  <2>1. c + 1 \in 1..Len(L)
    BY <1>3
  <2> QED BY <1>3, <1>6, <2>1, ElementOfSeq
<1>8. /\ \A v : ~Holds(meeting_todo[t], v)
      /\ \A v \in Vertices : Holds(vs, v) <=> v \in Sphere(h, c)
      /\ \A v \in Vertices : v \in Ball(h, c) <=> t \in g_vertex_flag[v]
  <2>1. \A v : ~Holds(meeting_todo[t], v)
    BY FewHolds
  <2>2. \A v \in Vertices :
          /\ Holds(L[c + 1], v) <=> v \in Sphere(h, c) /\ t \in g_vertex_flag[v]
          /\ v \in Ball(h, c - 1) => t \in g_vertex_flag[v]
          /\ t \in g_vertex_flag[v] => v \in Ball(h, c)
          /\ v \in Sphere(h, c) => t \in g_vertex_flag[v]
    BY <1>1, <1>2, <2>1 DEF LevelsRight
  <2>3. c - 1 \in Nat /\ (c - 1) + 1 = c
    BY <1>3
  <2>4. Ball(h, (c - 1) + 1) = Ball(h, c - 1) \cup Sphere(h, (c - 1) + 1)
    BY <1>3, <2>3, NextLevel
  <2> QED BY <1>6, <2>1, <2>2, <2>3, <2>4
<1>9. PICK q : q = Meeting!Neighbors(vs)
  OBVIOUS
<1>10. /\ q \in Seq(Vertices)
       /\ \A v \in Vertices : /\ Holds(q, v) => v \in Ball(h, c + 1)
                              /\ v \in Sphere(h, c + 1) => Holds(q, v)
  BY <1>3, <1>7, <1>8, <1>9, NextTodo
<1>11. /\ Ball(h, c + 1) = Ball(h, c) \cup Sphere(h, c + 1)
       /\ Ball(h, c) \cap Sphere(h, c + 1) = {}
  BY <1>3, NextLevel
<1>12. meeting_todo'[t] = q /\ \A x \in Meeting!Searches : x # t => meeting_todo'[x] = meeting_todo[x]
  <2>1. Meeting!Last(level[t]) = vs
    BY <1>2, <1>3, <1>6, SameMap
  <2> QED BY <1>1, <1>9, <2>1 DEF MeetingTypes
<1>13. level'[t] = M /\ \A x \in Meeting!Searches : x # t => level'[x] = level[x]
  BY <1>1, <1>2 DEF MeetingTypes
<1>14. MeetingTypes'
  <2>1. meeting_todo' \in [Meeting!Searches -> Seq(Vertices)]
    <3>1. meeting_todo' = [x \in Meeting!Searches |-> meeting_todo'[x]]
      BY <1>1 DEF MeetingTypes
    <3>2. \A x \in Meeting!Searches : meeting_todo'[x] \in Seq(Vertices)
      BY <1>1, <1>10, <1>12 DEF MeetingTypes
    <3> QED BY <3>1, <3>2
  <2>2. level' \in [Meeting!Searches -> Seq(Seq(Vertices))]
    <3>1. level' = [x \in Meeting!Searches |-> level'[x]]
      BY <1>1 DEF MeetingTypes
    <3>2. \A x \in Meeting!Searches : level'[x] \in Seq(Seq(Vertices))
      BY <1>1, <1>5, <1>13 DEF MeetingTypes
    <3> QED BY <3>1, <3>2
  <2> QED BY <1>1, <2>1, <2>2 DEF MeetingTypes
<1>15. Newest(t)' = c + 1
  <2>1. (c + 2) - 1 = c + 1
    BY <1>3
  <2> QED BY <1>5, <1>13, <2>1 DEF Newest
<1>16. ASSUME NEW x \in Meeting!Searches
       PROVE  LevelsRight(x)'
  <2>1. CASE x # t
    BY <1>1, <1>12, <1>13, <2>1, LevelsKept
  <2>2. CASE x = t
    <3>1. \A k \in 1..c + 1 : \A v \in Vertices : Holds(M[k], v) <=> v \in Sphere(h, k - 1)
      <4>1. \A k \in 1..c : \A v \in Vertices : Holds(L[k], v) <=> v \in Sphere(h, k - 1)
        BY <1>1, <1>2 DEF LevelsRight
      <4>2. \A k \in 1..c + 1 : k \in 1..c \/ k = c + 1
        BY <1>3
      <4>3. (c + 1) - 1 = c
        BY <1>3
      <4> QED BY <1>5, <1>6, <1>8, <4>1, <4>2, <4>3
    <3>2. \A v : ~Holds(M[c + 2], v)
      BY <1>5, FewHolds
    <3>3. c + 1 \in Nat \ {0} /\ (c + 1) + 1 = c + 2 /\ (c + 1) - 1 = c
      BY <1>3
    <3>4. \A v \in Vertices :
            /\ Holds(M[(c + 1) + 1], v) <=> v \in Sphere(h, c + 1) /\ t \in g_vertex_flag'[v]
            /\ v \in Ball(h, (c + 1) - 1) => t \in g_vertex_flag'[v]
            /\ t \in g_vertex_flag'[v] \/ Holds(q, v) => v \in Ball(h, c + 1)
            /\ v \in Sphere(h, c + 1) => t \in g_vertex_flag'[v] \/ Holds(q, v)
      BY <1>8, <1>10, <1>11, <3>2, <3>3
    <3>5. Home(t)' = h
      BY <1>2 DEF Home
    <3> QED BY <2>2, <1>12, <1>13, <1>15, <3>1, <3>3, <3>4, <3>5 DEF LevelsRight
  <2> QED BY <2>1, <2>2
<1>17. ASSUME NEW x \in Meeting!Searches, NEW y \in Meeting!Searches, x # y
       PROVE  MeetingRight(x, y)'
  <2>1. Newest(x) \in Nat /\ Newest(x)' \in Nat /\ Newest(x)' >= Newest(x)
    <3>1. Newest(x) \in Nat
      BY <1>1 DEF LevelsRight
    <3>2. CASE x = t
      BY <1>2, <1>3, <1>15, <3>2
    <3>3. CASE x # t
      <4>1. Newest(x)' = Newest(x)
        BY <1>13, <3>3 DEF Newest
      <4> QED BY <3>1, <4>1
    <3> QED BY <3>1, <3>2, <3>3
  <2> QED BY <1>1, <1>17, <2>1, MeetingKept
<1>18. EndRight'
  <2>1. \A x \in Meeting!Searches : ended'[x] => x # t
    OBVIOUS
  <2> QED BY <1>1, <1>12, <2>1 DEF EndRight
<1> QED BY <1>14, <1>16, <1>17, <1>18 DEF MeetingInv

(* What a search has marked is not further than its newest level, and what *)
(* is nearer it has marked.                                                *)
LEMMA MarksAre ==
  ASSUME NEW t \in Meeting!Searches, LevelsRight(t), NEW v \in Vertices
  PROVE  /\ Home(t) \in Vertices /\ Away(t, v) \in Nat /\ Newest(t) \in Nat
         /\ t \in g_vertex_flag[v] => Away(t, v) <= Newest(t) /\ Away(t, v) # Unreachable
         /\ Away(t, v) < Newest(t) /\ Away(t, v) # Unreachable => t \in g_vertex_flag[v]
<1>1. PICK h, c : h = Home(t) /\ c = Newest(t)
  OBVIOUS
<1>2. h \in Vertices /\ c \in Nat
  BY <1>1, MeetingConstants DEF LevelsRight
<1>3. Distance[h][v] \in Nat /\ Away(t, v) = Distance[h][v]
  <2>1. Distance[h][v] \in 0..num_vertices
    BY <1>2, DistanceFacts
  <2> QED BY <1>1, <2>1 DEF Away, Home
<1>4. t \in g_vertex_flag[v] => Distance[h][v] <= c /\ Distance[h][v] # Unreachable
  BY <1>1 DEF LevelsRight, Ball
<1>5. Distance[h][v] < c /\ Distance[h][v] # Unreachable => t \in g_vertex_flag[v]
  <2>1. Distance[h][v] < c => Distance[h][v] <= c - 1
    BY <1>2, <1>3
  <2> QED BY <1>1, <2>1 DEF LevelsRight, Ball
<1> QED BY <1>1, <1>2, <1>3, <1>4, <1>5

(* A new vertex is marked, and the searches that have marked it are met    *)
(* there, at the depth of the newest level.                                *)
LEMMA VisitNewMeets ==
  ASSUME NEW t \in Meeting!Searches, NEW u \in Meeting!Searches, NEW v \in Vertices, t # u,
         LevelsRight(t), LevelsRight(u), MeetingRight(t, u), MeetingRight(u, t),
         Away(t, v) = Newest(t), Newest(t) > 0, Newest(t)' = Newest(t), Newest(u)' = Newest(u),
         \A w \in Vertices : /\ t \in g_vertex_flag'[w] <=> t \in g_vertex_flag[w] \/ w = v
                             /\ u \in g_vertex_flag'[w] <=> u \in g_vertex_flag[w],
         HasMet(u, t)' <=> HasMet(u, t), MetAt(u, t)' = MetAt(u, t), Stored(u, t)' = Stored(u, t),
         HasMet(t, u)' <=> HasMet(t, u) \/ u \in g_vertex_flag[v],
         HasMet(t, u) => MetAt(t, u)' = MetAt(t, u) /\ Stored(t, u)' = Stored(t, u),
         ~HasMet(t, u) /\ u \in g_vertex_flag[v] =>
           MetAt(t, u)' = v /\ Stored(t, u)' = Newest(t) % DepthEnd
  PROVE  MeetingRight(t, u)' /\ MeetingRight(u, t)'
<1>0. /\ MetDepth(u, t)' = MetDepth(u, t)
      /\ HasMet(t, u) => MetDepth(t, u)' = MetDepth(t, u)
      /\ ~HasMet(t, u) /\ u \in g_vertex_flag[v] => MetDepth(t, u)' = Newest(t)
  BY DEF MetDepth, Away
<1>1. PICK c \in Nat : c = Newest(t) /\ c > 0
  BY DEF LevelsRight
<1>2. \A w \in Vertices : Away(t, w)' = Away(t, w) /\ Away(u, w)' = Away(u, w) /\ Away(t, w) \in Nat /\ Away(u, w) \in Nat
  <2>1. \A w \in Vertices : Away(t, w) \in Nat /\ Away(u, w) \in Nat
    BY MarksAre
  <2> QED BY <2>1 DEF Away
<1>3. HasMet(t, u) => /\ MetAt(t, u) \in Vertices /\ {t, u} \subseteq g_vertex_flag[MetAt(t, u)]
                      /\ Stored(t, u) = MetDepth(t, u) % DepthEnd /\ MetDepth(t, u) \in 1..c
  BY <1>1 DEF MeetingRight
<1>4. HasMet(u, t) => /\ MetAt(u, t) \in Vertices /\ {t, u} \subseteq g_vertex_flag[MetAt(u, t)]
                      /\ Stored(u, t) = MetDepth(u, t) % DepthEnd /\ MetDepth(u, t) \in 1..Newest(u)
  BY DEF MeetingRight
<1>5. HasMet(t, u)' => /\ MetAt(t, u)' \in Vertices /\ {t, u} \subseteq g_vertex_flag'[MetAt(t, u)']
                       /\ Stored(t, u)' = MetDepth(t, u)' % DepthEnd /\ MetDepth(t, u)' \in 1..c
  <2>1. CASE HasMet(t, u)
    BY <1>0, <1>3, <2>1
  <2>2. CASE ~HasMet(t, u) /\ u \in g_vertex_flag[v]
    <3>1. c \in 1..c
      BY <1>1
    <3> QED BY <1>0, <1>1, <2>2, <3>1
  <2> QED BY <2>1, <2>2
<1>6. HasMet(u, t)' => /\ MetAt(u, t)' \in Vertices /\ {t, u} \subseteq g_vertex_flag'[MetAt(u, t)']
                       /\ Stored(u, t)' = MetDepth(u, t)' % DepthEnd /\ MetDepth(u, t)' \in 1..Newest(u)
  BY <1>0, <1>4
<1>7. ASSUME NEW w \in Vertices, {t, u} \subseteq g_vertex_flag'[w]
      PROVE  \/ HasMet(t, u)' /\ MetDepth(t, u)' <= Away(t, w)
             \/ HasMet(u, t)' /\ MetDepth(u, t)' <= Away(u, w)
  <2>1. CASE w = v
    <3>1. u \in g_vertex_flag[v] /\ HasMet(t, u)'
      BY <1>7, <2>1
    <3>2. MetDepth(t, u)' <= c
      <4>1. MetDepth(t, u)' \in 1..c
        BY <3>1, <1>5
      <4> QED BY <4>1, <1>1
    <3> QED BY <1>1, <2>1, <3>1, <3>2
  <2>2. CASE w # v
    <3>1. {t, u} \subseteq g_vertex_flag[w]
      BY <1>7, <2>2
    <3>2. \/ HasMet(t, u) /\ MetDepth(t, u) <= Away(t, w)
          \/ HasMet(u, t) /\ MetDepth(u, t) <= Away(u, w)
      BY <3>1 DEF MeetingRight
    <3> QED BY <1>0, <3>2
  <2> QED BY <2>1, <2>2
<1>8. ASSUME HasMet(t, u)', HasMet(u, t)'
      PROVE  Away(t, Home(u)) <= MetDepth(t, u)' + MetDepth(u, t)'
  <2>1. CASE HasMet(t, u)
    BY <1>0, <1>8, <2>1 DEF MeetingRight
  <2>2. CASE ~HasMet(t, u)
    <3>1. PICK y \in Vertices : y = MetAt(u, t) /\ {t, u} \subseteq g_vertex_flag[y] /\ MetDepth(u, t) = Away(u, y)
      BY <1>4, <1>8 DEF MetDepth
    <3>2. Away(t, y) <= c /\ Away(t, y) # Unreachable /\ Away(u, y) # Unreachable /\ Away(t, y) \in Nat /\ Away(u, y) \in Nat
      BY <1>1, <3>1, MarksAre
    <3>3. MetDepth(t, u)' = c /\ MetDepth(u, t)' = Away(u, y)
      BY <1>0, <1>1, <1>8, <2>2, <3>1
    <3>4. Home(t) \in Vertices /\ Home(u) \in Vertices
      BY MeetingConstants
    <3>5. Away(t, Home(u)) <= Away(t, y) + Away(u, y)
      BY <3>2, <3>4, Triangle DEF Away, Home
    <3>6. Away(t, Home(u)) \in Nat
      BY <1>2, <3>4
    <3> QED BY <1>1, <3>2, <3>3, <3>5, <3>6
  <2> QED BY <2>1, <2>2
<1>9. Away(u, Home(t)) = Away(t, Home(u)) /\ Home(t)' = Home(t) /\ Home(u)' = Home(u)
      /\ Home(t) \in Vertices /\ Home(u) \in Vertices
  BY MeetingConstants, DistanceSymmetric DEF Away, Home
<1>10. MeetingRight(t, u)'
  BY <1>1, <1>2, <1>5, <1>7, <1>8, <1>9 DEF MeetingRight
<1>11. MeetingRight(u, t)'
  <2>1. HasMet(u, t)' /\ HasMet(t, u)' => Away(u, Home(t)) <= MetDepth(u, t)' + MetDepth(t, u)'
    <3> SUFFICES ASSUME HasMet(u, t)', HasMet(t, u)'
                 PROVE  Away(u, Home(t)) <= MetDepth(u, t)' + MetDepth(t, u)'
      OBVIOUS
    <3>1. PICK a \in Nat, b \in Nat : a = MetDepth(t, u)' /\ b = MetDepth(u, t)'
      BY <1>2, <1>5, <1>6
    <3>2. a + b = b + a
      BY <3>1
    <3> QED BY <1>8, <1>9, <3>1, <3>2
  <2>2. {u, t} = {t, u}
    OBVIOUS
  <2>3. \A w \in Vertices : {u, t} \subseteq g_vertex_flag'[w] =>
             \/ HasMet(u, t)' /\ MetDepth(u, t)' <= Away(u, w)
             \/ HasMet(t, u)' /\ MetDepth(t, u)' <= Away(t, w)
    BY <1>7, <2>2
  <2> QED BY <1>2, <1>6, <1>9, <2>1, <2>2, <2>3 DEF MeetingRight
<1> QED BY <1>10, <1>11

LEMMA VisitNewKeeps ==
  ASSUME MeetingInv, NEW t \in Meeting!Searches, meeting_todo[t] # <<>>,
         meeting_todo' = [meeting_todo EXCEPT ![t] = Tail(@)],
         NEW v, v = Head(meeting_todo[t]), t \notin g_vertex_flag[v],
         NEW met, met = g_vertex_flag[v] \ visited_flag[t],
         g_vertex_flag' = Meeting!Marked(t, v),
         visited_flag' = [visited_flag EXCEPT ![t] = @ \cup met],
         g_visit_info' = [g_visit_info EXCEPT ![t] =
           [u \in Meeting!Searches |-> IF u \in met THEN [vid |-> v, depth |-> Meeting!depth(t) % DepthEnd] ELSE @[u]]],
         level' = [level EXCEPT ![t][Meeting!depth(t) + 1] = Append(@, v)],
         UNCHANGED <<ended, printed>>
  PROVE  MeetingInv'
<1>1. MeetingTypes /\ EndRight /\ ~ended[t] /\ printed = Meeting!NotYet
      /\ (\A x \in Meeting!Searches : LevelsRight(x))
      /\ (\A x, y \in Meeting!Searches : x # y => MeetingRight(x, y))
  BY NotEnded DEF MeetingInv
<1>2. PICK q, r : q = meeting_todo[t] /\ r = Tail(q)
  OBVIOUS
<1>3. q \in Seq(Vertices) /\ r \in Seq(Vertices) /\ v \in Vertices /\ \A w : Holds(q, w) <=> w = v \/ Holds(r, w)
  BY <1>1, <1>2, TailHolds DEF MeetingTypes
<1>4. meeting_todo'[t] = r /\ \A x \in Meeting!Searches : x # t => meeting_todo'[x] = meeting_todo[x]
  BY <1>1, <1>2 DEF MeetingTypes
<1>5. PICK L, c, h : L = level[t] /\ c = Newest(t) /\ h = Home(t)
  OBVIOUS
<1>6. L \in Seq(Seq(Vertices)) /\ c \in Nat /\ c > 0 /\ Len(L) = c + 1 /\ h \in Vertices
  <2>1. L \in Seq(Seq(Vertices)) /\ c \in Nat \ {0} /\ c = Len(L) - 1
    BY <1>1, <1>5 DEF MeetingTypes, LevelsRight, Newest
  <2>2. Len(L) \in Nat
    BY <2>1, LenProperties
  <2>3. PICK n \in Nat : n = Len(L)
    BY <2>2
  <2>4. c \in Nat /\ c > 0 /\ n = c + 1
    BY <2>1, <2>3
  <2>5. h \in Vertices
    BY <1>5, MeetingConstants
  <2> QED BY <2>1, <2>3, <2>4, <2>5
<1>7. Meeting!depth(t) = c
  BY <1>5 DEF Meeting!depth, Newest
<1>8. PICK vs, ws, M : vs = L[c + 1] /\ ws = Append(vs, v) /\ M = [L EXCEPT ![c + 1] = ws]
  OBVIOUS
<1>9. c + 1 \in 1..Len(L)
  BY <1>6
<1>10. vs \in Seq(Vertices) /\ ws \in Seq(Vertices) /\ \A w : Holds(ws, w) <=> Holds(vs, w) \/ w = v
  <2>1. vs \in Seq(Vertices)
    BY <1>6, <1>8, <1>9, ElementOfSeq
  <2> QED BY <1>3, <1>8, <2>1, AppendHolds
<1>11. M \in Seq(Seq(Vertices)) /\ Len(M) = c + 1 /\ M[c + 1] = ws /\ \A k \in 1..c : M[k] = L[k]
  <2>1. /\ M \in Seq(Seq(Vertices)) /\ Len(M) = Len(L)
        /\ \A j \in 1..Len(L) : M[j] = IF j = c + 1 THEN ws ELSE L[j]
    BY <1>6, <1>8, <1>9, <1>10, ExceptSeq
  <2>2. \A k \in 1..c : k \in 1..Len(L) /\ k # c + 1
    BY <1>6
  <2> QED BY <1>6, <1>9, <2>1, <2>2
<1>12. level'[t] = M /\ \A x \in Meeting!Searches : x # t => level'[x] = level[x]
  BY <1>1, <1>5, <1>7, <1>8 DEF MeetingTypes
<1>13. \A x \in Meeting!Searches : Newest(x)' = Newest(x)
  <2>1. Newest(t)' = Newest(t)
    BY <1>5, <1>6, <1>11, <1>12 DEF Newest
  <2> QED BY <2>1, <1>12 DEF Newest
<1>14. \A x \in Meeting!Searches : \A w \in Vertices :
         x \in g_vertex_flag'[w] <=> x \in g_vertex_flag[w] \/ (x = t /\ w = v)
  BY <1>1, <1>3 DEF MeetingTypes, Meeting!Marked
<1>15. v \in Sphere(h, c) /\ Away(t, v) = c
  <2>1. v \in Ball(h, c) /\ v \notin Ball(h, c - 1)
    BY <1>1, <1>2, <1>3, <1>5 DEF LevelsRight
  <2>2. c - 1 \in Nat /\ (c - 1) + 1 = c
    BY <1>6
  <2>3. Ball(h, (c - 1) + 1) = Ball(h, c - 1) \cup Sphere(h, (c - 1) + 1)
    BY <1>6, <2>2, NextLevel
  <2>4. v \in Sphere(h, c)
    BY <2>1, <2>2, <2>3
  <2> QED BY <1>5, <2>4 DEF Sphere, Away, Home
<1>16. met \subseteq Meeting!Searches /\ met = g_vertex_flag[v] \ visited_flag[t]
  BY <1>1, <1>3 DEF MeetingTypes
<1>17. /\ \A x \in Meeting!Searches : x # t => visited_flag'[x] = visited_flag[x] /\ g_visit_info'[x] = g_visit_info[x]
       /\ visited_flag'[t] = visited_flag[t] \cup met
       /\ \A u \in Meeting!Searches : /\ u \in met => g_visit_info'[t][u] = [vid |-> v, depth |-> c % DepthEnd]
                                      /\ u \notin met => g_visit_info'[t][u] = g_visit_info[t][u]
  BY <1>1, <1>7 DEF MeetingTypes
<1>18. MeetingTypes'
  <2>1. g_vertex_flag' \in [Vertices -> SUBSET Meeting!Searches]
    BY <1>1, <1>3 DEF MeetingTypes, Meeting!Marked
  <2>2. level' \in [Meeting!Searches -> Seq(Seq(Vertices))]
    <3>1. level' = [x \in Meeting!Searches |-> level'[x]]
      BY <1>1 DEF MeetingTypes
    <3>2. \A x \in Meeting!Searches : level'[x] \in Seq(Seq(Vertices))
      BY <1>1, <1>11, <1>12 DEF MeetingTypes
    <3> QED BY <3>1, <3>2
  <2>3. meeting_todo' \in [Meeting!Searches -> Seq(Vertices)]
    BY <1>1, <1>2, <1>3 DEF MeetingTypes
  <2>4. visited_flag' \in [Meeting!Searches -> SUBSET Meeting!Searches]
    BY <1>1, <1>16 DEF MeetingTypes
  <2>5. g_visit_info' \in [Meeting!Searches -> [Meeting!Searches -> [vid : Nat, depth : Nat]]]
    <3>1. PICK f : f = g_visit_info'[t]
      OBVIOUS
    <3>2. f = [u \in Meeting!Searches |-> IF u \in met THEN [vid |-> v, depth |-> c % DepthEnd] ELSE g_visit_info[t][u]]
      BY <1>1, <1>7, <3>1 DEF MeetingTypes
    <3>3. v \in Nat
      BY <1>3, HousesAreVertices DEF Vertices
    <3>4. [vid |-> v, depth |-> c % DepthEnd] \in [vid : Nat, depth : Nat]
      <4>1. c % DepthEnd \in Nat
        BY <1>6, MeetingAssumption
      <4> QED BY <3>3, <4>1
    <3>5. \A u \in Meeting!Searches : g_visit_info[t][u] \in [vid : Nat, depth : Nat]
      BY <1>1 DEF MeetingTypes
    <3>6. f \in [Meeting!Searches -> [vid : Nat, depth : Nat]]
      BY <3>2, <3>4, <3>5
    <3>7. g_visit_info' = [g_visit_info EXCEPT ![t] = f]
      BY <1>1, <3>1 DEF MeetingTypes
    <3> QED BY <1>1, <3>6, <3>7 DEF MeetingTypes
  <2>6. ended' \in [Meeting!Searches -> BOOLEAN]
    BY <1>1 DEF MeetingTypes
  <2> QED BY <2>1, <2>2, <2>3, <2>4, <2>5, <2>6 DEF MeetingTypes
<1>19. ASSUME NEW x \in Meeting!Searches
       PROVE  LevelsRight(x)'
  <2>1. CASE x # t
    BY <1>1, <1>4, <1>12, <1>14, <2>1, LevelsKept
  <2>2. CASE x = t
    <3>1. \A k \in 1..c : \A w \in Vertices : Holds(M[k], w) <=> w \in Sphere(h, k - 1)
      BY <1>1, <1>5, <1>11 DEF LevelsRight
    <3>2. \A w \in Vertices :
            /\ Holds(vs, w) <=> w \in Sphere(h, c) /\ t \in g_vertex_flag[w]
            /\ w \in Ball(h, c - 1) => t \in g_vertex_flag[w]
            /\ t \in g_vertex_flag[w] \/ Holds(q, w) => w \in Ball(h, c)
            /\ w \in Sphere(h, c) => t \in g_vertex_flag[w] \/ Holds(q, w)
      BY <1>1, <1>2, <1>5, <1>8 DEF LevelsRight
    <3>3. \A w \in Vertices :
            /\ Holds(M[c + 1], w) <=> w \in Sphere(h, c) /\ t \in g_vertex_flag'[w]
            /\ w \in Ball(h, c - 1) => t \in g_vertex_flag'[w]
            /\ t \in g_vertex_flag'[w] \/ Holds(r, w) => w \in Ball(h, c)
            /\ w \in Sphere(h, c) => t \in g_vertex_flag'[w] \/ Holds(r, w)
      BY <1>3, <1>10, <1>11, <1>14, <1>15, <3>2
    <3>4. Home(t)' = h /\ Newest(t)' = c /\ c \in Nat \ {0}
      BY <1>5, <1>6, <1>13 DEF Home
    <3> QED BY <2>2, <1>4, <1>12, <3>1, <3>3, <3>4 DEF LevelsRight
  <2> QED BY <2>1, <2>2
<1>20. ASSUME NEW u \in Meeting!Searches, u # t
       PROVE  MeetingRight(t, u)' /\ MeetingRight(u, t)'
  <2>1. /\ HasMet(u, t)' <=> HasMet(u, t)
        /\ MetAt(u, t)' = MetAt(u, t) /\ Stored(u, t)' = Stored(u, t)
    BY <1>17, <1>20 DEF HasMet, MetAt, Stored
  <2>2. HasMet(t, u)' <=> HasMet(t, u) \/ u \in g_vertex_flag[v]
    BY <1>16, <1>17, <1>20 DEF HasMet
  <2>3. HasMet(t, u) => MetAt(t, u)' = MetAt(t, u) /\ Stored(t, u)' = Stored(t, u)
    BY <1>16, <1>17, <1>20 DEF HasMet, MetAt, Stored
  <2>4. ~HasMet(t, u) /\ u \in g_vertex_flag[v] =>
          MetAt(t, u)' = v /\ Stored(t, u)' = Newest(t) % DepthEnd
    BY <1>5, <1>16, <1>17, <1>20 DEF HasMet, MetAt, Stored
  <2>5. Away(t, v) = Newest(t) /\ Newest(t) > 0 /\ Newest(t)' = Newest(t) /\ Newest(u)' = Newest(u)
    BY <1>5, <1>6, <1>13, <1>15
  <2>6. \A w \in Vertices : /\ t \in g_vertex_flag'[w] <=> t \in g_vertex_flag[w] \/ w = v
                            /\ u \in g_vertex_flag'[w] <=> u \in g_vertex_flag[w]
    BY <1>14, <1>20
  <2>7. LevelsRight(t) /\ LevelsRight(u) /\ MeetingRight(t, u) /\ MeetingRight(u, t)
    BY <1>1, <1>20
  <2> QED BY <1>3, <1>20, <2>1, <2>2, <2>3, <2>4, <2>5, <2>6, <2>7, VisitNewMeets
<1>21. ASSUME NEW x \in Meeting!Searches, NEW y \in Meeting!Searches, x # y
       PROVE  MeetingRight(x, y)'
  <2>1. CASE x = t \/ y = t
    BY <1>20, <1>21, <2>1
  <2>2. CASE x # t /\ y # t
    <3>1. Newest(x)' = Newest(x) /\ Newest(x) \in Nat
      BY <1>1, <1>13 DEF LevelsRight
    <3>2. Newest(x)' \in Nat /\ Newest(x)' >= Newest(x)
      BY <3>1
    <3> QED BY <1>1, <1>14, <1>17, <1>21, <2>2, <3>1, <3>2, MeetingKept
  <2> QED BY <2>1, <2>2
<1>22. EndRight'
  <2>1. \A x \in Meeting!Searches : ended'[x] => x # t
    BY <1>1
  <2> QED BY <1>1, <1>4, <1>17, <2>1 DEF EndRight
<1> QED BY <1>18, <1>19, <1>21, <1>22 DEF MeetingInv

(* Two searches that have met each other: a vertex of the shortest way     *)
(* that is nearer to both than where they met would have been a meeting.   *)
LEMMA MetDistance ==
  ASSUME MeetingInv, NEW t \in Meeting!Searches, NEW u \in Meeting!Searches, HasMet(t, u), HasMet(u, t)
  PROVE  /\ MetDepth(t, u) \in Nat /\ MetDepth(u, t) \in Nat /\ MetDepth(t, u) > 0 /\ MetDepth(u, t) > 0
         /\ Away(t, Home(u)) \in Nat /\ Away(t, Home(u)) # Unreachable
         /\ Away(t, Home(u)) <= MetDepth(t, u) + MetDepth(u, t)
         /\ Away(t, Home(u)) >= MetDepth(t, u) + MetDepth(u, t) - 1
         /\ Away(t, Home(u)) < DepthEnd => Stored(t, u) = MetDepth(t, u) /\ Stored(u, t) = MetDepth(u, t)
<1>1. /\ t # u /\ LevelsRight(t) /\ LevelsRight(u) /\ MeetingRight(t, u) /\ MeetingRight(u, t)
      /\ Newest(t) \in Nat /\ Newest(u) \in Nat /\ Newest(u) > 0
  BY DEF MeetingInv, HasMet, LevelsRight
<1>2. PICK a, b : a = MetDepth(t, u) /\ b = MetDepth(u, t)
  OBVIOUS
<1>3. a \in Nat /\ a > 0 /\ a <= Newest(t) /\ b \in Nat /\ b > 0 /\ b <= Newest(u)
  <2>1. a \in 1..Newest(t) /\ b \in 1..Newest(u)
    BY <1>1, <1>2 DEF MeetingRight
  <2> QED BY <1>1, <2>1
<1>4. PICK g, h, D : g = Home(t) /\ h = Home(u) /\ D = Away(t, h)
  OBVIOUS
<1>5. g \in Vertices /\ h \in Vertices /\ D = Distance[g][h] /\ D \in 0..num_vertices /\ num_vertices \in Nat
  <2>1. g \in Vertices /\ h \in Vertices /\ D = Distance[g][h]
    BY <1>4, MeetingConstants DEF Home, Away
  <2> QED BY <2>1, DistanceFacts, HousesAreVertices
<1>6. D # Unreachable
  <2>1. PICK x \in Vertices : x = MetAt(t, u) /\ {t, u} \subseteq g_vertex_flag[x]
    BY <1>1 DEF MeetingRight
  <2>2. Away(t, x) # Unreachable /\ Away(u, x) # Unreachable
    BY <1>1, <2>1, MarksAre
  <2> QED BY <1>4, <1>5, <2>2, Triangle DEF Away, Home
<1>7. D <= a + b
  BY <1>1, <1>2, <1>4 DEF MeetingRight
<1>8. \A w \in Vertices : t \in g_vertex_flag[w] /\ u \in g_vertex_flag[w] =>
        a <= Away(t, w) \/ b <= Away(u, w)
  BY <1>1, <1>2 DEF MeetingRight
<1>9. \A w \in Vertices : \/ Away(t, w) \notin 0..a - 1 \/ Away(t, w) = Unreachable
                          \/ Away(u, w) \notin 0..b - 1 \/ Away(u, w) = Unreachable
  <2> SUFFICES ASSUME NEW w \in Vertices, Away(t, w) \in 0..a - 1, Away(t, w) # Unreachable,
                      Away(u, w) \in 0..b - 1, Away(u, w) # Unreachable
               PROVE  FALSE
    OBVIOUS
  <2>1. PICK i \in Nat, j \in Nat : i = Away(t, w) /\ j = Away(u, w)
    BY <1>1, MarksAre
  <2>2. i < a /\ j < b
    BY <1>3, <2>1
  <2>3. i < Newest(t) /\ j < Newest(u)
    BY <1>1, <1>3, <2>1, <2>2
  <2>4. t \in g_vertex_flag[w] /\ u \in g_vertex_flag[w]
    BY <1>1, <2>1, <2>3, MarksAre
  <2>5. a <= i \/ b <= j
    BY <1>8, <2>1, <2>4
  <2> QED BY <1>3, <2>1, <2>2, <2>5
<1>10. a <= D
  <2> SUFFICES ASSUME D < a
               PROVE  FALSE
    BY <1>3, <1>5
  <2>1. Away(u, h) = 0 /\ Away(u, h) # Unreachable
    <3>1. Distance[h][h] = 0
      BY <1>5, DistanceFacts
    <3>2. num_vertices # 0
      BY <1>5 DEF Vertices
    <3> QED BY <1>4, <3>1, <3>2 DEF Away, Home, Unreachable
  <2>2. 0 \in 0..b - 1 /\ D \in 0..a - 1
    BY <1>3, <1>5
  <2> QED BY <1>4, <1>5, <1>6, <1>9, <2>1, <2>2
<1>11. a - 1 \in 0..D
  BY <1>3, <1>5, <1>10
<1>12. PICK w \in Vertices : Distance[g][w] = a - 1 /\ Distance[h][w] = D - (a - 1)
  BY <1>5, <1>6, <1>11, Halfway
<1>13. Away(t, w) = a - 1 /\ Away(u, w) = D - (a - 1)
  BY <1>4, <1>12 DEF Away, Home
<1>14. a - 1 \in 0..a - 1 /\ a - 1 # Unreachable /\ D - (a - 1) # Unreachable
  BY <1>3, <1>5, <1>6, <1>10 DEF Unreachable
<1>15. D - (a - 1) \notin 0..b - 1
  BY <1>9, <1>13, <1>14
<1>16. D >= a + b - 1
  BY <1>3, <1>5, <1>10, <1>15
<1>17. D \in Nat
  BY <1>5
<1>18. ASSUME D < DepthEnd
       PROVE  Stored(t, u) = a /\ Stored(u, t) = b
  <2>1. Stored(t, u) = a % DepthEnd /\ Stored(u, t) = b % DepthEnd
    BY <1>1, <1>2 DEF MeetingRight
  <2>2. DepthEnd \in Nat /\ a < DepthEnd /\ b < DepthEnd
    BY <1>3, <1>16, <1>17, <1>18, MeetingAssumption
  <2>3. a % DepthEnd = a /\ b % DepthEnd = b
    BY <1>3, <2>2
  <2> QED BY <2>1, <2>3
<1> QED BY <1>2, <1>3, <1>4, <1>6, <1>7, <1>16, <1>17, <1>18

LEMMA MeetingInvGives == MeetingInv => MeetingDistance
<1> SUFFICES ASSUME MeetingInv, NEW p \in Meeting!Pairs,
                    Meeting!HaveMet(p), Meeting!RoadsBetween(p) < DepthEnd
             PROVE  Meeting!RoadsBetween(p) \in {Meeting!Sum(p) - 1, Meeting!Sum(p)}
  BY DEF MeetingDistance, Meeting!MeetingDistance
<1>1. PICK t, u : t = p[1] /\ u = p[2]
  OBVIOUS
<1>2. t \in Meeting!Searches /\ u \in Meeting!Searches /\ t # u
  BY <1>1, MeetingConstants DEF Meeting!Pairs
<1>3. HasMet(t, u) /\ HasMet(u, t)
  BY <1>1, <1>2 DEF HasMet, Meeting!HaveMet
<1>4. PICK a \in Nat, b \in Nat, D \in Nat : /\ a = MetDepth(t, u) /\ b = MetDepth(u, t) /\ D = Away(t, Home(u))
                                             /\ D <= a + b /\ D >= a + b - 1
  BY <1>2, <1>3, MetDistance
<1>5. Meeting!RoadsBetween(p) = D /\ Meeting!Sum(p) = a + b
  <2>1. Meeting!RoadsBetween(p) = D
    BY <1>1, <1>4, SameMap DEF Meeting!RoadsBetween, Away, Home
  <2>2. Stored(t, u) = a /\ Stored(u, t) = b
    BY <1>2, <1>3, <1>4, <2>1, MetDistance
  <2> QED BY <1>1, <2>1, <2>2 DEF Meeting!Sum, Stored
<1>6. D \in {(a + b) - 1, a + b}
  BY <1>4
<1> QED BY <1>5, <1>6

(* Once a search has ended, its levels are exactly its spheres, and where  *)
(* another one met it is in the level of its distance.                     *)
LEMMA LevelIs ==
  ASSUME MeetingInv, NEW t \in Meeting!Searches, NEW u \in Meeting!Searches, t # u, ended[t], ended[u]
  PROVE  /\ HasMet(t, u) /\ Away(u, MetAt(t, u)) \in 0..Newest(u) /\ Away(u, MetAt(t, u)) # Unreachable
         /\ \A d \in 0..Newest(u) : Meeting!InLevel(<<t, u>>, d) <=> Away(u, MetAt(t, u)) = d
<1>1. MeetingTypes /\ EndRight /\ LevelsRight(u) /\ MeetingRight(t, u)
  BY DEF MeetingInv
<1>2. HasMet(t, u) /\ meeting_todo[u] = <<>>
  BY <1>1 DEF EndRight, HasMet
<1>3. PICK x \in Vertices : x = MetAt(t, u) /\ u \in g_vertex_flag[x]
  BY <1>1, <1>2 DEF MeetingRight
<1>4. PICK L, c, h : L = level[u] /\ c = Newest(u) /\ h = Home(u)
  OBVIOUS
<1>5. /\ L \in Seq(Seq(Vertices)) /\ c \in Nat /\ Len(L) = c + 1
  <2>1. L \in Seq(Seq(Vertices)) /\ c \in Nat /\ c = Len(L) - 1
    BY <1>1, <1>4 DEF MeetingTypes, LevelsRight, Newest
  <2>2. PICK n \in Nat : n = Len(L)
    BY <2>1, LenProperties
  <2>3. n = c + 1
    BY <2>1, <2>2
  <2> QED BY <2>1, <2>2, <2>3
<1>6. Away(u, x) \in Nat /\ Away(u, x) <= c /\ Away(u, x) # Unreachable /\ Away(u, x) = Distance[h][x]
  BY <1>1, <1>3, <1>4, MarksAre DEF Away, Home
<1>7. \A d \in 0..c : \A v \in Vertices : Holds(L[d + 1], v) <=> v \in Sphere(h, d)
  <2>1. \A k \in 1..c : \A v \in Vertices : Holds(L[k], v) <=> v \in Sphere(h, k - 1)
    BY <1>1, <1>4 DEF LevelsRight
  <2>2. \A v \in Vertices : Holds(L[c + 1], v) <=> v \in Sphere(h, c)
    BY <1>1, <1>2, <1>4, FewHolds DEF LevelsRight
  <2>3. \A d \in 0..c : d = c \/ (d + 1 \in 1..c /\ (d + 1) - 1 = d)
    BY <1>5
  <2> QED BY <2>1, <2>2, <2>3
<1>8. ASSUME NEW d \in 0..c
      PROVE  Meeting!InLevel(<<t, u>>, d) <=> Away(u, x) = d
  <2>1. PICK vs : vs = L[d + 1]
    OBVIOUS
  <2>2. vs \in Seq(Vertices)
    <3>1. d + 1 \in 1..Len(L)
      BY <1>5
    <3> QED BY <1>5, <2>1, <3>1, ElementOfSeq
  <2>3. DOMAIN vs = 1..Len(vs)
    BY <2>2, LenProperties
  <2>4. Meeting!InLevel(<<t, u>>, d) <=> x \in {vs[k] : k \in DOMAIN vs}
    <3>1. <<t, u>>[1] = t /\ <<t, u>>[2] = u
      OBVIOUS
    <3> QED BY <1>3, <1>4, <2>1, <3>1, SameMap DEF Meeting!InLevel, MetAt
  <2>5. Meeting!InLevel(<<t, u>>, d) <=> Holds(vs, x)
    BY <2>3, <2>4 DEF Holds
  <2>6. Holds(vs, x) <=> x \in Sphere(h, d)
    BY <1>7, <2>1
  <2>7. x \in Sphere(h, d) <=> Distance[h][x] = d
    BY <1>6 DEF Sphere
  <2> QED BY <1>6, <2>5, <2>6, <2>7
<1>9. Away(u, x) \in 0..c
  BY <1>5, <1>6
<1> QED BY <1>2, <1>3, <1>4, <1>6, <1>8, <1>9

(* A meeting found a level higher than where it is looked for proves the   *)
(* shorter way; it is never higher still.                                  *)
LEMMA OneWay ==
  ASSUME MeetingInv, NEW t \in Meeting!Searches, NEW u \in Meeting!Searches, t # u, ended[t], ended[u],
         Away(t, Home(u)) < DepthEnd, NEW q, q = <<t, u>>
  PROVE  /\ Meeting!Depth(q) > 0
         /\ Meeting!InLevel(q, Meeting!Depth(q) - 1) =>
              /\ Away(t, Home(u)) = MetDepth(t, u) + MetDepth(u, t) - 1
              /\ ~Meeting!InLevel(q, Meeting!Depth(q))
         /\ Meeting!InLevel(q, Meeting!Depth(q)) => ~Meeting!InLevel(q, Meeting!Depth(q) - 1)
         /\ \/ Meeting!InLevel(q, Meeting!Depth(q) - 1) \/ Meeting!InLevel(q, Meeting!Depth(q))
            \/ Meeting!Deeper(q)
<1>1. HasMet(t, u) /\ HasMet(u, t)
  BY LevelIs
<1>2. PICK a, b, c, D, l, x : /\ a = MetDepth(t, u) /\ b = MetDepth(u, t) /\ c = Newest(u)
                              /\ D = Away(t, Home(u)) /\ x = MetAt(t, u) /\ l = Away(u, x)
  OBVIOUS
<1>3. a \in Nat /\ b \in Nat /\ a > 0 /\ b > 0 /\ D \in Nat /\ D <= a + b /\ D >= a + b - 1
  BY <1>1, <1>2, MetDistance
<1>4. c \in Nat /\ b \in 1..c /\ MeetingRight(t, u) /\ LevelsRight(t)
  BY <1>1, <1>2 DEF MeetingInv, LevelsRight, MeetingRight
<1>5. l \in 0..c /\ l # Unreachable /\ \A d \in 0..c : Meeting!InLevel(q, d) <=> l = d
  BY <1>2, LevelIs
<1>6. x \in Vertices /\ t \in g_vertex_flag[x] /\ a = Away(t, x)
  BY <1>1, <1>2, <1>4 DEF MeetingRight, MetDepth
<1>7. D <= a + l
  <2>1. Away(t, x) # Unreachable
    BY <1>4, <1>6, MarksAre
  <2>2. Home(t) \in Vertices /\ Home(u) \in Vertices
    BY MeetingConstants
  <2> QED BY <1>2, <1>5, <1>6, <2>1, <2>2, Triangle DEF Away, Home
<1>8. l >= b - 1 /\ (l = b - 1 => D = a + b - 1)
  BY <1>3, <1>4, <1>5, <1>7
<1>9. Meeting!Depth(q) = b /\ q[1] = t /\ q[2] = u
  <2>1. Stored(u, t) = b
    BY <1>1, <1>2, MetDistance
  <2> QED BY <2>1 DEF Meeting!Depth, Stored
<1>10. b - 1 \in 0..c /\ b \in 0..c /\ b - 1 # b
  BY <1>3, <1>4
<1>11. Meeting!InLevel(q, b - 1) => D = a + b - 1 /\ ~Meeting!InLevel(q, b)
  BY <1>5, <1>8, <1>10
<1>12. Meeting!InLevel(q, b) => ~Meeting!InLevel(q, b - 1)
  BY <1>11
<1>13. Meeting!InLevel(q, b - 1) \/ Meeting!InLevel(q, b) \/ Meeting!Deeper(q)
  <2>1. CASE l = b - 1 \/ l = b
    BY <1>5, <1>10, <2>1
  <2>2. CASE l # b - 1 /\ l # b
    <3>1. l \in b + 1..c
      BY <1>3, <1>4, <1>5, <1>8, <2>2
    <3>2. Meeting!InLevel(q, l)
      BY <1>5
    <3>3. Len(level[q[2]]) - 1 = c
      BY <1>2, <1>9 DEF Newest
    <3> QED BY <1>9, <3>1, <3>2, <3>3 DEF Meeting!Deeper
  <2> QED BY <2>1, <2>2
<1> QED BY <1>2, <1>3, <1>9, <1>11, <1>12, <1>13

LEMMA PairFacts ==
  ASSUME MeetingInv, \A x \in Meeting!Searches : ended[x], NEW p \in Meeting!Pairs,
         Meeting!RoadsBetween(p) < DepthEnd
  PROVE  /\ Meeting!Sum(p) \in Nat /\ Meeting!Sum(p) > 0 /\ Meeting!Sum(p) <= 2 * num_vertices
         /\ Meeting!RoadsBetween(p) \in Nat
         /\ Meeting!RoadsBetween(p) = Meeting!Sum(p) \/ Meeting!RoadsBetween(p) = Meeting!Sum(p) - 1
         /\ \A q \in Meeting!BothWays(p) :
              /\ Meeting!Depth(q) > 0
              /\ Meeting!InLevel(q, Meeting!Depth(q) - 1) =>
                   Meeting!RoadsBetween(p) = Meeting!Sum(p) - 1 /\ ~Meeting!InLevel(q, Meeting!Depth(q))
              /\ Meeting!InLevel(q, Meeting!Depth(q)) => ~Meeting!InLevel(q, Meeting!Depth(q) - 1)
              /\ \/ Meeting!InLevel(q, Meeting!Depth(q) - 1) \/ Meeting!InLevel(q, Meeting!Depth(q))
                 \/ Meeting!Deeper(q)
<1>1. PICK t, u : t = p[1] /\ u = p[2]
  OBVIOUS
<1>2. t \in Meeting!Searches /\ u \in Meeting!Searches /\ t # u /\ p = <<t, u>>
  BY <1>1, MeetingConstants DEF Meeting!Pairs
<1>3. HasMet(t, u) /\ HasMet(u, t) /\ ended[t] /\ ended[u]
  BY <1>2, LevelIs
<1>4. PICK a \in Nat, b \in Nat, D \in Nat : /\ a = MetDepth(t, u) /\ b = MetDepth(u, t) /\ D = Away(t, Home(u))
                                             /\ a > 0 /\ b > 0 /\ D <= a + b /\ D >= a + b - 1
  BY <1>2, <1>3, MetDistance
<1>5. Meeting!RoadsBetween(p) = D /\ Meeting!Sum(p) = a + b /\ Away(u, Home(t)) = D
  <2>1. Meeting!RoadsBetween(p) = D
    BY <1>1, <1>4, SameMap DEF Meeting!RoadsBetween, Away, Home
  <2>2. Stored(t, u) = a /\ Stored(u, t) = b
    BY <1>2, <1>3, <1>4, <2>1, MetDistance
  <2>3. Meeting!Sum(p) = a + b
    BY <1>1, <2>2 DEF Meeting!Sum, Stored
  <2>4. Away(u, Home(t)) = Away(t, Home(u))
    BY <1>2, MeetingConstants, DistanceSymmetric DEF Away, Home
  <2> QED BY <1>4, <2>1, <2>3, <2>4
<1>6. a <= num_vertices /\ b <= num_vertices /\ num_vertices \in Nat
  <2>1. ASSUME NEW x \in Meeting!Searches, NEW y \in Meeting!Searches, HasMet(x, y)
        PROVE  MetDepth(x, y) <= num_vertices
    <3>1. MetAt(x, y) \in Vertices /\ MetDepth(x, y) = Away(x, MetAt(x, y)) /\ Home(x) \in Vertices
      BY <2>1, MeetingConstants DEF MeetingInv, MeetingRight, HasMet, MetDepth
    <3>2. Away(x, MetAt(x, y)) \in 0..num_vertices
      BY <3>1, DistanceFacts DEF Away, Home
    <3> QED BY <3>1, <3>2, HousesAreVertices
  <2> QED BY <1>2, <1>3, <1>4, <2>1, HousesAreVertices
<1>7. a + b \in Nat /\ a + b > 0 /\ a + b <= 2 * num_vertices /\ (D = a + b \/ D = (a + b) - 1)
  <2>1. PICK n \in Nat : n = num_vertices /\ a <= n /\ b <= n
    BY <1>6
  <2>2. a + b <= 2 * n
    BY <1>4, <2>1
  <2>3. a + b \in Nat /\ a + b > 0
    BY <1>4
  <2>4. PICK e \in Nat : e = a + b /\ D <= e /\ D >= e - 1
    BY <1>4, <2>3
  <2>5. D = e \/ D = e - 1
    BY <2>4
  <2> QED BY <2>1, <2>2, <2>3, <2>4, <2>5
<1>8. PICK p2 : p2 = <<u, t>>
  OBVIOUS
<1>9. Meeting!BothWays(p) = {p, p2}
  BY <1>1, <1>2, <1>8 DEF Meeting!BothWays
<1>10. /\ Meeting!Depth(p) > 0
       /\ Meeting!InLevel(p, Meeting!Depth(p) - 1) => D = a + b - 1 /\ ~Meeting!InLevel(p, Meeting!Depth(p))
       /\ Meeting!InLevel(p, Meeting!Depth(p)) => ~Meeting!InLevel(p, Meeting!Depth(p) - 1)
       /\ \/ Meeting!InLevel(p, Meeting!Depth(p) - 1) \/ Meeting!InLevel(p, Meeting!Depth(p))
          \/ Meeting!Deeper(p)
  BY <1>2, <1>3, <1>4, <1>5, OneWay
<1>11. /\ Meeting!Depth(p2) > 0
       /\ Meeting!InLevel(p2, Meeting!Depth(p2) - 1) =>
            Away(u, Home(t)) = b + a - 1 /\ ~Meeting!InLevel(p2, Meeting!Depth(p2))
       /\ Meeting!InLevel(p2, Meeting!Depth(p2)) => ~Meeting!InLevel(p2, Meeting!Depth(p2) - 1)
       /\ \/ Meeting!InLevel(p2, Meeting!Depth(p2) - 1) \/ Meeting!InLevel(p2, Meeting!Depth(p2))
          \/ Meeting!Deeper(p2)
  BY <1>2, <1>3, <1>4, <1>5, <1>8, OneWay
<1>12. b + a - 1 = a + b - 1
  BY <1>4
<1> QED BY <1>4, <1>5, <1>7, <1>9, <1>10, <1>11, <1>12

LEMMA LargestOf ==
  ASSUME NEW S \in SUBSET Nat, NEW x \in S, \A y \in S : y <= x
  PROVE  Max(S) = x
<1>1. \A z \in S : (\A y \in S : z >= y) => z = x
  OBVIOUS
<1>2. \A y \in S : x >= y
  OBVIOUS
<1> QED BY <1>1, <1>2 DEF Max

LEMMA SmallestOf ==
  ASSUME NEW S \in SUBSET Nat, NEW x \in S, \A y \in S : x <= y
  PROVE  Min(S) = x
<1>1. \A z \in S : (\A y \in S : z <= y) => z = x
  OBVIOUS
<1> QED BY <1>1 DEF Min

LEMMA LargestExists ==
  ASSUME NEW S \in SUBSET Nat, S # {}, NEW N \in Nat, \A y \in S : y <= N
  PROVE  \E x \in S : \A y \in S : y <= x
<1>1. PICK T \in SUBSET Nat : T = {n \in Nat : \A y \in S : y <= n}
  OBVIOUS
<1>2. T # {}
  BY <1>1
<1>3. PICK m \in T : \A n \in T : m <= n
  BY <1>2, LeastElement
<1>4. m \in Nat /\ \A y \in S : y <= m
  BY <1>1
<1>5. ASSUME m \notin S
      PROVE  FALSE
  <2>1. \A y \in S : y <= m - 1 /\ y \in Nat
    BY <1>4, <1>5
  <2>2. m - 1 \in Nat
    <3>1. PICK y \in S : y \in Nat /\ y <= m - 1
      BY <2>1
    <3> QED BY <1>4, <3>1
  <2>3. m - 1 \in T
    BY <1>1, <2>1, <2>2
  <2> QED BY <1>3, <1>4, <2>3
<1> QED BY <1>4, <1>5

(* The largest and the smallest sum, and the distances beside them. *)
OneRoadOff(P, sum, road, N, sums, ds) ==
  /\ P # {} /\ N \in Nat
  /\ \A p \in P : /\ sum[p] \in Nat /\ sum[p] > 0 /\ sum[p] <= N
                  /\ road[p] \in Nat /\ (road[p] = sum[p] \/ road[p] = sum[p] - 1)
  /\ sums = {sum[p] : p \in P}
  /\ ds = {road[p] : p \in P}

LEMMA SumsAndRoads ==
  ASSUME NEW P, NEW sum, NEW road, NEW N, NEW sums, NEW ds, OneRoadOff(P, sum, road, N, sums, ds)
  PROVE  /\ Max(sums) \in Nat /\ Min(sums) \in Nat
         /\ \E p \in P : sum[p] = Max(sums)
         /\ \E p \in P : sum[p] = Min(sums)
         /\ (\A p \in P : sum[p] = Max(sums) => road[p] = sum[p] - 1) => Max(ds) = Max(sums) - 1
         /\ (\E p \in P : sum[p] = Max(sums) /\ road[p] # sum[p] - 1) => Max(ds) = Max(sums)
         /\ (\E p \in P : sum[p] = Min(sums) /\ road[p] = sum[p] - 1) => Min(ds) = Min(sums) - 1
         /\ (\A p \in P : sum[p] = Min(sums) => road[p] # sum[p] - 1) => Min(ds) = Min(sums)
<1> USE DEF OneRoadOff
<1>1. sums \in SUBSET Nat /\ sums # {} /\ ds \in SUBSET Nat /\ N \in Nat /\ (\A y \in sums : y <= N)
  OBVIOUS
<1>2. PICK b \in sums : \A y \in sums : y <= b
  BY <1>1, LargestExists
<1>3. PICK a \in sums : \A y \in sums : a <= y
  BY <1>1, LeastElement
<1>4. Max(sums) = b /\ Min(sums) = a
  BY <1>1, <1>2, <1>3, LargestOf, SmallestOf
<1>5. a \in Nat /\ b \in Nat /\ (\A p \in P : sum[p] <= b /\ a <= sum[p])
      /\ (\E p \in P : sum[p] = a) /\ (\E p \in P : sum[p] = b)
  BY <1>1, <1>2, <1>3
<1>6. ASSUME \A p \in P : sum[p] = b => road[p] = sum[p] - 1
      PROVE  Max(ds) = b - 1
  <2>1. PICK p \in P : sum[p] = b /\ road[p] = b - 1
    BY <1>5, <1>6
  <2>2. b - 1 \in ds
    BY <2>1
  <2>3. \A o \in P : road[o] <= b - 1
    BY <1>5, <1>6
  <2>4. \A y \in ds : y <= b - 1
    BY <2>3
  <2> QED BY <1>1, <2>2, <2>4, LargestOf
<1>7. ASSUME NEW p \in P, sum[p] = b, road[p] # sum[p] - 1
      PROVE  Max(ds) = b
  <2>1. b \in ds
    BY <1>7
  <2>2. \A o \in P : road[o] <= b
    BY <1>5
  <2>3. \A y \in ds : y <= b
    BY <2>2
  <2> QED BY <1>1, <2>1, <2>3, LargestOf
<1>8. ASSUME NEW p \in P, sum[p] = a, road[p] = sum[p] - 1
      PROVE  Min(ds) = a - 1
  <2>1. a - 1 \in ds
    BY <1>8
  <2>2. \A o \in P : a - 1 <= road[o]
    BY <1>5
  <2>3. \A y \in ds : a - 1 <= y
    BY <2>2
  <2> QED BY <1>1, <2>1, <2>3, SmallestOf
<1>9. ASSUME \A p \in P : sum[p] = a => road[p] # sum[p] - 1
      PROVE  Min(ds) = a
  <2>1. PICK p \in P : sum[p] = a /\ road[p] = a
    BY <1>5, <1>9
  <2>2. a \in ds
    BY <2>1
  <2>3. \A o \in P : a <= road[o]
    BY <1>5, <1>9
  <2>4. \A y \in ds : a <= y
    BY <2>3
  <2> QED BY <1>1, <2>2, <2>4, SmallestOf
<1> QED BY <1>4, <1>5, <1>6, <1>7, <1>8, <1>9

Sums == {Meeting!Sum(p) : p \in Meeting!Pairs}
Roads == {Meeting!RoadsBetween(p) : p \in Meeting!Pairs}

(* No two houses are so far apart that a depth wraps. *)
Near == \A p \in Meeting!Pairs : Meeting!RoadsBetween(p) < DepthEnd

LEMMA ResultFacts ==
  ASSUME MeetingInv, Near, \A x \in Meeting!Searches : ended[x]
  PROVE  /\ Max(Sums) \in Nat /\ Min(Sums) \in Nat
         /\ \E p \in Meeting!Pairs : Meeting!Sum(p) = Max(Sums)
         /\ \E p \in Meeting!Pairs : Meeting!Sum(p) = Min(Sums)
         /\ (\A p \in Meeting!Candidates(Max(Sums)) : Meeting!RoadsBetween(p) = Meeting!Sum(p) - 1) =>
              Max(Roads) = Max(Sums) - 1
         /\ (\E p \in Meeting!Candidates(Max(Sums)) : Meeting!RoadsBetween(p) # Meeting!Sum(p) - 1) =>
              Max(Roads) = Max(Sums)
         /\ (\E p \in Meeting!Candidates(Min(Sums)) : Meeting!RoadsBetween(p) = Meeting!Sum(p) - 1) =>
              Min(Roads) = Min(Sums) - 1
         /\ (\A p \in Meeting!Candidates(Min(Sums)) : Meeting!RoadsBetween(p) # Meeting!Sum(p) - 1) =>
              Min(Roads) = Min(Sums)
<1>1. PICK P, N : P = Meeting!Pairs /\ N = 2 * num_vertices
  OBVIOUS
<1>2. N \in Nat
  BY <1>1, HousesAreVertices
<1>3. P # {}
  <2>1. 1 \in Meeting!Searches /\ 2 \in Meeting!Searches /\ 1 < 2
    <3>1. PICK n \in Nat : n = Len(MeetingHouses) /\ n >= 2
      BY MeetingConstants
    <3> QED BY <3>1, MeetingConstants
  <2>2. <<1, 2>> \in Meeting!Pairs
    BY <2>1 DEF Meeting!Pairs
  <2> QED BY <1>1, <2>2
<1>4. PICK sum : sum = [p \in P |-> Meeting!Sum(p)]
  OBVIOUS
<1>5. PICK road : road = [p \in P |-> Meeting!RoadsBetween(p)]
  OBVIOUS
<1>6. \A p \in P : sum[p] = Meeting!Sum(p) /\ road[p] = Meeting!RoadsBetween(p)
  BY <1>4, <1>5
<1>7. \A p \in P : /\ sum[p] \in Nat /\ sum[p] > 0 /\ sum[p] <= N
                   /\ road[p] \in Nat /\ (road[p] = sum[p] \/ road[p] = sum[p] - 1)
  BY <1>1, <1>6, PairFacts DEF Near
<1>8. OneRoadOff(P, sum, road, N, Sums, Roads)
  <2>1. Sums = {sum[p] : p \in P} /\ Roads = {road[p] : p \in P}
    BY <1>1, <1>6 DEF Sums, Roads
  <2> QED BY <1>2, <1>3, <1>7, <2>1 DEF OneRoadOff
<1>9. /\ Max(Sums) \in Nat /\ Min(Sums) \in Nat
      /\ \E p \in P : sum[p] = Max(Sums)
      /\ \E p \in P : sum[p] = Min(Sums)
      /\ (\A p \in P : sum[p] = Max(Sums) => road[p] = sum[p] - 1) => Max(Roads) = Max(Sums) - 1
      /\ (\E p \in P : sum[p] = Max(Sums) /\ road[p] # sum[p] - 1) => Max(Roads) = Max(Sums)
      /\ (\E p \in P : sum[p] = Min(Sums) /\ road[p] = sum[p] - 1) => Min(Roads) = Min(Sums) - 1
      /\ (\A p \in P : sum[p] = Min(Sums) => road[p] # sum[p] - 1) => Min(Roads) = Min(Sums)
  BY <1>8, SumsAndRoads
<1>10. \A s : Meeting!Candidates(s) = {p \in P : sum[p] = s}
  BY <1>1, <1>6 DEF Meeting!Candidates
<1> QED BY <1>1, <1>6, <1>9, <1>10

(* The largest distance that MakeResult prints. *)
LEMMA LargestPrinted ==
  ASSUME MeetingInv, Near, \A x \in Meeting!Searches : ended[x],
         NEW all, all \in Meeting!AllShorter(Max(Sums)),
         NEW m, m = IF all THEN Max(Sums) - 1 ELSE Max(Sums)
  PROVE  /\ m \in Int
         /\ m - Max(Roads) = IF /\ \A p \in Meeting!Candidates(Max(Sums)) :
                                     Meeting!RoadsBetween(p) = Meeting!Sum(p) - 1
                                /\ \E p \in Meeting!Candidates(Max(Sums)) : Meeting!Hidden(p)
                               THEN 1 ELSE 0
<1>1. PICK b, D : b = Max(Sums) /\ D = Max(Roads)
  OBVIOUS
<1>2. PICK most : most = Meeting!Candidates(Max(Sums))
  OBVIOUS
<1>3. /\ b \in Nat
      /\ (\A p \in most : Meeting!RoadsBetween(p) = Meeting!Sum(p) - 1) => D = b - 1
      /\ (\E p \in most : Meeting!RoadsBetween(p) # Meeting!Sum(p) - 1) => D = b
  BY <1>1, <1>2, ResultFacts
<1>4. \A p \in most : p \in Meeting!Pairs
  BY <1>2 DEF Meeting!Candidates
<1>5. \A p \in most : \A q \in Meeting!BothWays(p) : Meeting!Depth(q) > 0
  BY <1>4, PairFacts DEF Near
<1>6. all \in BOOLEAN
      /\ ((\A p \in most : \E q \in Meeting!BothWays(p) :
             Meeting!Depth(q) > 0 /\ Meeting!InLevel(q, Meeting!Depth(q) - 1)) => all)
      /\ ((\E p \in most : \A q \in Meeting!BothWays(p) :
             Meeting!Depth(q) > 0 /\ ~(Meeting!Depth(q) > 0 /\ Meeting!InLevel(q, Meeting!Depth(q) - 1))) => ~all)
  BY <1>2, Zenon DEF Meeting!AllShorter
<1>7. CASE all
  <2>1. \A p \in most : \E q \in Meeting!BothWays(p) : Meeting!InLevel(q, Meeting!Depth(q) - 1)
    BY <1>5, <1>6, <1>7, Zenon
  <2>2. \A p \in most : Meeting!RoadsBetween(p) = Meeting!Sum(p) - 1
    BY <1>4, <2>1, PairFacts DEF Near
  <2>3. \A p \in most : ~Meeting!Hidden(p)
    BY <2>1 DEF Meeting!Hidden
  <2>4. m = b - 1 /\ D = b - 1
    BY <1>1, <1>3, <1>7, <2>2
  <2>5. m - D = 0 /\ m \in Int
    BY <1>3, <2>4
  <2> QED BY <1>1, <1>2, <2>3, <2>5
<1>8. CASE ~all
  <2>1. PICK p \in most : \A q \in Meeting!BothWays(p) : ~Meeting!InLevel(q, Meeting!Depth(q) - 1)
    BY <1>5, <1>6, <1>8, Zenon
  <2>2. m = b
    BY <1>1, <1>8
  <2>3. CASE \A o \in most : Meeting!RoadsBetween(o) = Meeting!Sum(o) - 1
    <3>1. Meeting!Hidden(p)
      BY <2>1, <2>3 DEF Meeting!Hidden
    <3>2. m - D = 1 /\ m \in Int
      BY <1>3, <2>2, <2>3
    <3> QED BY <1>1, <1>2, <2>3, <3>1, <3>2
  <2>4. CASE \E o \in most : Meeting!RoadsBetween(o) # Meeting!Sum(o) - 1
    <3>1. m - D = 0 /\ m \in Int
      BY <1>3, <2>2, <2>4
    <3> QED BY <1>1, <1>2, <2>4, <3>1
  <2> QED BY <2>3, <2>4
<1> QED BY <1>6, <1>7, <1>8

(* The smallest distance that MakeResult prints. *)
LEMMA SmallestPrinted ==
  ASSUME MeetingInv, Near, \A x \in Meeting!Searches : ended[x],
         NEW shorter, shorter \in Meeting!Shorter(Min(Sums)),
         NEW m, m = IF shorter THEN Min(Sums) - 1 ELSE Min(Sums)
  PROVE  /\ m \in Int
         /\ m - Min(Roads) \in
              IF \E p \in Meeting!Candidates(Min(Sums)) :
                   Meeting!Hidden(p) \/ \E q \in Meeting!BothWays(p) : Meeting!NoFenceBehind(q) \/ Meeting!Deeper(q)
                THEN -1..1 ELSE {0}
<1>1. PICK a, D : a = Min(Sums) /\ D = Min(Roads)
  OBVIOUS
<1>2. PICK least : least = Meeting!Candidates(Min(Sums))
  OBVIOUS
<1>3. /\ a \in Nat
      /\ (\E p \in least : Meeting!RoadsBetween(p) = Meeting!Sum(p) - 1) => D = a - 1
      /\ (\A p \in least : Meeting!RoadsBetween(p) # Meeting!Sum(p) - 1) => D = a
  BY <1>1, <1>2, ResultFacts
<1>4. \A p \in least : p \in Meeting!Pairs
  BY <1>2 DEF Meeting!Candidates
<1>5. shorter \in BOOLEAN
      /\ ((\E q \in UNION {Meeting!BothWays(p) : p \in least} :
             ~Meeting!NoFenceBehind(q) /\ ~Meeting!InLevel(q, Meeting!Depth(q))) => shorter)
      /\ ((\A q \in UNION {Meeting!BothWays(p) : p \in least} :
             ~Meeting!NoFenceBehind(q) /\ Meeting!InLevel(q, Meeting!Depth(q))) => ~shorter)
  BY <1>2, Zenon DEF Meeting!Shorter
<1>6. \A q : q \in UNION {Meeting!BothWays(p) : p \in least} <=> \E p \in least : q \in Meeting!BothWays(p)
  OBVIOUS
<1>7. (D = a - 1 \/ D = a) /\ (m = a - 1 \/ m = a)
  BY <1>1, <1>3
<1>8. PICK unsure \in BOOLEAN :
        unsure <=> \E p \in least : Meeting!Hidden(p) \/
                     \E q \in Meeting!BothWays(p) : Meeting!NoFenceBehind(q) \/ Meeting!Deeper(q)
  <2>1. (\E p \in least : Meeting!Hidden(p) \/
            \E q \in Meeting!BothWays(p) : Meeting!NoFenceBehind(q) \/ Meeting!Deeper(q)) \in BOOLEAN
    BY Zenon
  <2> QED BY <2>1, Zenon
<1>9. ASSUME ~unsure
      PROVE  m = D
  <2>1. \A p \in least : ~Meeting!Hidden(p) /\
          \A q \in Meeting!BothWays(p) : ~Meeting!NoFenceBehind(q) /\ ~Meeting!Deeper(q)
    BY <1>8, <1>9, Zenon
  <2>2. CASE \E p \in least : \E q \in Meeting!BothWays(p) : ~Meeting!InLevel(q, Meeting!Depth(q))
    <3>0. PICK p \in least : \E q \in Meeting!BothWays(p) : ~Meeting!InLevel(q, Meeting!Depth(q))
      BY <2>2
    <3>1. PICK q \in Meeting!BothWays(p) : ~Meeting!InLevel(q, Meeting!Depth(q))
      BY <3>0
    <3>2. shorter
      BY <1>5, <1>6, <2>1, <3>1, Zenon
    <3>3. Meeting!InLevel(q, Meeting!Depth(q) - 1)
      BY <1>4, <2>1, <3>1, PairFacts DEF Near
    <3>4. Meeting!RoadsBetween(p) = Meeting!Sum(p) - 1
      BY <1>4, <3>1, <3>3, PairFacts DEF Near
    <3>5. D = a - 1
      BY <1>3, <3>4
    <3> QED BY <1>1, <3>2, <3>5, Zenon
  <2>3. CASE \A p \in least : \A q \in Meeting!BothWays(p) : Meeting!InLevel(q, Meeting!Depth(q))
    <3>1. ~shorter
      BY <1>5, <1>6, <2>1, <2>3, Zenon
    <3>2. \A p \in least : \A q \in Meeting!BothWays(p) : ~Meeting!InLevel(q, Meeting!Depth(q) - 1)
      BY <1>4, <2>3, PairFacts DEF Near
    <3>3. \A p \in least : Meeting!RoadsBetween(p) # Meeting!Sum(p) - 1
      BY <2>1, <3>2 DEF Meeting!Hidden
    <3>4. D = a
      BY <1>3, <3>3
    <3> QED BY <1>1, <3>1, <3>4, Zenon
  <2> QED BY <2>2, <2>3
<1>10. m \in Int /\ m - D \in -1..1 /\ (m = D => m - D \in {0})
  BY <1>3, <1>7
<1>11. CASE unsure
  BY <1>1, <1>2, <1>8, <1>10, <1>11, Zenon
<1>12. CASE ~unsure
  BY <1>1, <1>2, <1>8, <1>9, <1>10, <1>12, Zenon
<1> QED BY <1>11, <1>12, Zenon

(* What MakeResult reads stays as it is while nobody searches. *)
LEMMA SameMeetings ==
  ASSUME level' = level, g_visit_info' = g_visit_info
  PROVE  /\ \A p : /\ Meeting!Sum(p)' = Meeting!Sum(p) /\ Meeting!RoadsBetween(p)' = Meeting!RoadsBetween(p)
                   /\ Meeting!BothWays(p)' = Meeting!BothWays(p)
                   /\ Meeting!NoFenceBehind(p)' <=> Meeting!NoFenceBehind(p)
                   /\ Meeting!Hidden(p)' <=> Meeting!Hidden(p)
                   /\ Meeting!Deeper(p)' <=> Meeting!Deeper(p)
         /\ \A s : Meeting!Candidates(s)' = Meeting!Candidates(s)
<1>1. ASSUME NEW p
      PROVE  /\ Meeting!Sum(p)' = Meeting!Sum(p) /\ Meeting!RoadsBetween(p)' = Meeting!RoadsBetween(p)
             /\ Meeting!Depth(p)' = Meeting!Depth(p) /\ Meeting!BothWays(p)' = Meeting!BothWays(p)
             /\ Meeting!NoFenceBehind(p)' <=> Meeting!NoFenceBehind(p)
  BY DEF Meeting!Sum, Meeting!RoadsBetween, Meeting!Depth, Meeting!BothWays, Meeting!NoFenceBehind
<1>2. ASSUME NEW p, NEW d
      PROVE  Meeting!InLevel(p, d)' <=> Meeting!InLevel(p, d)
  BY DEF Meeting!InLevel
<1>3. ASSUME NEW p
      PROVE  (Meeting!Hidden(p)' <=> Meeting!Hidden(p)) /\ (Meeting!Deeper(p)' <=> Meeting!Deeper(p))
  BY <1>1, <1>2 DEF Meeting!Hidden, Meeting!Deeper
<1>4. \A s : Meeting!Candidates(s)' = Meeting!Candidates(s)
  BY <1>1 DEF Meeting!Candidates
<1> QED BY <1>1, <1>3, <1>4

(* main prints what it works out when all searches have ended. *)
LEMMA MakeResultKeeps ==
  ASSUME MeetingInv, Meeting!MakeResult
  PROVE  MeetingInv'
<1>1. /\ \A x \in Meeting!Searches : ended[x]
      /\ UNCHANGED <<g_vertex_flag, level, meeting_todo, visited_flag, g_visit_info, ended>>
      /\ MeetingTypes /\ EndRight
      /\ \A x \in Meeting!Searches : LevelsRight(x)
      /\ \A x, y \in Meeting!Searches : x # y => MeetingRight(x, y)
  BY DEF Meeting!MakeResult, MeetingInv
<1>2. PICK shorter \in Meeting!Shorter(Min(Sums)), all \in Meeting!AllShorter(Max(Sums)) :
        printed' = [min |-> IF shorter THEN Min(Sums) - 1 ELSE Min(Sums),
                    max |-> IF all THEN Max(Sums) - 1 ELSE Max(Sums)]
  BY SameMap, Zenon DEF Meeting!MakeResult, Sums
<1>3. PICK m : m = IF shorter THEN Min(Sums) - 1 ELSE Min(Sums)
  OBVIOUS
<1>4. PICK M : M = IF all THEN Max(Sums) - 1 ELSE Max(Sums)
  OBVIOUS
<1>5. printed'.min = m /\ printed'.max = M
  <2>1. printed' = [min |-> m, max |-> M]
    BY <1>2, <1>3, <1>4, Zenon
  <2> QED BY <2>1
<1>6. /\ \A p : /\ Meeting!Sum(p)' = Meeting!Sum(p) /\ Meeting!RoadsBetween(p)' = Meeting!RoadsBetween(p)
                /\ Meeting!BothWays(p)' = Meeting!BothWays(p)
                /\ Meeting!NoFenceBehind(p)' <=> Meeting!NoFenceBehind(p)
                /\ Meeting!Hidden(p)' <=> Meeting!Hidden(p)
                /\ Meeting!Deeper(p)' <=> Meeting!Deeper(p)
      /\ \A s : Meeting!Candidates(s)' = Meeting!Candidates(s)
  BY <1>1, SameMeetings
<1>7. {Meeting!Sum(p)' : p \in Meeting!Pairs} = Sums /\ {Meeting!RoadsBetween(p)' : p \in Meeting!Pairs} = Roads
  BY <1>6 DEF Sums, Roads
<1>8. Near => M - Max(Roads) = IF /\ \A p \in Meeting!Candidates(Max(Sums)) :
                                       Meeting!RoadsBetween(p) = Meeting!Sum(p) - 1
                                  /\ \E p \in Meeting!Candidates(Max(Sums)) : Meeting!Hidden(p)
                                 THEN 1 ELSE 0
  BY <1>1, <1>4, LargestPrinted
<1>9. Near => m - Min(Roads) \in
              IF \E p \in Meeting!Candidates(Min(Sums)) :
                   Meeting!Hidden(p) \/ \E q \in Meeting!BothWays(p) : Meeting!NoFenceBehind(q) \/ Meeting!Deeper(q)
                THEN -1..1 ELSE {0}
  BY <1>1, <1>3, SmallestPrinted
<1>10. MinMaxRight'
  BY <1>5, <1>6, <1>7, <1>8, <1>9, SameMap, Zenon DEF MinMaxRight, Meeting!MinMaxRight, Near
<1>11. EndRight'
  BY <1>1, <1>10 DEF EndRight
<1>12. MeetingTypes'
  BY <1>1 DEF MeetingTypes
<1>13. \A x \in Meeting!Searches : LevelsRight(x)'
  BY <1>1, LevelsKept
<1>14. ASSUME NEW x \in Meeting!Searches, NEW y \in Meeting!Searches, x # y
      PROVE  MeetingRight(x, y)'
  <2>1. Newest(x)' = Newest(x) /\ Newest(x) \in Nat
    BY <1>1 DEF Newest, LevelsRight
  <2>2. Newest(x)' \in Nat /\ Newest(x)' >= Newest(x)
    BY <2>1
  <2> QED BY <1>1, <1>14, <2>1, <2>2, MeetingKept
<1> QED BY <1>11, <1>12, <1>13, <1>14 DEF MeetingInv

LEMMA MeetingStep == MeetingInv /\ [MCNext]_<<part, splitVars, vars, poolVars, meetingVars, listVars>> => MeetingInv'
<1> SUFFICES ASSUME MeetingInv, [MCNext]_<<part, splitVars, vars, poolVars, meetingVars, listVars>>
             PROVE  MeetingInv'
  OBVIOUS
<1>1. CASE UNCHANGED meetingVars
  <2>1. UNCHANGED <<g_vertex_flag, level, meeting_todo, visited_flag, g_visit_info, ended, printed>>
    BY <1>1 DEF meetingVars
  <2>2. \A x \in Meeting!Searches : LevelsRight(x)'
    BY <2>1, LevelsKept DEF MeetingInv
  <2>3. ASSUME NEW x \in Meeting!Searches, NEW y \in Meeting!Searches, x # y
        PROVE  MeetingRight(x, y)'
    <3>1. Newest(x)' = Newest(x) /\ Newest(x) \in Nat
      BY <2>1 DEF MeetingInv, Newest, LevelsRight
    <3>2. Newest(x)' \in Nat /\ Newest(x)' >= Newest(x)
      BY <3>1
    <3> QED BY <2>1, <2>3, <3>1, <3>2, MeetingKept DEF MeetingInv
  <2>4. MeetingTypes'
    BY <2>1 DEF MeetingInv, MeetingTypes
  <2>5. MinMaxRight' <=> MinMaxRight
    <3>1. /\ {Meeting!Sum(p)' : p \in Meeting!Pairs} = {Meeting!Sum(p) : p \in Meeting!Pairs}
          /\ {Meeting!RoadsBetween(p)' : p \in Meeting!Pairs} = {Meeting!RoadsBetween(p) : p \in Meeting!Pairs}
      BY <2>1, SameMeetings
    <3> QED BY <2>1, <3>1, SameMeetings, Zenon DEF MinMaxRight, Meeting!MinMaxRight
  <2>6. EndRight'
    BY <2>1, <2>5 DEF MeetingInv, EndRight
  <2> QED BY <2>2, <2>3, <2>4, <2>6 DEF MeetingInv
<1>2. CASE Meeting!MakeResult
  BY <1>2, MakeResultKeeps
<1>3. ASSUME NEW t \in Meeting!Searches, Meeting!Visit(t)
      PROVE  MeetingInv'
  <2>1. PICK v, met : v = Head(meeting_todo[t]) /\ met = g_vertex_flag[v] \ visited_flag[t]
    OBVIOUS
  <2>2. CASE t \in g_vertex_flag[v]
    BY <1>3, <2>1, <2>2, VisitOldKeeps DEF Meeting!Visit
  <2>3. CASE t \notin g_vertex_flag[v]
    <3>1. meeting_todo[t] # <<>> /\ meeting_todo' = [meeting_todo EXCEPT ![t] = Tail(@)] /\ UNCHANGED <<ended, printed>>
      BY <1>3 DEF Meeting!Visit
    <3>2. g_vertex_flag' = Meeting!Marked(t, v)
      BY <1>3, <2>1, <2>3, Zenon DEF Meeting!Visit
    <3>3. visited_flag' = [visited_flag EXCEPT ![t] = @ \cup met]
      BY <1>3, <2>1, <2>3, Zenon DEF Meeting!Visit
    <3>4. g_visit_info' = [g_visit_info EXCEPT ![t] =
            [u \in Meeting!Searches |-> IF u \in met THEN [vid |-> v, depth |-> Meeting!depth(t) % DepthEnd] ELSE @[u]]]
      BY <1>3, <2>1, <2>3, Zenon DEF Meeting!Visit
    <3>5. level' = [level EXCEPT ![t][Meeting!depth(t) + 1] = Append(@, v)]
      BY <1>3, <2>1, <2>3, Zenon DEF Meeting!Visit
    <3> QED BY <2>1, <2>3, <3>1, <3>2, <3>3, <3>4, <3>5, VisitNewKeeps
  <2> QED BY <2>2, <2>3
<1>4. ASSUME NEW t \in Meeting!Searches, Meeting!Fence(t)
      PROVE  MeetingInv'
  <2>1. CASE Meeting!MetAll(t) /\ UNCHANGED <<level, meeting_todo>> /\ ended' = [ended EXCEPT ![t] = TRUE]
    BY <1>4, <2>1, ReturnKeeps DEF Meeting!Fence
  <2>2. CASE /\ meeting_todo' = [meeting_todo EXCEPT ![t] = Meeting!Neighbors(Meeting!Last(level[t]))]
             /\ level' = [level EXCEPT ![t] = Append(@, <<>>)] /\ UNCHANGED ended
    BY <1>4, <2>2, FenceKeeps DEF Meeting!Fence
  <2> QED BY <1>4, <2>1, <2>2 DEF Meeting!Fence
<1>5. UNCHANGED meetingVars \/ Meeting!Next
  BY DEF MCNext
<1> QED BY <1>1, <1>2, <1>3, <1>4, <1>5 DEF Meeting!Next, Meeting!FindMinMaxPath

(* The invariant of Lab4's searches: levels are spheres around the house,  *)
(* and every vertex that two of them have marked was a meeting for one.    *)
(* It holds whatever the depths and up to the first write behind a queue.  *)
THEOREM MeetingInvariant == MCSpec => []MeetingInv
<1>1. MCInit => MeetingInv
  BY InitMeeting DEF MCInit
<1> QED BY <1>1, MeetingStep, PTL DEF MCSpec

(* Two of Lab4's searches that have met each other, from houses less than  *)
(* 2^16 roads apart, are as far apart as the depths of the two meetings    *)
(* add up to, or one road less: whatever the map, the houses and the       *)
(* speeds of the searches, as long as nobody writes behind a queue.        *)
THEOREM MeetingsGiveDistances == MCSpec => []MeetingDistance
  BY MeetingInvariant, MeetingInvGives, PTL

(* With all houses less than 2^16 roads apart, what MakeResult prints is   *)
(* right but for the cases that MinMaxRight names, and there it is at most *)
(* one road off, as long as nobody has written behind a queue.             *)
THEOREM MinMaxPrintedRight == MCSpec => []MinMaxRight
<1>1. MeetingInv => MinMaxRight
  <2>1. MinMaxRight <=> (printed # Meeting!NotYet => MinMaxRight)
    BY DEF MinMaxRight, Meeting!MinMaxRight
  <2> QED BY <2>1 DEF MeetingInv, EndRight
<1> QED BY <1>1, MeetingInvariant, PTL
=============================================================================
