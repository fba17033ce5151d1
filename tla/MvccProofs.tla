----------------------------- MODULE MvccProofs -----------------------------
(***************************************************************************)
(* For any number of threads and any number of updates that does not       *)
(* overflow the version counter: no assertion of UpdateAB fails, no freed  *)
(* node is read, every version a running update may still want is in its   *)
(* list, updates read from a snapshot, and the sum main prints at the end  *)
(* is the one it printed at the start.                                     *)
(***************************************************************************)
EXTENDS Mvcc, NaturalsInduction, WellFoundedInduction, TLAPS

(* The version counter stays within int. *)
NoOverflow == N + MaxUpdates <= IntMax

InUpdate(t) == pc[t] \in {"pick", "walk", "push", "erase"}

(* Version numbers: everything handed out is below the counter, and an     *)
(* update's own number is above everything in its own list until it is     *)
(* pushed.                                                                 *)
OrderInv ==
  /\ g_exec_order \in N..N + MaxUpdates
  /\ \A i \in Threads : head[i] < g_exec_order
  /\ \A t \in Threads :
       /\ Unpublished(t) => /\ my_version[t] \in Int
                            /\ head[t] < my_version[t]
                            /\ my_version[t] < g_exec_order
       /\ pc[t] = "erase" => my_version[t] = head[t]
       /\ pc[t] \notin {"assert", "freed"}

(* The active list names exactly the running updates, once each, with the  *)
(* version that was their head when they registered.                       *)
ActiveInv ==
  /\ \A j, k \in 1..Len(active) : active[j].id = active[k].id => j = k
  /\ \A k \in 1..Len(active) : /\ InUpdate(active[k].id)
                               /\ active[k].version = rv[active[k].id][active[k].id]
  /\ \A t \in Threads : InUpdate(t) => \E k \in 1..Len(active) : active[k].id = t
  /\ \A t \in Threads : Unpublished(t) => rv[t][t] = head[t]
  /\ \A t \in Threads : pc[t] = "erase" => /\ rv[t][t] = node[t][head[t]].next
                                           /\ rv[t][t] # NULL

(* Between the version a view names and the update that owns the view      *)
(* there is at most one version: the one its thread was working on.        *)
SnapInv ==
  \A t, i \in Threads : Reading(t) =>
    /\ rv[t][i] # NULL =>
         /\ rv[t][i] \in Live(i)
         /\ rv[t][i] < my_version[t]
         /\ \A x, y \in Live(i) :
              rv[t][i] < x /\ x < my_version[t] /\ rv[t][i] < y /\ y < my_version[t]
                => x = y
         /\ Unpublished(i) /\ my_version[i] < my_version[t] =>
              \A x \in Live(i) : x <= rv[t][i] \/ my_version[t] <= x
    /\ rv[t][i] = NULL =>
         /\ \E g \in Live(i) : g < my_version[t]
         /\ Unpublished(i) => my_version[t] <= my_version[i]

(* A search has not run past its target. *)
WalkInv ==
  \A t \in Threads : pc[t] = "walk" =>
    /\ cur[t] \in Live(sel[t])
    /\ rv[t][sel[t]] # NULL => rv[t][sel[t]] <= cur[t]
    /\ rv[t][sel[t]] = NULL => \A x \in Live(sel[t]) : x < my_version[t] => x <= cur[t]

(* ref_min is below every head looked at, and two versions stay above the  *)
(* next victim.                                                            *)
GcInv ==
  /\ gpc = "heads" => \A t \in Threads : t < gi => ref_min <= head[t]
  /\ gpc \in {"load", "find", "erase"} => \A t \in Threads : ref_min <= head[t]
  /\ gpc = "find" /\ gnode # NULL => gnode \in Live(gi)
  /\ gpc = "erase" => /\ gnode \in Live(gi)
                      /\ \E f \in Live(gi) : gnode < f /\ f < ref_min

IInv == TypeOK /\ OrderInv /\ NewestFirst /\ ActiveInv /\ SnapInv /\ WalkInv /\ GcInv

-----------------------------------------------------------------------------
(* int arithmetic does nothing to a value that fits.                       *)
LEMMA WrapInts == \A x \in Int : Wrap(x) \in Ints
BY IntMaxAssumption DEF Wrap, Ints

LEMMA WrapIsIdentity == \A x \in Ints : Wrap(x) = x
BY IntMaxAssumption DEF Wrap, Ints

LEMMA RemainderInt == \A a \in Int : Remainder(a, A_PLUS_B) \in Int
BY IntMaxAssumption, AAssumption DEF Remainder

LEMMA MaxSingleton == \A k \in Int : Max({k}) = k
BY DEF Max

(* What the steps below use about the constants. *)
LEMMA Constants ==
  /\ N \in Nat /\ N > 0 /\ N <= IntMax /\ IntMax \in Nat /\ MaxUpdates \in Nat
  /\ NULL \notin Int
  /\ Threads \subseteq Nat
  /\ \A x : x \in Ints <=> x \in Int /\ -IntMax - 1 <= x /\ x <= IntMax
  /\ NoOverflow => LastOrder = N + MaxUpdates
<1>1. NoOverflow => N + MaxUpdates \in Ints
  BY NAssumption, IntMaxAssumption, MaxUpdatesAssumption DEF NoOverflow, Ints
<1>2. QED
  BY <1>1, WrapIsIdentity, NAssumption, IntMaxAssumption, NullAssumption, MaxUpdatesAssumption
     DEF Threads, Ints, LastOrder

(* The entries of the active list, one by one. *)
LEMMA ActiveEntries ==
  TypeOK => /\ Len(active) \in Nat
            /\ \A k \in 1..Len(active) : active[k].id \in Threads /\ active[k].version \in Ints
<1> DEFINE Entry == [id : Threads, version : Ints]
<1> SUFFICES ASSUME active \in Seq(Entry)
             PROVE  /\ Len(active) \in Nat
                    /\ \A k \in 1..Len(active) : active[k].id \in Threads /\ active[k].version \in Ints
  BY DEF TypeOK
<1>1. \A e \in Entry : e.id \in Threads /\ e.version \in Ints
  OBVIOUS
<1> HIDE DEF Entry
<1>2. Len(active) \in Nat /\ \A k \in 1..Len(active) : active[k] \in Entry
  OBVIOUS
<1>3. QED
  BY <1>1, <1>2

LEMMA InitIInv == NoOverflow /\ Init => IInv
<1> SUFFICES ASSUME NoOverflow, Init PROVE IInv
  OBVIOUS
<1> USE NAssumption, IntMaxAssumption, NullAssumption, AAssumption, MaxUpdatesAssumption
        DEF Init, NoOverflow, Threads, Ints, Ptr
<1>0. PICK a \in [Threads -> InitialA] :
        node = [i \in Threads |->
                 [v \in {i} |-> [next |-> NULL, A |-> a[i], B |-> A_PLUS_B - a[i]]]]
  OBVIOUS
<1>1. TypeOK
  <2>1. node = [i \in Threads |-> node[i]]
    BY <1>0
  <2>2. ASSUME NEW i \in Threads
        PROVE  /\ DOMAIN node[i] \subseteq Ints
               /\ node[i] \in [DOMAIN node[i] -> [next : Ptr, A : Ints, B : Ints]]
    <3>1. node[i] = [v \in {i} |-> [next |-> NULL, A |-> a[i], B |-> A_PLUS_B - a[i]]]
      BY <1>0
    <3>2. a[i] \in 0..A_PLUS_B - 1
      BY AAssumption
    <3> HIDE DEF Init
    <3>3. a[i] \in Ints /\ A_PLUS_B - a[i] \in Ints /\ i \in Ints
      BY <3>2
    <3>4. QED
      BY <3>1, <3>3
  <2>3. active \in Seq([id : Threads, version : Ints])
    OBVIOUS
  <2>4. g_over \in BOOLEAN
    OBVIOUS
  <2>5. QED
    BY <2>1, <2>2, <2>3, <2>4 DEF TypeOK, UpdaterLocations, CollectorLocations, NoData, NoView
<1>2. OrderInv BY DEF OrderInv, Unpublished
<1>3. NewestFirst BY <1>0 DEF NewestFirst, Live
<1>4. ActiveInv BY DEF ActiveInv, InUpdate, Unpublished
<1>5. SnapInv /\ WalkInv /\ GcInv BY DEF SnapInv, WalkInv, GcInv, Reading
<1>6. QED BY <1>1, <1>2, <1>3, <1>4, <1>5 DEF IInv

-----------------------------------------------------------------------------
(* The test of g_over: nothing but pc changes, and pc only between places  *)
(* outside the update.                                                     *)
LEMMA LoopTestKeeps ==
  ASSUME NoOverflow, IInv, NEW t \in Threads, LoopTest(t)
  PROVE  IInv'
<1> USE DEF IInv
<1>1. /\ \A s \in Threads : s # t => pc'[s] = pc[s]
      /\ pc[t] = "top" /\ pc'[t] \in {"begin", "done"}
      /\ pc' \in [Threads -> UpdaterLocations]
  BY DEF LoopTest, Goto, TypeOK, UpdaterLocations
<1>2. UNCHANGED <<g_exec_order, g_over, active, head, node, my_version, rv, sel, cur, data_i,
                  gpc, ref_min, gi, gnode, main>>
  BY DEF LoopTest, updater, collector
<1>3. TypeOK'
  BY <1>1, <1>2 DEF TypeOK
<1>4. OrderInv' /\ NewestFirst' /\ WalkInv' /\ GcInv'
  BY <1>1, <1>2 DEF OrderInv, NewestFirst, WalkInv, GcInv, Unpublished, Live
<1>5. ActiveInv'
  BY <1>1, <1>2, ActiveEntries DEF ActiveInv, InUpdate, Unpublished
<1>6. SnapInv'
  BY <1>1, <1>2 DEF SnapInv, Reading, Unpublished, Live
<1>7. QED
  BY <1>3, <1>4, <1>5, <1>6

(* Choosing a thread and loading the head of its list. *)
LEMMA PickKeeps ==
  ASSUME NoOverflow, IInv, NEW t \in Threads, Pick(t)
  PROVE  IInv'
<1> USE DEF IInv
<1>1. /\ \A s \in Threads : s # t => pc'[s] = pc[s]
      /\ pc[t] = "pick" /\ pc'[t] = "walk"
      /\ pc' \in [Threads -> UpdaterLocations]
  BY DEF Pick, Goto, TypeOK, UpdaterLocations
<1>2. UNCHANGED <<g_exec_order, g_over, active, head, node, my_version, rv, data_i,
                  gpc, ref_min, gi, gnode, main>>
  BY DEF Pick, collector
<1>3. PICK i \in Threads : /\ sel' = [sel EXCEPT ![t] = i]
                           /\ cur' = [cur EXCEPT ![t] = head[i]]
  BY DEF Pick
<1>4. TypeOK'
  <2>1. head[i] \in Ptr
    BY DEF TypeOK, Ptr
  <2>2. sel' \in [Threads -> Threads] /\ cur' \in [Threads -> Ptr]
    BY <1>3, <2>1 DEF TypeOK
  <2>3. QED
    BY <1>1, <1>2, <2>2 DEF TypeOK
<1>5. OrderInv' /\ NewestFirst' /\ GcInv'
  BY <1>1, <1>2 DEF OrderInv, NewestFirst, GcInv, Unpublished, Live
<1>6. ActiveInv'
  BY <1>1, <1>2, ActiveEntries DEF ActiveInv, InUpdate, Unpublished
<1>7. SnapInv'
  BY <1>1, <1>2 DEF SnapInv, Reading, Unpublished, Live
<1>8. WalkInv'
  <2>1. sel'[t] = i /\ cur'[t] = head[i]
        /\ \A s \in Threads : s # t => sel'[s] = sel[s] /\ cur'[s] = cur[s]
    BY <1>3 DEF TypeOK
  <2>2. \A x \in Live(i) : x <= head[i]
    BY DEF NewestFirst
  <2>3. head[i] \in Live(i)
    BY DEF NewestFirst
  <2>4. rv[t][i] # NULL => rv[t][i] \in Live(i)
    BY <1>1 DEF SnapInv, Reading
  <2>5. QED
    BY <1>1, <1>2, <2>1, <2>2, <2>3, <2>4 DEF WalkInv, Live
<1>9. QED
  BY <1>4, <1>5, <1>6, <1>7, <1>8

(* One round of the search.  The first two alternatives are the only ones  *)
(* that can happen: the target is live and the search has not passed it.   *)
LEMMA WalkKeeps ==
  ASSUME NoOverflow, IInv, NEW t \in Threads, Walk(t)
  PROVE  IInv'
<1> USE DEF IInv
<1> DEFINE i == sel[t]
           v == cur[t]
<1>1. pc[t] = "walk"
  BY DEF Walk, Goto
<1>2. /\ i \in Threads /\ v \in Live(i) /\ v \in Int /\ v # NULL
      /\ my_version[t] \in Int
      /\ rv[t][i] # NULL => rv[t][i] \in Live(i) /\ rv[t][i] \in Int /\ rv[t][i] <= v
      /\ rv[t][i] = NULL => \A x \in Live(i) : x < my_version[t] => x <= v
  <2>1. i \in Threads /\ v \in Live(i)
    BY <1>1 DEF TypeOK, WalkInv
  <2>2. Live(i) \subseteq Int
    BY <2>1, Constants DEF TypeOK, Live
  <2>3. my_version[t] \in Int
    BY <1>1 DEF OrderInv, Unpublished
  <2>4. rv[t][i] # NULL => rv[t][i] \in Live(i)
    BY <1>1, <2>1 DEF SnapInv, Reading
  <2>5. QED
    BY <1>1, <2>1, <2>2, <2>3, <2>4, Constants DEF WalkInv
<1>3. UNCHANGED <<g_exec_order, g_over, active, head, node, my_version, rv, sel,
                  gpc, ref_min, gi, gnode, main>>
  BY DEF Walk, collector
<1>4. \/ /\ IsTarget(t, i, v)
         /\ pc' = [pc EXCEPT ![t] = "push"]
         /\ data_i' = [data_i EXCEPT ![t] = [version |-> v, A |-> node[i][v].A]]
         /\ cur' = cur
      \/ /\ ~IsTarget(t, i, v)
         /\ pc' = [pc EXCEPT ![t] = "walk"]
         /\ cur' = [cur EXCEPT ![t] = node[i][v].next]
         /\ data_i' = data_i
  BY <1>2 DEF Walk, Goto, Live
<1>5. /\ \A s \in Threads : s # t => pc'[s] = pc[s] /\ cur'[s] = cur[s]
      /\ pc'[t] \in {"push", "walk"}
      /\ pc' \in [Threads -> UpdaterLocations]
  BY <1>1, <1>4 DEF TypeOK, UpdaterLocations
<1>6. ~IsTarget(t, i, v) =>
        /\ node[i][v].next \in Live(i)
        /\ rv[t][i] # NULL => rv[t][i] <= node[i][v].next
        /\ rv[t][i] = NULL => \A x \in Live(i) : x < my_version[t] => x <= node[i][v].next
  <2> SUFFICES ASSUME ~IsTarget(t, i, v)
               PROVE  /\ node[i][v].next \in Live(i)
                      /\ rv[t][i] # NULL => rv[t][i] <= node[i][v].next
                      /\ rv[t][i] = NULL =>
                           \A x \in Live(i) : x < my_version[t] => x <= node[i][v].next
    OBVIOUS
  <2>1. Live(i) \subseteq Int
    BY <1>2, Constants DEF TypeOK, Live
  <2>2. CASE rv[t][i] # NULL
    <3>1. rv[t][i] < v
      BY <1>2, <2>2 DEF IsTarget
    <3>2. QED
      BY <1>2, <2>1, <2>2, <3>1 DEF NewestFirst
  <2>3. CASE rv[t][i] = NULL
    <3>1. my_version[t] <= v
      BY <1>2, <2>3 DEF IsTarget
    <3>2. PICK g \in Live(i) : g < my_version[t]
      BY <1>1, <1>2, <2>3 DEF SnapInv, Reading
    <3>3. g < v
      BY <1>2, <2>1, <3>1, <3>2
    <3>4. node[i][v].next # NULL
      BY <1>2, <2>1, <3>3 DEF NewestFirst
    <3>5. node[i][v].next \in Live(i) /\ \A w \in Live(i) : w < v => w <= node[i][v].next
      BY <1>2, <3>4 DEF NewestFirst
    <3>6. QED
      BY <1>2, <2>1, <2>3, <3>1, <3>5
  <2>4. QED
    BY <2>2, <2>3
<1>7. TypeOK'
  <2>1. node[i][v].next \in Ptr /\ node[i][v].A \in Ints
    BY <1>2 DEF TypeOK, Live
  <2>2. v \in Ptr
    BY DEF TypeOK
  <2>3. cur' \in [Threads -> Ptr]
    BY <1>4, <2>1 DEF TypeOK
  <2>4. data_i' \in [Threads -> [version : Ptr, A : Ints]]
    <3> DEFINE D == [version : Ptr, A : Ints]
    <3>1. [version |-> v, A |-> node[i][v].A] \in D
      BY <2>1, <2>2
    <3>2. data_i \in [Threads -> D]
      BY DEF TypeOK
    <3> HIDE DEF D
    <3>3. data_i' \in [Threads -> D]
      BY <1>4, <3>1, <3>2
    <3>4. QED BY <3>3 DEF D
  <2>5. QED
    BY <1>3, <1>5, <2>3, <2>4 DEF TypeOK
<1>8. OrderInv' /\ NewestFirst' /\ GcInv'
  BY <1>1, <1>3, <1>5 DEF OrderInv, NewestFirst, GcInv, Unpublished, Live
<1>9. ActiveInv'
  BY <1>1, <1>3, <1>5, ActiveEntries DEF ActiveInv, InUpdate, Unpublished
<1>10. SnapInv'
  BY <1>1, <1>3, <1>5 DEF SnapInv, Reading, Unpublished, Live
<1>11. WalkInv'
  <2>1. ASSUME NEW s \in Threads, pc'[s] = "walk", s # t
        PROVE  /\ cur'[s] \in Live(sel[s])
               /\ rv[s][sel[s]] # NULL => rv[s][sel[s]] <= cur'[s]
               /\ rv[s][sel[s]] = NULL =>
                    \A x \in Live(sel[s]) : x < my_version[s] => x <= cur'[s]
    BY <1>5, <2>1 DEF WalkInv
  <2>2. ASSUME pc'[t] = "walk"
        PROVE  cur'[t] = node[i][v].next /\ ~IsTarget(t, i, v)
    BY <1>4, <2>2 DEF TypeOK
  <2>3. QED
    BY <1>3, <1>6, <2>1, <2>2 DEF WalkInv, Live
<1>12. QED
  BY <1>7, <1>8, <1>9, <1>10, <1>11

(* The entry a search of a read view finds, when ids are unique. *)
LEMMA ReadViewFinds ==
  ASSUME NEW list, Len(list) \in Nat,
         \A j, k \in 1..Len(list) : list[j].id = list[k].id => j = k
  PROVE  /\ \A k \in 1..Len(list) : list[k].id \in Threads =>
              ReadView(list)[list[k].id] = list[k].version
         /\ \A i \in Threads : (\A k \in 1..Len(list) : list[k].id # i) =>
              ReadView(list)[i] = NULL
<1>1. ASSUME NEW k \in 1..Len(list), list[k].id \in Threads
      PROVE  ReadView(list)[list[k].id] = list[k].version
  <2>1. {j \in 1..Len(list) : list[j].id = list[k].id} = {k}
    OBVIOUS
  <2>2. QED
    BY <1>1, <2>1, MaxSingleton DEF ReadView
<1>2. ASSUME NEW i \in Threads, \A k \in 1..Len(list) : list[k].id # i
      PROVE  ReadView(list)[i] = NULL
  <2>1. {j \in 1..Len(list) : list[j].id = i} = {}
    BY <1>2
  <2>2. QED
    BY <2>1 DEF ReadView
<1>3. QED
  BY <1>1, <1>2

(* The active list and the view after a registration: the view names the   *)
(* registered version of every running update and of the new one, and      *)
(* nothing for a thread between updates.                                   *)
LEMMA BeginView ==
  ASSUME NoOverflow, IInv, NEW t \in Threads, Begin(t)
  PROVE  /\ Len(active') = Len(active) + 1 /\ Len(active) \in Nat
         /\ active'[1].id = t /\ active'[1].version = head[t]
         /\ \A k \in 1..Len(active) : active'[k + 1] = active[k]
         /\ \A k \in 1..Len(active') :
                  k = 1 \/ (k - 1 \in 1..Len(active) /\ active'[k] = active[k - 1])
         /\ active' \in Seq([id : Threads, version : Ints])
         /\ \A k \in 1..Len(active) : active[k].id # t
         /\ \A j, k \in 1..Len(active') : active'[j].id = active'[k].id => j = k
         /\ rv'[t] = ReadView(active')
         /\ rv'[t][t] = head[t]
         /\ \A i \in Threads : i # t /\ InUpdate(i) => rv'[t][i] = rv[i][i]
         /\ \A i \in Threads : i # t /\ ~InUpdate(i) => rv'[t][i] = NULL
<1> USE DEF IInv
<1>1. pc[t] = "begin"
  BY DEF Begin, Goto
<1>5. /\ Len(active') = Len(active) + 1 /\ Len(active) \in Nat
      /\ active'[1].id = t /\ active'[1].version = head[t]
      /\ \A k \in 1..Len(active) : active'[k + 1] = active[k]
      /\ \A k \in 1..Len(active') : k = 1 \/ (k - 1 \in 1..Len(active) /\ active'[k] = active[k - 1])
      /\ active' \in Seq([id : Threads, version : Ints])
  <2> DEFINE Entry == [id : Threads, version : Ints]
             e == [id |-> t, version |-> head[t]]
  <2>1. e \in Entry /\ active \in Seq(Entry) /\ active' = <<e>> \o active
    BY DEF TypeOK, Begin
  <2>2. e.id = t /\ e.version = head[t]
    OBVIOUS
  <2> HIDE DEF Entry, e
  <2>3. active' \in Seq(Entry) /\ Len(active') = Len(active) + 1 /\ active'[1] = e
        /\ Len(active) \in Nat
    BY <2>1
  <2>4. \A k \in 1..Len(active) : active'[k + 1] = active[k]
    BY <2>1
  <2>5. QED
    BY <2>2, <2>3, <2>4 DEF Entry
<1>6. \A k \in 1..Len(active) : active[k].id # t
  BY <1>1, ActiveEntries DEF ActiveInv, InUpdate
<1>7. \A j, k \in 1..Len(active') : active'[j].id = active'[k].id => j = k
  <2> SUFFICES ASSUME NEW j \in 1..Len(active'), NEW k \in 1..Len(active'),
                      active'[j].id = active'[k].id
               PROVE  j = k
    OBVIOUS
  <2>1. CASE j = 1 \/ k = 1
    BY <1>5, <1>6, <2>1
  <2>2. CASE j # 1 /\ k # 1
    <3>1. /\ j - 1 \in 1..Len(active) /\ active'[j] = active[j - 1]
          /\ k - 1 \in 1..Len(active) /\ active'[k] = active[k - 1]
      BY <1>5, <2>2
    <3>2. j - 1 = k - 1
      BY <3>1 DEF ActiveInv
    <3>3. QED
      BY <3>2
  <2>3. QED
    BY <2>1, <2>2
<1>8. rv'[t] = ReadView(active')
  BY DEF Begin, TypeOK
<1>9. /\ rv'[t][t] = head[t]
      /\ \A i \in Threads : i # t /\ InUpdate(i) => rv'[t][i] = rv[i][i]
      /\ \A i \in Threads : i # t /\ ~InUpdate(i) => rv'[t][i] = NULL
  <2>0. /\ \A k \in 1..Len(active') : active'[k].id \in Threads =>
              rv'[t][active'[k].id] = active'[k].version
        /\ \A i \in Threads : (\A k \in 1..Len(active') : active'[k].id # i) =>
              rv'[t][i] = NULL
    <3>1. Len(active') \in Nat
      BY <1>5
    <3>2. QED
      BY <1>7, <1>8, <3>1, ReadViewFinds
  <2>1. rv'[t][t] = head[t]
    <3>1. 1 \in 1..Len(active') /\ active'[1].id = t /\ active'[1].version = head[t]
      BY <1>5
    <3>2. QED
      BY <2>0, <3>1
  <2>2. ASSUME NEW i \in Threads, i # t, InUpdate(i)
        PROVE  rv'[t][i] = rv[i][i]
    <3>1. PICK k \in 1..Len(active) : active[k].id = i /\ active[k].version = rv[i][i]
      BY <2>2 DEF ActiveInv
    <3>2. k + 1 \in 1..Len(active') /\ active'[k + 1].id = i /\ active'[k + 1].version = rv[i][i]
      BY <1>5, <3>1
    <3>3. QED
      BY <2>0, <3>2
  <2>3. ASSUME NEW i \in Threads, i # t, ~InUpdate(i)
        PROVE  rv'[t][i] = NULL
    <3>1. ASSUME NEW k \in 1..Len(active') PROVE active'[k].id # i
      <4>1. CASE k = 1
        BY <1>5, <2>3, <4>1
      <4>2. CASE k # 1
        <5>1. k - 1 \in 1..Len(active) /\ active'[k] = active[k - 1]
          BY <1>5, <4>2
        <5>2. InUpdate(active[k - 1].id)
          BY <5>1 DEF ActiveInv
        <5>3. QED
          BY <2>3, <5>1, <5>2
      <4>3. QED
        BY <4>1, <4>2
    <3>2. QED
      BY <2>0, <3>1
  <2>4. QED
    BY <2>1, <2>2, <2>3
<1>10. QED
  BY <1>5, <1>6, <1>7, <1>8, <1>9

(* Registration.  The new update's number is above every version; for each *)
(* thread its view names the registered version of a running update, and   *)
(* nothing for a thread between updates.                                   *)
LEMMA BeginKeeps ==
  ASSUME NoOverflow, IInv, NEW t \in Threads, Begin(t)
  PROVE  IInv'
<1> USE DEF IInv
<1>1. /\ \A s \in Threads : s # t => pc'[s] = pc[s]
      /\ pc[t] = "begin" /\ pc'[t] = "pick"
      /\ pc' \in [Threads -> UpdaterLocations]
  BY DEF Begin, Goto, TypeOK, UpdaterLocations
<1>2. UNCHANGED <<g_over, head, node, sel, cur, data_i, main, gpc, ref_min, gi, gnode>>
  BY DEF Begin, collector
<1>3. g_exec_order' = g_exec_order + 1 /\ g_exec_order' \in N..N + MaxUpdates
      /\ g_exec_order' \in Ints /\ g_exec_order \in Int
  <2>1. g_exec_order \in N..N + MaxUpdates /\ g_exec_order # N + MaxUpdates
    BY Constants DEF OrderInv, Begin
  <2>2. g_exec_order + 1 \in Ints /\ g_exec_order + 1 \in N..N + MaxUpdates
        /\ g_exec_order \in Int
    BY <2>1, Constants DEF NoOverflow
  <2>3. QED
    BY <2>2, WrapIsIdentity DEF Begin
<1>4. /\ my_version'[t] = g_exec_order
      /\ \A s \in Threads : s # t => my_version'[s] = my_version[s]
      /\ \A s \in Threads : s # t => rv'[s] = rv[s]
  BY DEF Begin, TypeOK
<1>5. /\ Len(active') = Len(active) + 1 /\ Len(active) \in Nat
      /\ active'[1].id = t /\ active'[1].version = head[t]
      /\ \A k \in 1..Len(active) : active'[k + 1] = active[k]
      /\ \A k \in 1..Len(active') : k = 1 \/ (k - 1 \in 1..Len(active) /\ active'[k] = active[k - 1])
      /\ active' \in Seq([id : Threads, version : Ints])
  BY BeginView
<1>6. \A k \in 1..Len(active) : active[k].id # t
  BY BeginView
<1>7. \A j, k \in 1..Len(active') : active'[j].id = active'[k].id => j = k
  BY BeginView
<1>8. rv'[t] = ReadView(active')
  BY BeginView
<1>9. /\ rv'[t][t] = head[t]
      /\ \A i \in Threads : i # t /\ InUpdate(i) => rv'[t][i] = rv[i][i]
      /\ \A i \in Threads : i # t /\ ~InUpdate(i) => rv'[t][i] = NULL
  BY BeginView
<1>10. TypeOK'
  <2>1. my_version' \in [Threads -> Ptr]
    BY <1>3, Constants DEF Begin, TypeOK, Ptr
  <2>2. ReadView(active') \in [Threads -> Ptr]
    <3>1. \A i \in Threads : rv'[t][i] \in Ptr
      BY <1>9 DEF TypeOK, Ptr
    <3>2. QED
      BY <1>8, <3>1 DEF ReadView
  <2>3. rv' \in [Threads -> [Threads -> Ptr]]
    BY <2>2 DEF Begin, TypeOK
  <2>4. QED
    BY <1>1, <1>2, <1>3, <1>5, <2>1, <2>3 DEF TypeOK
<1>11. OrderInv'
  <2>1. \A i \in Threads : head[i] \in Int
    BY Constants DEF TypeOK
  <2>2. QED
    BY <1>1, <1>2, <1>3, <1>4, <2>1 DEF OrderInv, Unpublished
<1>12. NewestFirst' /\ GcInv'
  BY <1>2 DEF NewestFirst, GcInv, Live
<1>13. ActiveInv'
  <2>1. \A k \in 1..Len(active') : /\ pc'[active'[k].id] \in {"pick", "walk", "push", "erase"}
                                   /\ active'[k].version = rv'[active'[k].id][active'[k].id]
    <3> SUFFICES ASSUME NEW k \in 1..Len(active')
                 PROVE  /\ pc'[active'[k].id] \in {"pick", "walk", "push", "erase"}
                        /\ active'[k].version = rv'[active'[k].id][active'[k].id]
      OBVIOUS
    <3>1. CASE k = 1
      BY <1>1, <1>5, <1>9, <3>1
    <3>2. CASE k # 1
      <4>1. k - 1 \in 1..Len(active) /\ active'[k] = active[k - 1]
        BY <1>5, <3>2
      <4>2. /\ active[k - 1].id \in Threads /\ active[k - 1].id # t
            /\ pc[active[k - 1].id] \in {"pick", "walk", "push", "erase"}
            /\ active[k - 1].version = rv[active[k - 1].id][active[k - 1].id]
        BY <1>6, <4>1, ActiveEntries DEF ActiveInv, InUpdate
      <4>3. QED
        BY <1>1, <1>4, <4>1, <4>2
    <3>3. QED
      BY <3>1, <3>2
  <2>2. \A s \in Threads : InUpdate(s)' => \E k \in 1..Len(active') : active'[k].id = s
    <3> SUFFICES ASSUME NEW s \in Threads, InUpdate(s)'
                 PROVE  \E k \in 1..Len(active') : active'[k].id = s
      OBVIOUS
    <3>1. CASE s = t
      BY <1>5, <3>1
    <3>2. CASE s # t
      <4>1. PICK k \in 1..Len(active) : active[k].id = s
        BY <1>1, <3>2 DEF ActiveInv, InUpdate
      <4>2. k + 1 \in 1..Len(active') /\ active'[k + 1].id = s
        BY <1>5, <4>1
      <4>3. QED
        BY <4>2
    <3>3. QED
      BY <3>1, <3>2
  <2>3. \A s \in Threads : Unpublished(s)' => rv'[s][s] = head'[s]
    BY <1>1, <1>2, <1>4, <1>9 DEF ActiveInv, Unpublished
  <2>4. \A s \in Threads : pc'[s] = "erase" => /\ rv'[s][s] = node'[s][head'[s]].next
                                               /\ rv'[s][s] # NULL
    BY <1>1, <1>2, <1>4 DEF ActiveInv
  <2>5. QED
    BY <1>7, <2>1, <2>2, <2>3, <2>4 DEF ActiveInv, InUpdate, Unpublished
<1>14. SnapInv'
  <2> DEFINE Ok(s, i) ==
        /\ rv'[s][i] # NULL =>
             /\ rv'[s][i] \in Live(i)
             /\ rv'[s][i] < my_version'[s]
             /\ \A x, y \in Live(i) :
                  rv'[s][i] < x /\ x < my_version'[s] /\ rv'[s][i] < y /\ y < my_version'[s]
                    => x = y
             /\ Unpublished(i)' /\ my_version'[i] < my_version'[s] =>
                  \A x \in Live(i) : x <= rv'[s][i] \/ my_version'[s] <= x
        /\ rv'[s][i] = NULL =>
             /\ \E g \in Live(i) : g < my_version'[s]
             /\ Unpublished(i)' => my_version'[s] <= my_version'[i]
  <2>0. \A i \in Threads : Live(i) \subseteq Int /\ head[i] \in Live(i)
                           /\ head[i] < g_exec_order /\ \A x \in Live(i) : x <= head[i]
    BY Constants DEF TypeOK, Live, NewestFirst, OrderInv
  <2>1. ASSUME NEW i \in Threads
        PROVE  Ok(t, i)
    <3>1. CASE i = t
      BY <1>3, <1>4, <1>9, <2>0, <3>1
    <3>2. CASE i # t /\ Unpublished(i)
      <4>1. rv'[t][i] = head[i]
        BY <1>9, <3>2 DEF ActiveInv, Unpublished, InUpdate
      <4>2. QED
        <5>1. head[i] # NULL
          BY <2>0, Constants
        <5>2. QED
          BY <1>3, <1>4, <2>0, <4>1, <5>1
    <3>3. CASE i # t /\ pc[i] = "erase"
      <4>1. rv'[t][i] = node[i][head[i]].next /\ rv'[t][i] # NULL
        BY <1>9, <3>3 DEF ActiveInv, InUpdate
      <4>2. rv'[t][i] \in Live(i) /\ rv'[t][i] < head[i]
            /\ \A w \in Live(i) : w < head[i] => w <= rv'[t][i]
        BY <2>0, <4>1 DEF NewestFirst
      <4>3. ~Unpublished(i)'
        BY <1>1, <3>3 DEF Unpublished
      <4>4. QED
        BY <1>3, <1>4, <2>0, <4>1, <4>2, <4>3
    <3>4. CASE i # t /\ ~InUpdate(i)
      <4>1. rv'[t][i] = NULL /\ ~Unpublished(i)'
        BY <1>1, <1>9, <3>4 DEF InUpdate, Unpublished
      <4>2. QED
        BY <1>3, <1>4, <2>0, <4>1
    <3>5. QED
      BY <3>1, <3>2, <3>3, <3>4 DEF InUpdate, Unpublished
  <2>2. ASSUME NEW s \in Threads, NEW i \in Threads, s # t, Reading(s)
        PROVE  Ok(s, i)
    <3>1. rv'[s] = rv[s] /\ my_version'[s] = my_version[s]
          /\ my_version[s] \in Int /\ my_version[s] < g_exec_order
      BY <1>4, <2>2 DEF OrderInv, Unpublished, Reading
    <3>2. CASE i = t
      <4>1. Unpublished(i)' /\ my_version'[i] = g_exec_order
        BY <1>1, <1>4, <3>2 DEF Unpublished
      <4>2. QED
        BY <1>3, <2>2, <3>1, <3>2, <4>1 DEF SnapInv
    <3>3. CASE i # t
      <4>1. my_version'[i] = my_version[i] /\ (Unpublished(i)' <=> Unpublished(i))
        BY <1>1, <1>4, <3>3 DEF Unpublished
      <4>2. QED
        BY <2>2, <3>1, <4>1 DEF SnapInv
    <3>4. QED
      BY <3>2, <3>3
  <2>3. \A s \in Threads : Reading(s)' => s = t \/ Reading(s)
    BY <1>1 DEF Reading
  <2>4. \A s, i \in Threads : Reading(s)' => Ok(s, i)
    BY <2>1, <2>2, <2>3
  <2>5. QED
    BY <1>2, <2>4 DEF SnapInv, Live
<1>15. WalkInv'
  BY <1>1, <1>2, <1>4 DEF WalkInv, Live
<1>16. QED
  BY <1>10, <1>11, <1>12, <1>13, <1>14, <1>15

(* Publication.  The new node is above the whole list; whoever had a view  *)
(* of the thread's running update now has exactly one version in between.  *)
LEMMA PushKeeps ==
  ASSUME NoOverflow, IInv, NEW t \in Threads, Push(t)
  PROVE  IInv'
<1> USE DEF IInv
<1> DEFINE m == my_version[t]
           h == head[t]
<1>1. /\ \A s \in Threads : s # t => pc'[s] = pc[s]
      /\ pc[t] = "push" /\ pc'[t] = "erase"
      /\ pc' \in [Threads -> UpdaterLocations]
  BY DEF Push, Goto, TypeOK, UpdaterLocations
<1>2. UNCHANGED <<g_exec_order, g_over, active, main, my_version, rv, sel, cur, data_i,
                  gpc, ref_min, gi, gnode>>
  BY DEF Push, updater, collector
<1>3. /\ \A i \in Threads : Live(i) \subseteq Int /\ Live(i) \subseteq Ints
      /\ h \in Live(t) /\ h < m /\ m \in Int /\ m \in Ints /\ m < g_exec_order /\ m # NULL
      /\ m \notin Live(t)
      /\ \A x \in Live(t) : x <= h /\ x < m
  <2>1. \A i \in Threads : Live(i) \subseteq Int /\ Live(i) \subseteq Ints
    BY Constants DEF TypeOK, Live
  <2>2. h < m /\ m \in Int /\ m < g_exec_order
    BY <1>1 DEF OrderInv, Unpublished
  <2>3. m \in Ints /\ m # NULL
    BY <2>2, Constants DEF TypeOK, Ptr
  <2>4. h \in Live(t) /\ \A x \in Live(t) : x <= h
    BY DEF NewestFirst
  <2>5. QED
    BY <2>1, <2>2, <2>3, <2>4
<1>4. /\ head'[t] = m
      /\ \A i \in Threads : i # t => head'[i] = head[i]
      /\ head' \in [Threads -> Ints]
  BY <1>3 DEF Push, TypeOK
<1>5. /\ \A i \in Threads : i # t => node'[i] = node[i]
      /\ DOMAIN node'[t] = Live(t) \cup {m}
      /\ node'[t][m].next = h
      /\ \A w \in Live(t) : node'[t][w] = node[t][w]
      /\ node' = [i \in Threads |-> node'[i]]
      /\ node'[t] \in [DOMAIN node'[t] -> [next : Ptr, A : Ints, B : Ints]]
  <2> DEFINE d == Remainder(data_i[t].A, A_PLUS_B)
             a == Wrap(node[t][h].A + d)
             b == Wrap(node[t][h].B - d)
             Rec == [next : Ptr, A : Ints, B : Ints]
             r == [next |-> h, A |-> a, B |-> b]
  <2>1. data_i[t].A \in Int
    BY Constants DEF TypeOK
  <2>2. d \in Int
    BY <2>1, RemainderInt
  <2>3. node[t][h].A \in Int /\ node[t][h].B \in Int
    BY <1>3, Constants DEF TypeOK, Live
  <2>4. a \in Ints /\ b \in Ints
    <3> HIDE DEF d
    <3>1. node[t][h].A + d \in Int /\ node[t][h].B - d \in Int
      BY <2>2, <2>3
    <3>2. QED
      BY <3>1, WrapInts
  <2>5. node' = [node EXCEPT ![t] = PushData(@, h, m, a, b)]
    BY DEF Push
  <2> HIDE DEF a, b
  <2>6. r \in Rec /\ r.next = h
    BY <1>3, <2>4 DEF Ptr
  <2>7. /\ node'[t] = [w \in Live(t) \cup {m} |-> IF w = m THEN r ELSE node[t][w]]
        /\ \A i \in Threads : i # t => node'[i] = node[i]
        /\ node' = [i \in Threads |-> node'[i]]
    BY <2>5 DEF PushData, TypeOK, Live
  <2>8. \A w \in Live(t) : node[t][w] \in Rec
    BY DEF TypeOK, Live
  <2> HIDE DEF Rec, r
  <2>9. node'[t] \in [DOMAIN node'[t] -> Rec]
    BY <2>6, <2>7, <2>8
  <2>10. /\ DOMAIN node'[t] = Live(t) \cup {m}
         /\ node'[t][m].next = h
         /\ \A w \in Live(t) : node'[t][w] = node[t][w]
    BY <1>3, <2>6, <2>7
  <2>11. node'[t] \in [DOMAIN node'[t] -> [next : Ptr, A : Ints, B : Ints]]
    BY <2>9 DEF Rec
  <2>12. /\ \A i \in Threads : i # t => node'[i] = node[i]
         /\ node' = [i \in Threads |-> node'[i]]
    BY <2>7
  <2> HIDE <2>7
  <2>13. QED
    BY <2>10, <2>11, <2>12
<1>6. TypeOK'
  <2>1. \A i \in Threads : /\ DOMAIN node'[i] \subseteq Ints
                           /\ node'[i] \in [DOMAIN node'[i] -> [next : Ptr, A : Ints, B : Ints]]
    BY <1>3, <1>5 DEF TypeOK
  <2>2. QED
    BY <1>1, <1>2, <1>4, <1>5, <2>1 DEF TypeOK
<1>7. OrderInv'
  BY <1>1, <1>2, <1>3, <1>4 DEF OrderInv, Unpublished
<1>8. NewestFirst'
  <2>1. ASSUME NEW i \in Threads, i # t
        PROVE  head'[i] = head[i] /\ node'[i] = node[i]
    BY <1>4, <1>5, <2>1
  <2>2. \A w \in Live(t) : /\ node[t][w].next = NULL => \A x \in Live(t) : w <= x
                           /\ node[t][w].next # NULL =>
                                /\ node[t][w].next \in Live(t)
                                /\ node[t][w].next < w
                                /\ \A x \in Live(t) : x < w => x <= node[t][w].next
    BY DEF NewestFirst
  <2>3. /\ head'[t] \in DOMAIN node'[t]
        /\ \A w \in DOMAIN node'[t] :
             /\ w <= head'[t]
             /\ node'[t][w].next = NULL => \A x \in DOMAIN node'[t] : w <= x
             /\ node'[t][w].next # NULL =>
                  /\ node'[t][w].next \in DOMAIN node'[t]
                  /\ node'[t][w].next < w
                  /\ \A x \in DOMAIN node'[t] : x < w => x <= node'[t][w].next
    <3>1. h # NULL
      BY <1>3, Constants
    <3>2. QED
      BY <1>3, <1>4, <1>5, <2>2, <3>1
  <2>4. QED
    BY <2>1, <2>3 DEF NewestFirst, Live
<1>9. ActiveInv'
  <2>1. rv[t][t] = h
    BY <1>1 DEF ActiveInv, Unpublished
  <2>2. h # NULL
    BY <1>3, Constants
  <2>3. \A s \in Threads : pc'[s] = "erase" =>
          rv[s][s] = node'[s][head'[s]].next /\ rv[s][s] # NULL
    BY <1>1, <1>4, <1>5, <2>1, <2>2 DEF ActiveInv
  <2>4. \A s \in Threads : Unpublished(s)' => rv[s][s] = head'[s]
    BY <1>1, <1>4 DEF ActiveInv, Unpublished
  <2>5. QED
    BY <1>1, <1>2, <2>3, <2>4, ActiveEntries DEF ActiveInv, InUpdate, Unpublished
<1>10. SnapInv'
  <2> SUFFICES ASSUME NEW s \in Threads, NEW i \in Threads, Reading(s)'
               PROVE
        /\ rv[s][i] # NULL =>
             /\ rv[s][i] \in DOMAIN node'[i]
             /\ rv[s][i] < my_version[s]
             /\ \A x, y \in DOMAIN node'[i] :
                  rv[s][i] < x /\ x < my_version[s] /\ rv[s][i] < y /\ y < my_version[s]
                    => x = y
             /\ Unpublished(i)' /\ my_version[i] < my_version[s] =>
                  \A x \in DOMAIN node'[i] : x <= rv[s][i] \/ my_version[s] <= x
        /\ rv[s][i] = NULL =>
             /\ \E g \in DOMAIN node'[i] : g < my_version[s]
             /\ Unpublished(i)' => my_version[s] <= my_version[i]
    BY <1>2 DEF SnapInv, Live
  <2>1. Reading(s) /\ my_version[s] \in Int
    BY <1>1 DEF Reading, OrderInv, Unpublished
  <2>2. CASE i # t
    <3>1. node'[i] = node[i] /\ (Unpublished(i)' <=> Unpublished(i))
      BY <1>1, <1>5, <2>2 DEF Unpublished
    <3>2. QED
      BY <2>1, <3>1 DEF SnapInv, Live
  <2>3. CASE i = t
    <3>1. ~Unpublished(i)' /\ Unpublished(i)
      BY <1>1, <2>3 DEF Unpublished
    <3>2. CASE rv[s][i] # NULL
      <4>1. rv[s][i] \in Live(i) /\ rv[s][i] < my_version[s] /\ rv[s][i] \in Int
        BY <1>3, <2>1, <3>2 DEF SnapInv
      <4>2. CASE m < my_version[s]
        <5>1. \A x \in Live(i) : x <= rv[s][i] \/ my_version[s] <= x
          BY <2>1, <2>3, <3>1, <3>2, <4>2 DEF SnapInv
        <5>2. QED
          BY <1>3, <1>5, <2>1, <2>3, <3>1, <3>2, <4>1, <5>1
      <4>3. CASE ~(m < my_version[s])
        <5>1. \A x, y \in Live(i) :
                rv[s][i] < x /\ x < my_version[s] /\ rv[s][i] < y /\ y < my_version[s]
                  => x = y
          BY <2>1, <3>2 DEF SnapInv
        <5>2. QED
          BY <1>3, <1>5, <2>1, <2>3, <3>1, <3>2, <4>1, <4>3, <5>1
      <4>4. QED
        BY <4>2, <4>3
    <3>3. CASE rv[s][i] = NULL
      <4>1. \E g \in Live(i) : g < my_version[s]
        BY <2>1, <3>3 DEF SnapInv
      <4>2. QED
        BY <1>5, <2>3, <3>1, <3>3, <4>1
    <3>4. QED
      BY <3>2, <3>3
  <2>4. QED
    BY <2>2, <2>3
<1>11. WalkInv'
  <2> SUFFICES ASSUME NEW s \in Threads, pc'[s] = "walk"
               PROVE  /\ cur[s] \in DOMAIN node'[sel[s]]
                      /\ rv[s][sel[s]] # NULL => rv[s][sel[s]] <= cur[s]
                      /\ rv[s][sel[s]] = NULL =>
                           \A x \in DOMAIN node'[sel[s]] : x < my_version[s] => x <= cur[s]
    BY <1>2 DEF WalkInv, Live
  <2>1. pc[s] = "walk" /\ sel[s] \in Threads
    BY <1>1 DEF TypeOK
  <2>2. CASE sel[s] # t
    BY <1>5, <2>1, <2>2 DEF WalkInv, Live
  <2>3. CASE sel[s] = t
    <3>1. rv[s][t] = NULL => my_version[s] <= m
      BY <1>1, <2>1 DEF SnapInv, Reading, Unpublished
    <3>2. my_version[s] \in Int
      BY <2>1 DEF OrderInv, Unpublished
    <3>3. QED
      BY <1>3, <1>5, <2>1, <2>3, <3>1, <3>2 DEF WalkInv
  <2>4. QED
    BY <2>2, <2>3
<1>12. GcInv'
  <2>1. \A i \in Threads : head[i] \in Int /\ head[i] <= head'[i] /\ head'[i] \in Int
    <3>1. \A i \in Threads : head[i] \in Int
      BY Constants DEF TypeOK
    <3>2. QED
      BY <1>3, <1>4, <3>1
  <2>2. \A i \in Threads : DOMAIN node[i] \subseteq DOMAIN node'[i]
    BY <1>5 DEF Live
  <2>3. ref_min \in Int /\ gi \in Threads /\ \A i \in Threads : Live(i) \subseteq Int
    BY <1>3, Constants DEF TypeOK
  <2>4. gpc = "heads" => \A s \in Threads : s < gi => ref_min <= head'[s]
    BY <2>1, <2>3 DEF GcInv
  <2>5. gpc \in {"load", "find", "erase"} => \A s \in Threads : ref_min <= head'[s]
    BY <2>1, <2>3 DEF GcInv
  <2>6. QED
    BY <1>2, <2>2, <2>3, <2>4, <2>5 DEF GcInv, Live
<1>13. QED
  BY <1>6, <1>7, <1>8, <1>9, <1>10, <1>11, <1>12

(* Leaving the active list.  Only the thread's own entry goes, and nothing *)
(* depends on it any more: the new version is already published.           *)
LEMMA EraseKeeps ==
  ASSUME NoOverflow, IInv, NEW t \in Threads, Erase(t)
  PROVE  IInv'
<1> USE DEF IInv
<1>1. /\ \A s \in Threads : s # t => pc'[s] = pc[s]
      /\ pc[t] = "erase" /\ pc'[t] = "top"
      /\ pc' \in [Threads -> UpdaterLocations]
  BY DEF Erase, Goto, TypeOK, UpdaterLocations
<1>2. UNCHANGED <<g_exec_order, g_over, head, node, main, gpc, ref_min, gi, gnode>>
  BY DEF Erase, collector
<1>3. \A s \in Threads : s # t => /\ my_version'[s] = my_version[s]
                                  /\ rv'[s] = rv[s]
                                  /\ sel'[s] = sel[s]
                                  /\ cur'[s] = cur[s]
  BY DEF Erase, TypeOK
<1>4. PICK k \in 1..Len(active) : /\ active[k].id = t
                                  /\ active' = [j \in 1..Len(active) - 1 |->
                                       IF j < k THEN active[j] ELSE active[j + 1]]
  <2>1. \E k \in 1..Len(active) : active[k].id = t
    BY <1>1 DEF ActiveInv, InUpdate
  <2>2. QED
    BY <2>1 DEF Erase, EraseActive
<1>5. Len(active) \in Nat /\ Len(active) > 0
  BY <1>4, ActiveEntries
<1>6. /\ Len(active') = Len(active) - 1
      /\ active' \in Seq([id : Threads, version : Ints])
  <2> DEFINE Entry == [id : Threads, version : Ints]
  <2>1. active \in Seq(Entry)
    BY DEF TypeOK
  <2> HIDE DEF Entry
  <2>2. \A j \in 1..Len(active) : active[j] \in Entry
    BY <2>1
  <2>3. Len(active) - 1 \in Nat
    BY <1>5
  <2>4. \A j \in 1..Len(active) - 1 : active'[j] \in Entry
    BY <1>4, <1>5, <2>2
  <2>5. active' \in [1..Len(active) - 1 -> Entry]
    BY <1>4, <2>4
  <2>6. active' \in Seq(Entry) /\ Len(active') = Len(active) - 1
    BY <2>3, <2>5
  <2>7. QED
    BY <2>6 DEF Entry
<1>7. \A j \in 1..Len(active') : \E l \in 1..Len(active) :
         /\ active'[j] = active[l] /\ l # k
         /\ (j < k /\ l = j) \/ (j >= k /\ l = j + 1)
  <2> SUFFICES ASSUME NEW j \in 1..Len(active')
               PROVE  \E l \in 1..Len(active) :
                        /\ active'[j] = active[l] /\ l # k
                        /\ (j < k /\ l = j) \/ (j >= k /\ l = j + 1)
    OBVIOUS
  <2>1. CASE j < k
    <3>1. j \in 1..Len(active) /\ active'[j] = active[j] /\ j # k
      BY <1>4, <1>5, <1>6, <2>1
    <3>2. QED
      BY <2>1, <3>1
  <2>2. CASE j >= k
    <3>1. j + 1 \in 1..Len(active) /\ active'[j] = active[j + 1] /\ j + 1 # k
      BY <1>4, <1>5, <1>6, <2>2
    <3>2. QED
      BY <2>2, <3>1
  <2>3. QED
    BY <2>1, <2>2
<1>8. \A l \in 1..Len(active) : l # k => \E j \in 1..Len(active') : active'[j] = active[l]
  <2> SUFFICES ASSUME NEW l \in 1..Len(active), l # k
               PROVE  \E j \in 1..Len(active') : active'[j] = active[l]
    OBVIOUS
  <2>1. CASE l < k
    <3>1. l \in 1..Len(active') /\ active'[l] = active[l]
      BY <1>4, <1>5, <1>6, <2>1
    <3>2. QED
      BY <3>1
  <2>2. CASE l > k
    <3>1. l - 1 \in 1..Len(active') /\ active'[l - 1] = active[l]
      BY <1>4, <1>5, <1>6, <2>2
    <3>2. QED
      BY <3>1
  <2>3. QED
    BY <2>1, <2>2
<1>9. TypeOK'
  <2>1. /\ my_version' \in [Threads -> Ptr]
        /\ rv' \in [Threads -> [Threads -> Ptr]]
        /\ sel' \in [Threads -> Threads]
        /\ cur' \in [Threads -> Ptr]
    BY DEF Erase, TypeOK, NoView, Ptr
  <2>2. data_i' \in [Threads -> [version : Ptr, A : Ints]]
    <3> DEFINE D == [version : Ptr, A : Ints]
    <3>1. NoData \in D
      BY Constants DEF NoData, Ptr
    <3>2. data_i \in [Threads -> D]
      BY DEF TypeOK
    <3> HIDE DEF D
    <3>3. data_i' \in [Threads -> D]
      BY <3>1, <3>2 DEF Erase
    <3>4. QED BY <3>3 DEF D
  <2>3. QED
    BY <1>1, <1>2, <1>6, <2>1, <2>2 DEF TypeOK
<1>10. OrderInv'
  BY <1>1, <1>2, <1>3 DEF OrderInv, Unpublished
<1>11. NewestFirst' /\ GcInv'
  BY <1>2 DEF NewestFirst, GcInv, Live
<1>12. ActiveInv'
  <2>1. \A i, j \in 1..Len(active') : active'[i].id = active'[j].id => i = j
    <3> SUFFICES ASSUME NEW i \in 1..Len(active'), NEW j \in 1..Len(active'),
                        active'[i].id = active'[j].id
                 PROVE  i = j
      OBVIOUS
    <3>1. PICK a \in 1..Len(active) : /\ active'[i] = active[a]
                                      /\ (i < k /\ a = i) \/ (i >= k /\ a = i + 1)
      BY <1>7
    <3>2. PICK b \in 1..Len(active) : /\ active'[j] = active[b]
                                      /\ (j < k /\ b = j) \/ (j >= k /\ b = j + 1)
      BY <1>7
    <3>3. a = b
      BY <3>1, <3>2 DEF ActiveInv
    <3>4. QED
      BY <1>5, <1>6, <3>1, <3>2, <3>3
  <2>2. \A j \in 1..Len(active') : /\ pc'[active'[j].id] \in {"pick", "walk", "push", "erase"}
                                   /\ active'[j].version = rv'[active'[j].id][active'[j].id]
    <3> SUFFICES ASSUME NEW j \in 1..Len(active')
                 PROVE  /\ pc'[active'[j].id] \in {"pick", "walk", "push", "erase"}
                        /\ active'[j].version = rv'[active'[j].id][active'[j].id]
      OBVIOUS
    <3>1. PICK l \in 1..Len(active) : active'[j] = active[l] /\ l # k
      BY <1>7
    <3>2. active[l].id \in Threads /\ active[l].id # t
      BY <1>4, <3>1, ActiveEntries DEF ActiveInv
    <3>3. /\ pc[active[l].id] \in {"pick", "walk", "push", "erase"}
          /\ active[l].version = rv[active[l].id][active[l].id]
      BY DEF ActiveInv, InUpdate
    <3>4. QED
      BY <1>1, <1>3, <3>1, <3>2, <3>3
  <2>3. \A s \in Threads : pc'[s] \in {"pick", "walk", "push", "erase"} =>
          \E j \in 1..Len(active') : active'[j].id = s
    <3> SUFFICES ASSUME NEW s \in Threads, pc'[s] \in {"pick", "walk", "push", "erase"}
                 PROVE  \E j \in 1..Len(active') : active'[j].id = s
      OBVIOUS
    <3>1. s # t /\ InUpdate(s)
      BY <1>1 DEF InUpdate
    <3>2. PICK l \in 1..Len(active) : active[l].id = s
      BY <3>1 DEF ActiveInv
    <3>3. l # k
      BY <1>4, <3>1, <3>2
    <3>4. QED
      BY <1>8, <3>2, <3>3
  <2>4. \A s \in Threads : /\ Unpublished(s)' => rv'[s][s] = head'[s]
                           /\ pc'[s] = "erase" => /\ rv'[s][s] = node'[s][head'[s]].next
                                                  /\ rv'[s][s] # NULL
    BY <1>1, <1>2, <1>3 DEF ActiveInv, Unpublished
  <2>5. QED
    BY <2>1, <2>2, <2>3, <2>4 DEF ActiveInv, InUpdate, Unpublished
<1>13. SnapInv'
  <2>1. \A s \in Threads : Reading(s)' => Reading(s) /\ s # t
    BY <1>1 DEF Reading
  <2>2. \A i \in Threads : Unpublished(i)' => Unpublished(i) /\ my_version'[i] = my_version[i]
    BY <1>1, <1>3 DEF Unpublished
  <2>3. QED
    BY <1>2, <1>3, <2>1, <2>2 DEF SnapInv, Live
<1>14. WalkInv'
  BY <1>1, <1>2, <1>3 DEF WalkInv, Live
<1>15. QED
  BY <1>9, <1>10, <1>11, <1>12, <1>13, <1>14

(* The parts of the invariant that do not mention the collector's locals   *)
(* survive its steps as long as no node changes.                           *)
LEMMA CollectorFrame ==
  ASSUME IInv, UpdatersUnchanged, UNCHANGED node
  PROVE  OrderInv' /\ NewestFirst' /\ ActiveInv' /\ SnapInv' /\ WalkInv'
<1>1. UNCHANGED <<g_exec_order, active, head, node, pc, my_version, rv, sel, cur>>
  BY DEF UpdatersUnchanged, updater
<1>2. OrderInv' /\ NewestFirst' /\ WalkInv'
  BY <1>1 DEF IInv, OrderInv, NewestFirst, WalkInv, Unpublished, Live
<1>3. ActiveInv'
  BY <1>1 DEF IInv, ActiveInv, InUpdate, Unpublished
<1>4. SnapInv'
  BY <1>1 DEF IInv, SnapInv, Reading, Unpublished, Live
<1>5. QED
  BY <1>2, <1>3, <1>4

(* Types after a collector step that changes no node. *)
LEMMA CollectorTypes ==
  ASSUME IInv, UpdatersUnchanged, UNCHANGED node,
         gpc' \in CollectorLocations, ref_min' \in Ints, gi' \in Threads, gnode' \in Ptr
  PROVE  TypeOK'
BY DEF IInv, TypeOK, UpdatersUnchanged, updater

LEMMA GcLoopTestKeeps ==
  ASSUME NoOverflow, IInv, GcLoopTest
  PROVE  IInv'
<1>1. /\ UpdatersUnchanged /\ UNCHANGED <<node, ref_min, gi, gnode>>
      /\ gpc' \in {"done", "lock"}
  BY DEF GcLoopTest, Collector
<1>2. TypeOK'
  <2>1. gpc' \in CollectorLocations /\ ref_min' \in Ints /\ gi' \in Threads /\ gnode' \in Ptr
    BY <1>1 DEF IInv, TypeOK, CollectorLocations
  <2>2. QED
    BY <1>1, <2>1, CollectorTypes
<1>3. GcInv'
  BY <1>1 DEF GcInv
<1>4. QED
  BY <1>1, <1>2, <1>3, CollectorFrame DEF IInv

LEMMA GcLockKeeps ==
  ASSUME NoOverflow, IInv, GcLock
  PROVE  IInv'
<1>1. /\ UpdatersUnchanged /\ UNCHANGED <<node, gnode>>
      /\ gpc' = "heads" /\ gi' = 0
      /\ ref_min' = IF active = <<>> THEN IntMax ELSE active[Len(active)].version
  BY DEF GcLock, Collector
<1>2. ref_min' \in Ints
  <2>1. CASE active = <<>>
    BY <1>1, <2>1, Constants
  <2>2. CASE active # <<>>
    <3>1. active \in Seq([id : Threads, version : Ints])
      BY DEF IInv, TypeOK
    <3>2. Len(active) \in 1..Len(active)
      BY <2>2, <3>1
    <3>3. QED
      BY <1>1, <2>2, <3>2, ActiveEntries DEF IInv
  <2>3. QED
    BY <2>1, <2>2
<1>3. TypeOK'
  <2>1. gpc' \in CollectorLocations /\ gi' \in Threads /\ gnode' \in Ptr
    BY <1>1, Constants DEF IInv, TypeOK, CollectorLocations, Threads
  <2>2. QED
    BY <1>1, <1>2, <2>1, CollectorTypes
<1>4. GcInv'
  BY <1>1, Constants DEF GcInv
<1>5. QED
  BY <1>1, <1>3, <1>4, CollectorFrame DEF IInv

LEMMA GcHeadKeeps ==
  ASSUME NoOverflow, IInv, GcHead
  PROVE  IInv'
<1> USE DEF IInv
<1>1. /\ UpdatersUnchanged /\ UNCHANGED <<node, gnode>>
      /\ gpc = "heads" /\ gpc' = IF gi = N - 1 THEN "load" ELSE "heads"
      /\ ref_min' = IF head[gi] < ref_min THEN head[gi] ELSE ref_min
      /\ gi' = IF gi = N - 1 THEN 0 ELSE gi + 1
      /\ UNCHANGED head
  BY DEF GcHead, Collector, UpdatersUnchanged
<1>2. /\ gi \in Threads /\ gi \in Int /\ ref_min \in Ints /\ ref_min \in Int
      /\ \A s \in Threads : head[s] \in Int /\ head[s] \in Ints /\ s \in Int /\ s <= N - 1
      /\ \A x \in Int : x \in Threads <=> 0 <= x /\ x <= N - 1
  BY Constants DEF TypeOK, Threads
<1>3. ref_min' \in Ints /\ gi' \in Threads
  BY <1>1, <1>2, Constants
<1>4. TypeOK'
  <2>1. gpc' \in CollectorLocations /\ gnode' \in Ptr
    BY <1>1 DEF TypeOK, CollectorLocations
  <2>2. QED
    BY <1>1, <1>3, <2>1, CollectorTypes
<1>5. ref_min' <= ref_min /\ ref_min' <= head[gi] /\ ref_min' \in Int
  BY <1>1, <1>2
<1>6. \A s \in Threads : s <= gi => ref_min' <= head[s]
  <2> SUFFICES ASSUME NEW s \in Threads, s <= gi
               PROVE  ref_min' <= head[s]
    OBVIOUS
  <2>1. CASE s = gi
    BY <1>5, <2>1
  <2>2. CASE s < gi
    <3>1. ref_min <= head[s]
      BY <1>1, <2>2 DEF GcInv
    <3>2. QED
      BY <1>2, <1>5, <3>1
  <2>3. QED
    BY <1>2, <2>1, <2>2
<1>7. GcInv'
  <2>1. CASE gi = N - 1
    BY <1>1, <1>2, <1>6, <2>1 DEF GcInv
  <2>2. CASE gi # N - 1
    BY <1>1, <1>2, <1>6, <2>2 DEF GcInv
  <2>3. QED
    BY <2>1, <2>2
<1>8. QED
  BY <1>1, <1>4, <1>7, CollectorFrame

LEMMA GcLoadKeeps ==
  ASSUME NoOverflow, IInv, GcLoad
  PROVE  IInv'
<1> USE DEF IInv
<1>1. /\ UpdatersUnchanged /\ UNCHANGED <<node, ref_min, gi, head>>
      /\ gpc = "load" /\ gpc' = "find" /\ gnode' = head[gi]
  BY DEF GcLoad, Collector, UpdatersUnchanged
<1>2. gi \in Threads /\ head[gi] \in Live(gi)
  BY DEF TypeOK, NewestFirst
<1>3. TypeOK'
  <2>1. gpc' \in CollectorLocations /\ ref_min' \in Ints /\ gi' \in Threads /\ gnode' \in Ptr
    BY <1>1, <1>2 DEF TypeOK, CollectorLocations, Ptr
  <2>2. QED
    BY <1>1, <2>1, CollectorTypes
<1>4. GcInv'
  BY <1>1, <1>2 DEF GcInv, Live
<1>5. QED
  BY <1>1, <1>3, <1>4, CollectorFrame

(* After the last node of a list, or of the last list. *)
LEMMA NextListKeeps ==
  ASSUME NoOverflow, IInv, NextList, UpdatersUnchanged, gpc \in {"find", "erase"}
  PROVE  IInv'
<1> USE DEF IInv
<1>1. /\ gpc' = IF gi = N - 1 THEN "top" ELSE "load"
      /\ gi' = IF gi = N - 1 THEN 0 ELSE gi + 1
      /\ ref_min' = IF gi = N - 1 THEN IntMax ELSE ref_min
      /\ gnode' = NULL /\ UNCHANGED <<node, head>>
  BY DEF NextList, UpdatersUnchanged
<1>2. TypeOK'
  <2>1. gi' \in Threads
    BY <1>1, Constants DEF TypeOK, Threads
  <2>2. gpc' \in CollectorLocations /\ ref_min' \in Ints /\ gnode' \in Ptr
    BY <1>1, Constants DEF TypeOK, CollectorLocations, Ptr
  <2>3. QED
    BY <1>1, <2>1, <2>2, CollectorTypes
<1>3. GcInv'
  BY <1>1 DEF GcInv
<1>4. QED
  BY <1>1, <1>2, <1>3, CollectorFrame

LEMMA GcFindKeeps ==
  ASSUME NoOverflow, IInv, GcFind
  PROVE  IInv'
<1> USE DEF IInv
<1>1. gpc = "find" /\ UpdatersUnchanged
  BY DEF GcFind
<1>2. CASE NextList
  BY <1>1, <1>2, NextListKeeps
<1>3. CASE ~NextList
  <2>1. /\ gnode # NULL /\ UNCHANGED <<ref_min, gi, node, head>>
        /\ gnode' = node[gi][gnode].next
        /\ \/ gnode < ref_min /\ gpc' = "erase" /\ gnode' # NULL
           \/ gpc' = "find"
    BY <1>1, <1>3 DEF GcFind, UpdatersUnchanged
  <2>2. gi \in Threads /\ gnode \in Live(gi)
    BY <1>1, <2>1 DEF TypeOK, GcInv
  <2>3. gnode' # NULL => gnode' \in Live(gi) /\ gnode' < gnode
    BY <2>1, <2>2 DEF NewestFirst
  <2>4. TypeOK'
    <3>1. gnode' \in Ptr
      BY <2>1, <2>2 DEF TypeOK, Live
    <3>2. gpc' \in CollectorLocations /\ ref_min' \in Ints /\ gi' \in Threads
      BY <2>1 DEF TypeOK, CollectorLocations
    <3>3. QED
      BY <1>1, <2>1, <3>1, <3>2, CollectorTypes
  <2>5. GcInv'
    <3>1. \A s \in Threads : ref_min <= head[s]
      BY <1>1 DEF GcInv
    <3>2. gpc' = "erase" => gnode' \in Live(gi) /\ gnode' < gnode /\ gnode < ref_min
      BY <2>1, <2>3
    <3>3. QED
      BY <2>1, <2>2, <2>3, <3>1, <3>2 DEF GcInv, Live
  <2>6. QED
    BY <1>1, <2>1, <2>4, <2>5, CollectorFrame
<1>4. QED
  BY <1>2, <1>3

(* Deleting one node.  Two live versions of the list lie above the victim  *)
(* and below ref_min, hence below the number of every update that still    *)
(* reads: the victim is neither designated by a view nor under a search.   *)
LEMMA GcEraseKeeps ==
  ASSUME NoOverflow, IInv, GcErase
  PROVE  IInv'
<1> USE DEF IInv
<1> DEFINE i == gi
           p == gnode
           n == node[gi][gnode].next
<1>1. gpc = "erase" /\ UpdatersUnchanged
  BY DEF GcErase
<1>2. CASE NextList
  BY <1>1, <1>2, NextListKeeps
<1>3. CASE ~NextList
  <2>1. /\ n # NULL /\ node' = [node EXCEPT ![i] = EraseData(@, p, n)]
        /\ UNCHANGED <<gpc, ref_min, gi, gnode>>
    BY <1>1, <1>3 DEF GcErase
  <2>2. UNCHANGED <<g_exec_order, g_over, active, head, pc, main, my_version, rv, sel, cur, data_i>>
    BY <1>1 DEF UpdatersUnchanged, updater
  <2>3. i \in Threads /\ p \in Live(i) /\ \A j \in Threads : Live(j) \subseteq Int
        /\ ref_min \in Int
    BY <1>1, Constants DEF TypeOK, GcInv, Live
  <2>4. PICK f \in Live(i) : p < f /\ f < ref_min
    BY <1>1 DEF GcInv
  <2>5. n \in Live(i) /\ n < p /\ (\A w \in Live(i) : w < p => w <= n)
    BY <2>1, <2>3 DEF NewestFirst
  <2>6. f <= head[i] /\ head[i] \in Live(i)
    BY <2>3 DEF NewestFirst
  <2>7. /\ \A j \in Threads : j # i => node'[j] = node[j]
        /\ node' = [j \in Threads |-> node'[j]]
        /\ node'[i] = [w \in Live(i) \ {n} |->
                         IF w = p THEN [node[i][w] EXCEPT !.next = node[i][n].next]
                                  ELSE node[i][w]]
    BY <2>1, <2>3 DEF EraseData, TypeOK, Live
  <2>8. /\ DOMAIN node'[i] = Live(i) \ {n}
        /\ node'[i][p].next = node[i][n].next
        /\ \A w \in Live(i) : w # n /\ w # p => node'[i][w] = node[i][w]
        /\ node'[i] \in [DOMAIN node'[i] -> [next : Ptr, A : Ints, B : Ints]]
    <3> DEFINE Rec == [next : Ptr, A : Ints, B : Ints]
               q == [node[i][p] EXCEPT !.next = node[i][n].next]
    <3>1. \A w \in Live(i) : node[i][w] \in Rec /\ node[i][w].next \in Ptr
      BY <2>3 DEF TypeOK, Live
    <3>2. q \in Rec /\ q.next = node[i][n].next
      BY <2>3, <2>5, <3>1
    <3>3. node'[i] = [w \in Live(i) \ {n} |-> IF w = p THEN q ELSE node[i][w]]
      BY <2>7
    <3>4. p # n
      BY <2>3, <2>5
    <3> HIDE DEF Rec, q
    <3>5. node'[i] \in [DOMAIN node'[i] -> Rec]
      BY <3>1, <3>2, <3>3
    <3>6. /\ DOMAIN node'[i] = Live(i) \ {n}
          /\ node'[i][p].next = node[i][n].next
          /\ \A w \in Live(i) : w # n /\ w # p => node'[i][w] = node[i][w]
      BY <2>3, <3>2, <3>3, <3>4
    <3>7. node'[i] \in [DOMAIN node'[i] -> [next : Ptr, A : Ints, B : Ints]]
      BY <3>5 DEF Rec
    <3> HIDE <3>3
    <3>8. QED
      BY <3>6, <3>7
  <2>9. TypeOK'
    <3>1. \A j \in Threads : /\ DOMAIN node'[j] \subseteq Ints
                             /\ node'[j] \in [DOMAIN node'[j] -> [next : Ptr, A : Ints, B : Ints]]
      BY <2>3, <2>7, <2>8 DEF TypeOK, Live
    <3>2. QED
      BY <2>1, <2>2, <2>7, <3>1 DEF TypeOK
  <2>10. OrderInv'
    BY <2>2 DEF OrderInv, Unpublished
  <2>11. NewestFirst'
    <3>1. \A w \in Live(i) : /\ w <= head[i]
                             /\ node[i][w].next = NULL => \A x \in Live(i) : w <= x
                             /\ node[i][w].next # NULL =>
                                  /\ node[i][w].next \in Live(i)
                                  /\ node[i][w].next < w
                                  /\ \A x \in Live(i) : x < w => x <= node[i][w].next
      BY <2>3 DEF NewestFirst
    <3>2. head[i] # n
      BY <2>3, <2>4, <2>5, <2>6
    <3>3. ASSUME NEW w \in Live(i) \ {n}
          PROVE  /\ node'[i][w].next = NULL => \A x \in Live(i) \ {n} : w <= x
                 /\ node'[i][w].next # NULL =>
                      /\ node'[i][w].next \in Live(i) \ {n}
                      /\ node'[i][w].next < w
                      /\ \A x \in Live(i) \ {n} : x < w => x <= node'[i][w].next
      <4>1. CASE w = p
        <5>1. node'[i][w].next = node[i][n].next
          BY <2>8, <4>1
        <5>2. /\ node[i][n].next = NULL => \A x \in Live(i) : n <= x
              /\ node[i][n].next # NULL =>
                   /\ node[i][n].next \in Live(i)
                   /\ node[i][n].next < n
                   /\ \A x \in Live(i) : x < n => x <= node[i][n].next
          BY <2>5, <3>1
        <5>3. \A x \in Live(i) \ {n} : x < p => x < n
          BY <2>3, <2>5
        <5>4. CASE node[i][n].next = NULL
          BY <2>3, <2>5, <4>1, <5>1, <5>2, <5>3, <5>4
        <5>5. CASE node[i][n].next # NULL
          BY <2>3, <2>5, <4>1, <5>1, <5>2, <5>3, <5>5
        <5>6. QED
          BY <5>4, <5>5
      <4>2. CASE w # p
        <5>1. node'[i][w] = node[i][w]
          BY <2>8, <4>2
        <5>2. node[i][w].next # n
          BY <2>3, <2>5, <3>1, <4>2
        <5>3. QED
          BY <3>1, <5>1, <5>2
      <4>3. QED
        BY <4>1, <4>2
    <3>4. QED
      BY <2>2, <2>6, <2>7, <2>8, <3>1, <3>2, <3>3 DEF NewestFirst, Live
  <2>12. ActiveInv'
    <3>1. p # head[i] /\ n # head[i]
      BY <2>3, <2>4, <2>5, <2>6
    <3>2. \A s \in Threads : node'[s][head[s]] = node[s][head[s]]
      BY <2>6, <2>7, <2>8, <3>1
    <3>3. QED
      BY <2>2, <3>2 DEF ActiveInv, InUpdate, Unpublished
  <2>13. ASSUME NEW s \in Threads, Reading(s)
         PROVE  my_version[s] \in Int /\ f < my_version[s]
    <3>1. ref_min <= head[s] /\ head[s] \in Int
      BY <1>1, Constants DEF GcInv, TypeOK
    <3>2. my_version[s] \in Int /\ head[s] < my_version[s]
      BY <2>13 DEF OrderInv, Unpublished, Reading
    <3>3. QED
      BY <2>3, <2>4, <3>1, <3>2
  <2>14. ASSUME NEW s \in Threads, Reading(s), rv[s][i] # NULL
         PROVE  rv[s][i] # n /\ ~(rv[s][i] < n)
    <3>1. /\ rv[s][i] \in Live(i)
          /\ \A x, y \in Live(i) :
               rv[s][i] < x /\ x < my_version[s] /\ rv[s][i] < y /\ y < my_version[s] => x = y
      BY <2>3, <2>14 DEF SnapInv
    <3>2. my_version[s] \in Int /\ f < my_version[s]
      BY <2>13, <2>14
    <3>3. QED
      BY <2>3, <2>4, <2>5, <3>1, <3>2
  <2>15. SnapInv'
    <3> SUFFICES ASSUME NEW s \in Threads, NEW j \in Threads, Reading(s)
                 PROVE
          /\ rv[s][j] # NULL =>
               /\ rv[s][j] \in DOMAIN node'[j]
               /\ rv[s][j] < my_version[s]
               /\ \A x, y \in DOMAIN node'[j] :
                    rv[s][j] < x /\ x < my_version[s] /\ rv[s][j] < y /\ y < my_version[s]
                      => x = y
               /\ Unpublished(j) /\ my_version[j] < my_version[s] =>
                    \A x \in DOMAIN node'[j] : x <= rv[s][j] \/ my_version[s] <= x
          /\ rv[s][j] = NULL =>
               /\ \E g \in DOMAIN node'[j] : g < my_version[s]
               /\ Unpublished(j) => my_version[s] <= my_version[j]
      BY <2>2 DEF SnapInv, Live, Reading, Unpublished
    <3>1. CASE j # i
      BY <2>7, <3>1 DEF SnapInv, Live
    <3>2. CASE j = i
      <4>1. f \in DOMAIN node'[i] /\ f < my_version[s]
        BY <2>3, <2>4, <2>5, <2>8, <2>13
      <4>2. QED
        BY <2>8, <2>14, <3>2, <4>1 DEF SnapInv
    <3>3. QED
      BY <3>1, <3>2
  <2>16. WalkInv'
    <3> SUFFICES ASSUME NEW s \in Threads, pc[s] = "walk"
                 PROVE  /\ cur[s] \in DOMAIN node'[sel[s]]
                        /\ rv[s][sel[s]] # NULL => rv[s][sel[s]] <= cur[s]
                        /\ rv[s][sel[s]] = NULL =>
                             \A x \in DOMAIN node'[sel[s]] : x < my_version[s] => x <= cur[s]
      BY <2>2 DEF WalkInv, Live
    <3>1. sel[s] \in Threads /\ Reading(s)
      BY DEF TypeOK, Reading
    <3>2. CASE sel[s] # i
      BY <2>7, <3>1, <3>2 DEF WalkInv, Live
    <3>3. CASE sel[s] = i
      <4>1. /\ cur[s] \in Live(i)
            /\ rv[s][i] # NULL => rv[s][i] <= cur[s] /\ rv[s][i] \in Live(i)
            /\ rv[s][i] = NULL => \A x \in Live(i) : x < my_version[s] => x <= cur[s]
        BY <3>1, <3>3 DEF WalkInv, SnapInv
      <4>2. my_version[s] \in Int /\ f < my_version[s]
        BY <2>13, <3>1
      <4>3. cur[s] # n
        <5>1. CASE rv[s][i] # NULL
          BY <2>3, <2>5, <2>14, <3>1, <4>1, <5>1
        <5>2. CASE rv[s][i] = NULL
          BY <2>3, <2>4, <2>5, <4>1, <4>2, <5>2
        <5>3. QED
          BY <5>1, <5>2
      <4>4. QED
        BY <2>8, <3>3, <4>1, <4>3
    <3>4. QED
      BY <3>2, <3>3
  <2>17. GcInv'
    <3>1. p \in DOMAIN node'[i] /\ f \in DOMAIN node'[i]
      BY <2>3, <2>4, <2>5, <2>8
    <3>2. QED
      BY <1>1, <2>1, <2>2, <2>4, <3>1 DEF GcInv, Live
  <2>18. QED
    BY <2>9, <2>10, <2>11, <2>12, <2>15, <2>16, <2>17
<1>4. QED
  BY <1>2, <1>3

LEMMA MainKeeps ==
  ASSUME NoOverflow, IInv, TimeOver \/ Return
  PROVE  IInv'
<1> USE DEF IInv
<1>1. /\ UNCHANGED <<g_exec_order, active, head, node, pc, my_version, rv, sel, cur, data_i,
                     gpc, ref_min, gi, gnode>>
      /\ main' \in {"join", "returned"} /\ g_over' \in BOOLEAN
  BY DEF TimeOver, Return, updater, collector, TypeOK
<1>2. TypeOK'
  BY <1>1 DEF TypeOK
<1>3. OrderInv' /\ NewestFirst' /\ WalkInv' /\ GcInv'
  BY <1>1 DEF OrderInv, NewestFirst, WalkInv, GcInv, Unpublished, Live
<1>4. ActiveInv'
  BY <1>1 DEF ActiveInv, InUpdate, Unpublished
<1>5. SnapInv'
  BY <1>1 DEF SnapInv, Reading, Unpublished, Live
<1>6. QED
  BY <1>2, <1>3, <1>4, <1>5

LEMMA StepKeepsIInv == NoOverflow /\ IInv /\ [Next]_vars => IInv'
<1> SUFFICES ASSUME NoOverflow, IInv, [Next]_vars
             PROVE  IInv'
  OBVIOUS
<1>1. ASSUME NEW t \in Threads, UpdateAB(t)
      PROVE  IInv'
  BY <1>1, LoopTestKeeps, BeginKeeps, PickKeeps, WalkKeeps, PushKeeps, EraseKeeps DEF UpdateAB
<1>2. CASE GC
  BY <1>2, GcLoopTestKeeps, GcLockKeeps, GcHeadKeeps, GcLoadKeeps, GcFindKeeps, GcEraseKeeps DEF GC
<1>3. CASE TimeOver \/ Return
  BY <1>3, MainKeeps
<1>4. CASE UNCHANGED vars
  <2>1. UNCHANGED <<g_exec_order, g_over, active, head, node, pc, my_version, rv, sel, cur,
                    data_i, gpc, ref_min, gi, gnode, main>>
    BY <1>4 DEF vars
  <2>2. UpdatersUnchanged
    BY <2>1 DEF UpdatersUnchanged, updater
  <2>3. TypeOK' /\ GcInv'
    BY <2>1 DEF IInv, TypeOK, GcInv, Live
  <2>4. QED
    BY <2>1, <2>2, <2>3, CollectorFrame DEF IInv
<1>5. QED
  BY <1>1, <1>2, <1>3, <1>4 DEF Next

-----------------------------------------------------------------------------
(* The inductive invariant holds as long as version numbers do not         *)
(* overflow int, for any number of threads.                                *)
THEOREM MvccInvariant == ASSUME NoOverflow PROVE Spec => []IInv
<1>1. Init => IInv
  BY InitIInv
<1>2. IInv /\ [Next]_vars => IInv'
  BY StepKeepsIInv
<1>3. QED
  BY <1>1, <1>2, PTL DEF Spec

(* Values keep their types, so no version number or field leaves int. *)
THEOREM TypeCorrect == ASSUME NoOverflow PROVE Spec => []TypeOK
<1>1. IInv => TypeOK
  BY DEF IInv
<1>2. QED
  BY <1>1, MvccInvariant, PTL

(* Neither assert(found) nor the assertion inside the search loop fails. *)
THEOREM AssertionsNeverFail == ASSUME NoOverflow PROVE Spec => []AssertionsHold
<1>1. IInv => AssertionsHold
  BY DEF IInv, OrderInv, AssertionsHold
<1>2. QED
  BY <1>1, MvccInvariant, PTL

(* Unlocked searches never read a node the collector has deleted. *)
THEOREM FreedNodesNeverRead == ASSUME NoOverflow PROVE Spec => []NoFreedRead
<1>1. IInv => NoFreedRead
  BY DEF IInv, OrderInv, NoFreedRead
<1>2. QED
  BY <1>1, MvccInvariant, PTL

(* ref_min is below the number of every update that is still unpublished   *)
(* whenever the collector is deleting, whatever came and went while it     *)
(* read the heads.                                                         *)
THEOREM RefMinSafe == ASSUME NoOverflow PROVE Spec => []RefMinBelowReaders
<1>1. IInv => RefMinBelowReaders
  <2> SUFFICES ASSUME IInv, gpc \in {"load", "find", "erase"}, NEW t \in Threads, Unpublished(t)
               PROVE  ref_min < my_version[t]
    BY DEF RefMinBelowReaders
  <2>1. ref_min <= head[t] /\ head[t] < my_version[t] /\ my_version[t] \in Int
    BY DEF IInv, GcInv, OrderInv
  <2>2. ref_min \in Int /\ head[t] \in Int
    BY Constants DEF IInv, TypeOK
  <2>3. QED
    BY <2>1, <2>2
<1>2. QED
  BY <1>1, MvccInvariant, PTL

(* The collector keeps every version some running update may still ask     *)
(* for, whichever thread it picks.                                         *)
THEOREM WantedVersionsStay == ASSUME NoOverflow PROVE Spec => []WantedIsLive
<1>1. IInv => WantedIsLive
  BY DEF IInv, SnapInv, WantedIsLive
<1>2. QED
  BY <1>1, MvccInvariant, PTL

(* Unlocked pushes and erasures keep every list linked newest first. *)
THEOREM ListsStayLinked == ASSUME NoOverflow PROVE Spec => []NewestFirst
<1>1. IInv => NewestFirst
  BY DEF IInv
<1>2. QED
  BY <1>1, MvccInvariant, PTL

-----------------------------------------------------------------------------
(* Updates read from a snapshot: the refinement of SnapshotStore.          *)

(* g is the newest version of thread i older than update t. *)
NewestOlderIs(t, i, g) ==
  /\ g \in Live(i)
  /\ g < my_version[t]
  /\ \A x \in Live(i) : x < my_version[t] => x <= g

(* A version number is held during an update only, and after the search    *)
(* the update holds the version it found.                                  *)
LocalsOK(t) ==
  /\ ~InUpdate(t) => my_version[t] = NULL
  /\ pc[t] \in {"push", "erase"} => data_i[t].version \in Ints

(* What the refinement needs beside IInv: the locals of an update, and     *)
(* where a view names no version there is a newest older one.              *)
ViewInv ==
  /\ \A t \in Threads : LocalsOK(t)
  /\ \A t, i \in Threads : Reading(t) /\ rv[t][i] = NULL => \E g \in Ints : NewestOlderIs(t, i, g)

SnapshotInv == IInv /\ ViewInv

(* The committed version, from the registered version of a running update. *)
CommittedVersions ==
  \A i \in Threads : Committed(i) = IF InUpdate(i) THEN rv[i][i] ELSE head[i]

LEMMA CommittedIs == IInv => CommittedVersions
<1> SUFFICES ASSUME IInv, NEW i \in Threads
             PROVE  Committed(i) = IF InUpdate(i) THEN rv[i][i] ELSE head[i]
  BY DEF CommittedVersions
<1> DEFINE entries == {k \in 1..Len(active) : active[k].id = i}
<1>0. Len(active) \in Nat
  BY ActiveEntries DEF IInv
<1>1. CASE InUpdate(i)
  <2>1. PICK k \in 1..Len(active) : active[k].id = i
    BY <1>1 DEF IInv, ActiveInv
  <2>2. entries = {k}
    BY <2>1 DEF IInv, ActiveInv
  <2>3. active[k].version = rv[i][i]
    BY <2>1 DEF IInv, ActiveInv
  <2>4. Max({k}) = k
    BY <1>0, <2>1, MaxSingleton
  <2>5. QED
    BY <1>1, <2>2, <2>3, <2>4 DEF Committed
<1>2. CASE ~InUpdate(i)
  <2>1. entries = {}
    BY <1>2 DEF IInv, ActiveInv
  <2>2. QED
    BY <1>2, <2>1 DEF Committed
<1>3. QED
  BY <1>1, <1>2

(* Wanted is the version the view names, or the newest older one. *)
WantedVersions ==
  \A t, i \in Threads : Reading(t) =>
    /\ rv[t][i] # NULL => Wanted(t, i) = rv[t][i]
    /\ \A g \in Ints : rv[t][i] = NULL /\ NewestOlderIs(t, i, g) => Wanted(t, i) = g
    /\ Wanted(t, i) \in Int

LEMMA WantedIs == SnapshotInv => WantedVersions
<1> SUFFICES ASSUME SnapshotInv, NEW t \in Threads, NEW i \in Threads, Reading(t)
             PROVE  /\ rv[t][i] # NULL => Wanted(t, i) = rv[t][i]
                    /\ \A g \in Ints : rv[t][i] = NULL /\ NewestOlderIs(t, i, g) => Wanted(t, i) = g
                    /\ Wanted(t, i) \in Int
  BY DEF WantedVersions
<1> DEFINE older == {v \in Live(i) : v < my_version[t]}
<1>0. Live(i) \subseteq Int /\ rv[t][i] \in Ptr
  BY Constants DEF SnapshotInv, IInv, TypeOK, Live
<1>1. ASSUME rv[t][i] # NULL
      PROVE  Wanted(t, i) = rv[t][i] /\ Wanted(t, i) \in Int
  BY <1>0, <1>1, Constants DEF Wanted, Ptr
<1>2. ASSUME rv[t][i] = NULL, NEW g \in Ints, NewestOlderIs(t, i, g)
      PROVE  Wanted(t, i) = g
  <2>1. g \in older /\ (\A y \in older : g >= y) /\ older \subseteq Int
    BY <1>0, <1>2 DEF NewestOlderIs
  <2>2. \A x \in older : (\A y \in older : x >= y) => x = g
    BY <2>1
  <2>3. Max(older) = g
    BY <2>1, <2>2 DEF Max
  <2>4. QED
    BY <1>2, <2>1, <2>3 DEF Wanted
<1>3. rv[t][i] = NULL => \E g \in Ints : NewestOlderIs(t, i, g)
  BY DEF SnapshotInv, ViewInv
<1>4. QED
  BY <1>1, <1>2, <1>3, Constants

(* The step changes no view of an update that goes on reading, and the     *)
(* newest older version stays the newest older one.                        *)
ViewsKept ==
  \A s, i \in Threads : Reading(s) /\ Reading(s)' =>
    /\ rv'[s][i] = rv[s][i]
    /\ my_version'[s] = my_version[s]
    /\ rv[s][i] = NULL => \A g \in Ints : NewestOlderIs(s, i, g) => NewestOlderIs(s, i, g)'

(* Views are kept by every step that changes no node. *)
LEMMA SameNodesKeepViews ==
  ASSUME UNCHANGED node,
         \A s \in Threads : Reading(s) /\ Reading(s)' =>
           rv'[s] = rv[s] /\ my_version'[s] = my_version[s]
  PROVE  ViewsKept
BY DEF ViewsKept, NewestOlderIs, Live

(* A push adds a version that no reader without a view of its thread is    *)
(* newer than.                                                             *)
LEMMA PushKeepsViews ==
  ASSUME IInv, NEW t \in Threads, Push(t)
  PROVE  ViewsKept
<1>1. UNCHANGED <<my_version, rv>> /\ pc[t] = "push"
  BY DEF Push, updater, Goto
<1>2. /\ \A i \in Threads : i # t => node'[i] = node[i]
      /\ DOMAIN node'[t] = Live(t) \cup {my_version[t]}
  BY DEF Push, PushData, IInv, TypeOK, Live
<1> SUFFICES ASSUME NEW s \in Threads, NEW i \in Threads, Reading(s), rv[s][i] = NULL,
                    NEW g \in Ints, NewestOlderIs(s, i, g)
             PROVE  NewestOlderIs(s, i, g)'
  BY <1>1 DEF ViewsKept
<1>3. g \in Live(i) /\ g < my_version[s] /\ \A x \in Live(i) : x < my_version[s] => x <= g
  BY DEF NewestOlderIs
<1>4. CASE i # t
  BY <1>1, <1>2, <1>3, <1>4 DEF NewestOlderIs, Live
<1>5. CASE i = t
  <2>1. my_version[s] <= my_version[t] /\ my_version[s] \in Int /\ my_version[t] \in Int
    BY <1>1, <1>5 DEF IInv, SnapInv, OrderInv, Unpublished, Reading
  <2>2. ~(my_version[t] < my_version[s])
    BY <2>1
  <2>3. QED
    BY <1>1, <1>2, <1>3, <1>5, <2>2 DEF NewestOlderIs, Live
<1>6. QED
  BY <1>4, <1>5

(* The collector deletes a version that has a newer one below the number   *)
(* of every reader.                                                        *)
LEMMA GcEraseKeepsViews ==
  ASSUME IInv, GcErase
  PROVE  ViewsKept
<1>1. UNCHANGED <<my_version, rv, pc>> /\ gpc = "erase" /\ gi \in Threads
  BY DEF GcErase, UpdatersUnchanged, updater, IInv, TypeOK
<1>2. CASE UNCHANGED node
  BY <1>1, <1>2, SameNodesKeepViews
<1>3. CASE ~UNCHANGED node
  <2> DEFINE n == node[gi][gnode].next
  <2>1. n # NULL /\ node' = [node EXCEPT ![gi] = EraseData(@, gnode, n)]
    BY <1>3 DEF GcErase, NextList
  <2>2. /\ \A j \in Threads : j # gi => node'[j] = node[j]
        /\ DOMAIN node'[gi] = Live(gi) \ {n}
    BY <1>1, <2>1 DEF EraseData, IInv, TypeOK, Live
  <2>3. /\ gnode \in Live(gi) /\ Live(gi) \subseteq Int /\ ref_min \in Int
    BY <1>1, Constants DEF IInv, TypeOK, GcInv, Live
  <2>4. PICK f \in Live(gi) : gnode < f /\ f < ref_min
    BY <1>1 DEF IInv, GcInv
  <2>5. n \in Live(gi) /\ n < gnode
    BY <1>1, <2>1, <2>3 DEF IInv, NewestFirst
  <2> SUFFICES ASSUME NEW s \in Threads, NEW i \in Threads, Reading(s), rv[s][i] = NULL,
                      NEW g \in Ints, NewestOlderIs(s, i, g)
               PROVE  NewestOlderIs(s, i, g)'
    BY <1>1 DEF ViewsKept
  <2>6. g \in Live(i) /\ g < my_version[s] /\ \A x \in Live(i) : x < my_version[s] => x <= g
    BY DEF NewestOlderIs
  <2>7. CASE i # gi
    BY <1>1, <2>2, <2>6, <2>7 DEF NewestOlderIs, Live
  <2>8. CASE i = gi
    <3>1. ref_min <= head[s] /\ head[s] \in Int
      BY <1>1, Constants DEF IInv, GcInv, TypeOK
    <3>2. my_version[s] \in Int /\ head[s] < my_version[s]
      BY DEF IInv, OrderInv, Unpublished, Reading
    <3>3. f < my_version[s]
      BY <2>3, <2>4, <3>1, <3>2
    <3>4. g # n
      BY <2>3, <2>4, <2>5, <2>6, <2>8, <3>3
    <3>5. QED
      BY <1>1, <2>2, <2>6, <2>8, <3>4 DEF NewestOlderIs, Live
  <2>9. QED
    BY <2>7, <2>8
<1>4. QED
  BY <1>2, <1>3

(* Views survive every step; the steps that change no node are of one kind. *)
LEMMA StepKeepsViews ==
  ASSUME IInv, [Next]_vars
  PROVE  ViewsKept
<1>1. CASE \E t \in Threads : Push(t)
  BY <1>1, PushKeepsViews
<1>2. CASE GcErase
  BY <1>2, GcEraseKeepsViews
<1>3. CASE \E t \in Threads : Begin(t) \/ Erase(t)
  <2>1. PICK t \in Threads : Begin(t) \/ Erase(t)
    BY <1>3
  <2>2. UNCHANGED node /\ (pc[t] = "begin" \/ pc[t] = "erase")
    BY <2>1 DEF Begin, Erase, Goto
  <2>3. \A s \in Threads : s # t => rv'[s] = rv[s] /\ my_version'[s] = my_version[s]
    BY <2>1 DEF Begin, Erase, IInv, TypeOK
  <2>4. QED
    BY <2>2, <2>3, SameNodesKeepViews DEF Reading
<1>4. CASE UNCHANGED <<node, rv, my_version>>
  BY <1>4, SameNodesKeepViews
<1>5. QED
  BY <1>1, <1>2, <1>3, <1>4
     DEF Next, UpdateAB, GC, LoopTest, Pick, Walk, GcLoopTest, GcLock, GcHead, GcLoad, GcFind,
         NextList, UpdatersUnchanged, TimeOver, Return, vars, updater

(* Where the locals of an update come from and go to. *)
LEMMA StepKeepsLocals ==
  ASSUME IInv, ViewInv, [Next]_vars
  PROVE  \A s \in Threads : LocalsOK(s)'
<1>1. ASSUME NEW t \in Threads, Begin(t) \/ Erase(t)
      PROVE  \A s \in Threads : LocalsOK(s)'
  <2>1. /\ \A s \in Threads : s # t => /\ pc'[s] = pc[s]
                                        /\ my_version'[s] = my_version[s]
                                        /\ data_i'[s] = data_i[s]
        /\ pc'[t] = "pick" \/ (pc'[t] = "top" /\ my_version'[t] = NULL)
    BY <1>1 DEF Begin, Erase, Goto, IInv, TypeOK
  <2>2. QED
    BY <2>1 DEF ViewInv, LocalsOK, InUpdate
<1>2. ASSUME NEW t \in Threads, LoopTest(t) \/ Pick(t) \/ Push(t)
      PROVE  \A s \in Threads : LocalsOK(s)'
  BY <1>2 DEF LoopTest, Pick, Push, updater, Goto, IInv, TypeOK, ViewInv, LocalsOK, InUpdate
<1>3. ASSUME NEW t \in Threads, Walk(t)
      PROVE  \A s \in Threads : LocalsOK(s)'
  <2>1. cur[t] \in DOMAIN node[sel[t]] /\ ~(rv[t][sel[t]] # NULL /\ cur[t] < rv[t][sel[t]])
    <3>1. pc[t] = "walk" /\ sel[t] \in Threads
      BY <1>3 DEF Walk, Goto, IInv, TypeOK
    <3>2. cur[t] \in Live(sel[t]) /\ cur[t] \in Int
      BY <3>1, Constants DEF IInv, WalkInv, TypeOK, Live
    <3>3. rv[t][sel[t]] # NULL => rv[t][sel[t]] <= cur[t] /\ rv[t][sel[t]] \in Int
      BY <3>1, Constants DEF IInv, WalkInv, TypeOK, Ptr
    <3>4. QED
      BY <3>2, <3>3 DEF Live
  <2>2. cur[t] # NULL
    BY <2>1, Constants DEF IInv, TypeOK
  <2>3. /\ my_version' = my_version /\ pc[t] = "walk"
        /\ \/ /\ pc' = [pc EXCEPT ![t] = "push"]
              /\ data_i' = [data_i EXCEPT ![t] = [version |-> cur[t], A |-> node[sel[t]][cur[t]].A]]
           \/ pc' = [pc EXCEPT ![t] = "walk"] /\ data_i' = data_i
    BY <1>3, <2>1, <2>2 DEF Walk, Goto
  <2>4. cur[t] \in Ints
    BY <2>2 DEF IInv, TypeOK, Ptr
  <2>5. QED
    BY <2>3, <2>4 DEF IInv, TypeOK, ViewInv, LocalsOK, InUpdate
<1>4. ASSUME UNCHANGED <<pc, my_version, data_i>>
      PROVE  \A s \in Threads : LocalsOK(s)'
  BY <1>4 DEF ViewInv, LocalsOK, InUpdate
<1>5. QED
  BY <1>1, <1>2, <1>3, <1>4
     DEF Next, UpdateAB, GC, GcLoopTest, GcLock, GcHead, GcLoad, GcFind, GcErase,
         UpdatersUnchanged, TimeOver, Return, vars, updater

LEMMA StepKeepsSnapshotInv == NoOverflow /\ SnapshotInv /\ [Next]_vars => SnapshotInv'
<1> SUFFICES ASSUME NoOverflow, IInv, ViewInv, [Next]_vars
             PROVE  IInv' /\ ViewInv'
  BY DEF SnapshotInv
<1>1. IInv'
  BY StepKeepsIInv
<1>2. \A s \in Threads : LocalsOK(s)'
  BY StepKeepsLocals
<1>3. ViewsKept
  BY StepKeepsViews
<1>4. ASSUME NEW s \in Threads, NEW i \in Threads, Reading(s)', rv'[s][i] = NULL
      PROVE  \E g \in Ints : NewestOlderIs(s, i, g)'
  <2>1. CASE Reading(s)
    <3>1. rv[s][i] = NULL /\ my_version'[s] = my_version[s]
      BY <1>3, <1>4, <2>1 DEF ViewsKept
    <3>2. PICK g \in Ints : NewestOlderIs(s, i, g)
      BY <2>1, <3>1 DEF ViewInv
    <3>3. QED
      BY <1>3, <1>4, <2>1, <3>1, <3>2 DEF ViewsKept
  <2>2. CASE ~Reading(s)
    <3>1. Begin(s)
      <4>1. pc'[s] \in {"pick", "walk"} /\ pc[s] \notin {"pick", "walk"}
        BY <1>4, <2>2 DEF Reading
      <4>2. ~UNCHANGED pc
        BY <4>1
      <4>3. PICK t \in Threads : UpdateAB(t)
        BY <4>2 DEF Next, GC, GcLoopTest, GcLock, GcHead, GcLoad, GcFind, GcErase,
                    UpdatersUnchanged, TimeOver, Return, vars
      <4>4. \A r \in Threads : r # t => pc'[r] = pc[r]
        BY <4>3 DEF UpdateAB, LoopTest, Begin, Pick, Walk, Push, Erase, Goto, IInv, TypeOK
      <4>5. t = s
        BY <4>1, <4>4 DEF IInv, TypeOK
      <4>6. QED
        BY <4>1, <4>3, <4>5 DEF UpdateAB, LoopTest, Pick, Walk, Push, Erase, Goto, IInv, TypeOK
    <3>2. head[i] \in Live(i) /\ head[i] \in Ints /\ \A x \in Live(i) : x <= head[i]
      BY DEF IInv, NewestFirst, TypeOK
    <3>3. head[i] < g_exec_order /\ my_version'[s] = g_exec_order /\ UNCHANGED node
      BY <3>1 DEF Begin, IInv, OrderInv, TypeOK
    <3>4. PICK h \in Ints : h = head[i]
      BY <3>2
    <3>5. NewestOlderIs(s, i, h)'
      BY <3>2, <3>3, <3>4 DEF NewestOlderIs, Live
    <3>6. QED
      BY <3>5
  <2>3. QED
    BY <2>1, <2>2
<1>5. QED
  BY <1>1, <1>2, <1>4 DEF ViewInv

(* The abstract variables that are computed from the concrete state. *)
Snap(t) == IF Reading(t) THEN [i \in Threads |-> Wanted(t, i)] ELSE NULL
ReadOf(t) == IF pc[t] \in {"push", "erase"} THEN <<sel[t], data_i[t].version>> ELSE NULL

(* An update that goes on reading keeps its snapshot, whatever is pushed   *)
(* and deleted meanwhile.                                                  *)
LEMMA SnapshotStays ==
  ASSUME SnapshotInv, SnapshotInv', ViewsKept, NEW s \in Threads, Reading(s), Reading(s)'
  PROVE  Snap(s)' = Snap(s)
<1>1. ASSUME NEW i \in Threads
      PROVE  Wanted(s, i)' = Wanted(s, i)
  <2>1. /\ rv[s][i] # NULL => Wanted(s, i) = rv[s][i]
        /\ \A g \in Ints : rv[s][i] = NULL /\ NewestOlderIs(s, i, g) => Wanted(s, i) = g
    BY WantedIs DEF WantedVersions
  <2>2. SnapshotInv' => WantedVersions'
    BY WantedIs, PTL
  <2>3. rv'[s][i] = rv[s][i]
        /\ (rv[s][i] = NULL => \A g \in Ints : NewestOlderIs(s, i, g) => NewestOlderIs(s, i, g)')
    BY DEF ViewsKept
  <2>4. rv[s][i] = NULL => \E g \in Ints : NewestOlderIs(s, i, g)
    BY DEF SnapshotInv, ViewInv
  <2>5. QED
    BY <2>1, <2>2, <2>3, <2>4 DEF WantedVersions
<1>2. QED
  BY <1>1 DEF Snap

(* What the abstract variables are made of. *)
LEMMA AbstractSame ==
  ASSUME UNCHANGED <<g_exec_order, my_version>>,
         \A i \in Threads : Committed(i)' = Committed(i),
         \A t \in Threads : Snap(t)' = Snap(t),
         \A t \in Threads : ReadOf(t)' = ReadOf(t)
  PROVE  UNCHANGED Store!vars
BY DEF Store!vars, Snap, ReadOf

(* Steps inside an update that read no version, steps outside updates, and *)
(* steps of the collector and of main do nothing that the store shows.     *)
LEMMA StoreStutters ==
  ASSUME SnapshotInv, SnapshotInv', ViewsKept,
         UNCHANGED <<g_exec_order, my_version, rv>>,
         \A s \in Threads :
           /\ InUpdate(s)' <=> InUpdate(s)
           /\ Reading(s)' <=> Reading(s)
           /\ ReadOf(s)' = ReadOf(s)
           /\ ~InUpdate(s) => head'[s] = head[s]
  PROVE  UNCHANGED Store!vars
<1>1. \A i \in Threads : Committed(i)' = Committed(i)
  <2>1. IInv' => CommittedVersions'
    BY CommittedIs, PTL
  <2>2. QED
    BY <2>1, CommittedIs DEF SnapshotInv, CommittedVersions
<1>2. \A t \in Threads : Snap(t)' = Snap(t)
  <2> SUFFICES ASSUME NEW t \in Threads PROVE Snap(t)' = Snap(t)
    OBVIOUS
  <2>1. CASE Reading(t)
    BY <2>1, SnapshotStays
  <2>2. CASE ~Reading(t)
    BY <2>2 DEF Snap
  <2>3. QED
    BY <2>1, <2>2
<1>3. \A t \in Threads : ReadOf(t)' = ReadOf(t)
  OBVIOUS
<1>4. QED
  BY <1>1, <1>2, <1>3, AbstractSame

(* Registration is the abstract Begin: the view is the snapshot of what is *)
(* committed now.                                                          *)
LEMMA BeginIsBegin ==
  ASSUME NoOverflow, SnapshotInv, SnapshotInv', ViewsKept, NEW t \in Threads, Begin(t)
  PROVE  Store!Begin(t)
<1>1. /\ \A s \in Threads : s # t => pc'[s] = pc[s]
      /\ pc[t] = "begin" /\ pc'[t] = "pick"
      /\ UNCHANGED <<head, node, sel, data_i>>
      /\ my_version' = [my_version EXCEPT ![t] = g_exec_order]
  BY DEF Begin, Goto, SnapshotInv, IInv, TypeOK
<1>2. /\ \A s \in Threads : s # t => rv'[s] = rv[s]
      /\ my_version'[t] = g_exec_order
  BY DEF Begin, SnapshotInv, IInv, TypeOK
<1>3. g_exec_order' = g_exec_order + 1
  <2>1. g_exec_order \in N..N + MaxUpdates /\ g_exec_order # N + MaxUpdates
    BY Constants DEF SnapshotInv, IInv, OrderInv, Begin
  <2>2. g_exec_order + 1 \in Ints
    BY <2>1, Constants DEF NoOverflow
  <2>3. QED
    BY <2>2, WrapIsIdentity DEF Begin
<1>4. /\ rv'[t][t] = head[t]
      /\ \A i \in Threads : i # t /\ InUpdate(i) => rv'[t][i] = rv[i][i]
      /\ \A i \in Threads : i # t /\ ~InUpdate(i) => rv'[t][i] = NULL
  BY BeginView DEF SnapshotInv
<1>5. \A i \in Threads : Committed(i) = IF InUpdate(i) THEN rv[i][i] ELSE head[i]
  BY CommittedIs DEF SnapshotInv, CommittedVersions
<1>6. \A i \in Threads : Committed(i)' = IF InUpdate(i)' THEN rv'[i][i] ELSE head'[i]
  <2>1. IInv' => CommittedVersions'
    BY CommittedIs, PTL
  <2>2. QED
    BY <2>1 DEF SnapshotInv, CommittedVersions
<1>7. \A i \in Threads : Committed(i)' = Committed(i)
  BY <1>1, <1>2, <1>4, <1>5, <1>6 DEF InUpdate
<1>8. \A i \in Threads : Wanted(t, i)' = Committed(i)
  <2> SUFFICES ASSUME NEW i \in Threads PROVE Wanted(t, i)' = Committed(i)
    OBVIOUS
  <2>0. SnapshotInv' => WantedVersions'
    BY WantedIs, PTL
  <2>1. \A s, j \in Threads : Reading(s)' =>
          /\ rv'[s][j] # NULL => Wanted(s, j)' = rv'[s][j]
          /\ \A g \in Ints : rv'[s][j] = NULL /\ NewestOlderIs(s, j, g)' => Wanted(s, j)' = g
    BY <2>0 DEF WantedVersions
  <2>2. Reading(t)'
    BY <1>1 DEF Reading
  <2>3. head[i] \in Live(i) /\ head[i] \in Ints /\ \A x \in Live(i) : x <= head[i]
    BY DEF SnapshotInv, IInv, NewestFirst, TypeOK
  <2>4. CASE i = t
    <3>1. head[t] # NULL /\ ~InUpdate(t)
      BY <1>1, <2>3, <2>4, Constants DEF InUpdate
    <3>2. QED
      BY <1>4, <1>5, <2>1, <2>2, <2>4, <3>1
  <2>5. CASE i # t /\ InUpdate(i)
    <3>1. rv[i][i] # NULL
      <4>1. CASE pc[i] = "erase"
        BY <4>1 DEF SnapshotInv, IInv, ActiveInv
      <4>2. CASE pc[i] # "erase"
        <5>1. rv[i][i] = head[i]
          BY <2>5, <4>2 DEF SnapshotInv, IInv, ActiveInv, Unpublished, InUpdate
        <5>2. QED
          BY <2>3, <5>1, Constants
      <4>3. QED
        BY <4>1, <4>2
    <3>2. QED
      BY <1>4, <1>5, <2>1, <2>2, <2>5, <3>1
  <2>6. CASE i # t /\ ~InUpdate(i)
    <3>1. PICK h \in Ints : h = head[i]
      BY <2>3
    <3>2. h < g_exec_order
      BY <3>1 DEF SnapshotInv, IInv, OrderInv
    <3>3. NewestOlderIs(t, i, h)'
      BY <1>1, <1>2, <2>3, <3>1, <3>2 DEF NewestOlderIs, Live
    <3>4. Wanted(t, i)' = h
      BY <1>4, <2>1, <2>2, <2>6, <3>3
    <3>5. QED
      BY <1>5, <2>6, <3>1, <3>4
  <2>7. QED
    BY <2>4, <2>5, <2>6
<1>9. /\ Snap(t)' = [i \in Threads |-> Committed(i)]
      /\ \A s \in Threads : s # t => Snap(s)' = Snap(s)
  <2>1. Snap(t)' = [i \in Threads |-> Committed(i)]
    BY <1>1, <1>8 DEF Snap, Reading
  <2>2. ASSUME NEW s \in Threads, s # t
        PROVE  Snap(s)' = Snap(s)
    <3>1. Reading(s)' <=> Reading(s)
      BY <1>1, <2>2 DEF Reading
    <3>2. CASE Reading(s)
      BY <3>1, <3>2, SnapshotStays
    <3>3. CASE ~Reading(s)
      BY <3>1, <3>3 DEF Snap
    <3>4. QED
      BY <3>2, <3>3
  <2>3. QED
    BY <2>1, <2>2
<1>10. \A s \in Threads : ReadOf(s)' = ReadOf(s)
  BY <1>1 DEF ReadOf
<1>11. my_version[t] = NULL
  BY <1>1 DEF SnapshotInv, ViewInv, LocalsOK, InUpdate
<1>12. QED
  BY <1>1, <1>3, <1>7, <1>9, <1>10, <1>11 DEF Store!Begin, Snap, ReadOf

(* Finding the target is the abstract Read of the chosen record; looking   *)
(* at another node is nothing.                                             *)
LEMMA WalkIsRead ==
  ASSUME SnapshotInv, SnapshotInv', ViewsKept, NEW t \in Threads, Walk(t)
  PROVE  (\E j \in Threads : Store!Read(t, j)) \/ UNCHANGED Store!vars
<1> DEFINE i == sel[t]
           v == cur[t]
<1>1. pc[t] = "walk" /\ i \in Threads /\ pc \in [Threads -> UpdaterLocations]
  BY DEF Walk, Goto, SnapshotInv, IInv, TypeOK
<1>2. UNCHANGED <<g_exec_order, active, head, node, my_version, rv, sel>>
  BY DEF Walk
<1>3. /\ v \in Live(i) /\ v \in Ints /\ v \in Int
      /\ rv[t][i] # NULL => rv[t][i] <= v /\ rv[t][i] \in Int
      /\ rv[t][i] = NULL => \A x \in Live(i) : x < my_version[t] => x <= v
  <2>1. /\ v \in Live(i)
        /\ rv[t][i] # NULL => rv[t][i] <= v
        /\ rv[t][i] = NULL => \A x \in Live(i) : x < my_version[t] => x <= v
    BY <1>1 DEF SnapshotInv, IInv, WalkInv
  <2>2. Live(i) \subseteq Ints /\ rv[t][i] \in Ptr
    BY <1>1 DEF SnapshotInv, IInv, TypeOK, Live
  <2>3. QED
    BY <2>1, <2>2, Constants DEF Ptr
<1>4. v \in DOMAIN node[i] /\ v # NULL /\ ~(rv[t][i] # NULL /\ v < rv[t][i])
  BY <1>3, Constants DEF Live
<1>5. CASE pc' = [pc EXCEPT ![t] = "walk"] /\ data_i' = data_i
  <2>1. pc' = pc
    BY <1>1, <1>5
  <2>2. QED
    BY <1>2, <1>5, <2>1, StoreStutters DEF InUpdate, Reading, ReadOf
<1>6. CASE /\ IsTarget(t, i, v) /\ pc' = [pc EXCEPT ![t] = "push"]
           /\ data_i' = [data_i EXCEPT ![t] = [version |-> v, A |-> node[i][v].A]]
  <2>1. /\ pc'[t] = "push" /\ \A s \in Threads : s # t => pc'[s] = pc[s]
        /\ data_i'[t].version = v /\ \A s \in Threads : s # t => data_i'[s] = data_i[s]
    BY <1>1, <1>6 DEF SnapshotInv, IInv, TypeOK
  <2>2. v = Wanted(t, i)
    <3>1. Reading(t)
      BY <1>1 DEF Reading
    <3>2. CASE rv[t][i] # NULL
      BY <1>1, <1>6, <3>1, <3>2, WantedIs DEF WantedVersions, IsTarget
    <3>3. CASE rv[t][i] = NULL
      <4>1. NewestOlderIs(t, i, v)
        BY <1>3, <1>6, <3>3 DEF NewestOlderIs, IsTarget
      <4>2. QED
        BY <1>1, <1>3, <3>1, <3>3, <4>1, WantedIs DEF WantedVersions
    <3>4. QED
      BY <3>2, <3>3
  <2>3. \A j \in Threads : Committed(j)' = Committed(j)
    <3>1. IInv' => CommittedVersions'
      BY CommittedIs, PTL
    <3>2. QED
      BY <1>1, <1>2, <2>1, <3>1, CommittedIs DEF SnapshotInv, CommittedVersions, InUpdate
  <2>4. Snap(t) = [j \in Threads |-> Wanted(t, j)] /\ Snap(t)' = NULL
        /\ \A s \in Threads : s # t => Snap(s)' = Snap(s)
    <3>1. Snap(t) = [j \in Threads |-> Wanted(t, j)] /\ Snap(t)' = NULL
      BY <1>1, <2>1 DEF Snap, Reading
    <3>2. ASSUME NEW s \in Threads, s # t
          PROVE  Snap(s)' = Snap(s)
      <4>1. Reading(s)' <=> Reading(s)
        BY <2>1, <3>2 DEF Reading
      <4>2. CASE Reading(s)
        BY <4>1, <4>2, SnapshotStays
      <4>3. CASE ~Reading(s)
        BY <4>1, <4>3 DEF Snap
      <4>4. QED
        BY <4>2, <4>3
    <3>3. QED
      BY <3>1, <3>2
  <2>5. Snap(t) # NULL
    <3>1. \A j \in Threads : Wanted(t, j) \in Int
      BY <1>1, WantedIs DEF WantedVersions, Reading
    <3>2. Snap(t) \in [0..N - 1 -> Int]
      BY <2>4, <3>1 DEF Threads
    <3>3. QED
      BY <3>2, NullAssumption
  <2>6. ReadOf(t)' = <<i, Snap(t)[i]>> /\ \A s \in Threads : s # t => ReadOf(s)' = ReadOf(s)
    BY <1>1, <1>2, <2>1, <2>2, <2>4 DEF ReadOf
  <2>7. PICK j \in Threads : j = i
    BY <1>1
  <2>8. Store!Read(t, j)
    BY <1>2, <2>3, <2>4, <2>5, <2>6, <2>7 DEF Store!Read, Snap, ReadOf
  <2>9. QED
    BY <2>8
<1>7. QED
  BY <1>4, <1>5, <1>6 DEF Walk, Goto

(* Leaving the active list is the abstract Commit: the version that has    *)
(* been pushed becomes the committed one.                                  *)
LEMMA EraseIsCommit ==
  ASSUME SnapshotInv, SnapshotInv', ViewsKept, NEW t \in Threads, Erase(t)
  PROVE  Store!Commit(t)
<1>1. /\ \A s \in Threads : s # t => pc'[s] = pc[s]
      /\ pc[t] = "erase" /\ pc'[t] = "top"
      /\ UNCHANGED <<g_exec_order, head>>
      /\ my_version' = [my_version EXCEPT ![t] = NULL]
  BY DEF Erase, Goto, SnapshotInv, IInv, TypeOK
<1>2. \A s \in Threads : s # t => rv'[s] = rv[s] /\ sel'[s] = sel[s] /\ data_i'[s] = data_i[s]
  BY DEF Erase, SnapshotInv, IInv, TypeOK
<1>3. Committed(t)' = my_version[t] /\ \A j \in Threads : j # t => Committed(j)' = Committed(j)
  <2>1. IInv' => CommittedVersions'
    BY CommittedIs, PTL
  <2>2. my_version[t] = head[t]
    BY <1>1 DEF SnapshotInv, IInv, OrderInv
  <2>3. QED
    BY <1>1, <1>2, <2>1, <2>2, CommittedIs DEF SnapshotInv, CommittedVersions, InUpdate
<1>4. ASSUME NEW s \in Threads
      PROVE  Snap(s)' = Snap(s)
  <2>1. Reading(s)' <=> Reading(s)
    BY <1>1 DEF Reading
  <2>2. CASE Reading(s)
    BY <2>1, <2>2, SnapshotStays
  <2>3. CASE ~Reading(s)
    BY <2>1, <2>3 DEF Snap
  <2>4. QED
    BY <2>2, <2>3
<1>5. ReadOf(t)' = NULL /\ \A s \in Threads : s # t => ReadOf(s)' = ReadOf(s)
  BY <1>1, <1>2 DEF ReadOf
<1>6. ReadOf(t) # NULL
  <2>1. sel[t] \in Int /\ ReadOf(t) = <<sel[t], data_i[t].version>>
    BY <1>1, Constants DEF SnapshotInv, IInv, TypeOK, ReadOf
  <2>2. data_i[t].version \in Int
    BY <1>1, Constants DEF SnapshotInv, ViewInv, LocalsOK
  <2>3. QED
    BY <2>1, <2>2, NullAssumption
<1>7. QED
  BY <1>1, <1>3, <1>4, <1>5, <1>6 DEF Store!Commit, Snap, ReadOf

LEMMA InitStore == NoOverflow /\ Init => ViewInv /\ Store!Init
<1> SUFFICES ASSUME NoOverflow, Init PROVE ViewInv /\ Store!Init
  OBVIOUS
<1>1. ViewInv
  BY DEF Init, ViewInv, LocalsOK, InUpdate, Reading
<1>2. IInv
  BY InitIInv
<1>3. \A i \in Threads : Committed(i) = i /\ Snap(i) = NULL /\ ReadOf(i) = NULL
  BY <1>2, CommittedIs DEF CommittedVersions, Init, InUpdate, Reading, Snap, ReadOf
<1>4. Store!Init
  BY <1>3 DEF Store!Init, Init, Snap, ReadOf
<1>5. QED
  BY <1>1, <1>4

(* Every step is a step of the store or a stuttering step. *)
LEMMA StepIsStoreStep ==
  NoOverflow /\ SnapshotInv /\ SnapshotInv' /\ [Next]_vars => [Store!Next]_(Store!vars)
<1> SUFFICES ASSUME NoOverflow, SnapshotInv, SnapshotInv', [Next]_vars
             PROVE  [Store!Next]_(Store!vars)
  OBVIOUS
<1>0. ViewsKept /\ pc \in [Threads -> UpdaterLocations]
  BY StepKeepsViews DEF SnapshotInv, IInv, TypeOK
<1>1. ASSUME NEW t \in Threads, Begin(t)
      PROVE  Store!Next
  BY <1>0, <1>1, BeginIsBegin DEF Store!Next
<1>2. ASSUME NEW t \in Threads, Erase(t)
      PROVE  Store!Next
  BY <1>0, <1>2, EraseIsCommit DEF Store!Next
<1>3. ASSUME NEW t \in Threads, Walk(t)
      PROVE  Store!Next \/ UNCHANGED Store!vars
  BY <1>0, <1>3, WalkIsRead DEF Store!Next
<1>4. ASSUME NEW t \in Threads, LoopTest(t) \/ Pick(t) \/ Push(t)
      PROVE  UNCHANGED Store!vars
  <2>1. /\ UNCHANGED <<g_exec_order, my_version, rv, data_i>>
        /\ \A s \in Threads : s # t => pc'[s] = pc[s] /\ head'[s] = head[s] /\ sel'[s] = sel[s]
        /\ \/ pc[t] = "top" /\ pc'[t] \in {"begin", "done"} /\ head' = head
           \/ pc[t] = "pick" /\ pc'[t] = "walk"
           \/ pc[t] = "push" /\ pc'[t] = "erase" /\ sel' = sel
    BY <1>0, <1>4 DEF LoopTest, Pick, Push, Goto, updater, SnapshotInv, IInv, TypeOK
  <2>2. \A s \in Threads : /\ InUpdate(s)' <=> InUpdate(s)
                           /\ Reading(s)' <=> Reading(s)
                           /\ ReadOf(s)' = ReadOf(s)
                           /\ ~InUpdate(s) => head'[s] = head[s]
    BY <2>1 DEF InUpdate, Reading, ReadOf
  <2>3. QED
    BY <1>0, <2>1, <2>2, StoreStutters
<1>5. CASE GC \/ TimeOver \/ Return \/ UNCHANGED vars
  <2>1. UNCHANGED <<g_exec_order, my_version, rv, data_i, pc, head, sel>>
    BY <1>5 DEF GC, GcLoopTest, GcLock, GcHead, GcLoad, GcFind, GcErase, UpdatersUnchanged,
                TimeOver, Return, vars, updater
  <2>2. QED
    BY <1>0, <2>1, StoreStutters DEF InUpdate, Reading, ReadOf
<1>6. QED
  BY <1>1, <1>2, <1>3, <1>4, <1>5 DEF Next, UpdateAB

(* The invariant of the refinement, for any number of threads. *)
THEOREM SnapshotInvariant == ASSUME NoOverflow PROVE Spec => []SnapshotInv
<1>1. Init => SnapshotInv
  BY InitIInv, InitStore DEF SnapshotInv
<1>2. SnapshotInv /\ [Next]_vars => SnapshotInv'
  BY StepKeepsSnapshotInv
<1>3. QED
  BY <1>1, <1>2, PTL DEF Spec

(* Every update reads from the snapshot of the committed versions at its   *)
(* registration, although it searches without a lock while other threads   *)
(* push and the collector deletes: the program implements SnapshotStore.   *)
THEOREM UpdatesReadFromSnapshot == ASSUME NoOverflow PROVE Spec => ReadsFromSnapshot
<1>1. Init => Store!Init
  BY InitStore
<1>2. SnapshotInv /\ SnapshotInv' /\ [Next]_vars => [Store!Next]_(Store!vars)
  BY StepIsStoreStep
<1>3. QED
  BY <1>1, <1>2, SnapshotInvariant, PTL DEF Spec, ReadsFromSnapshot, Store!Spec

-----------------------------------------------------------------------------
(* The printed sum.  Two ints are congruent when they differ by a multiple *)
(* of 2^32: int addition respects that, however often it overflows.        *)

Congruent(x, y) == \E k \in Int : x = y + k * (2 * IntMax + 2)

(* The two fields of every live version add up to A_PLUS_B. *)
Balanced ==
  \A i \in Threads : \A v \in Live(i) : Congruent(node[i][v].A + node[i][v].B, A_PLUS_B)

LEMMA ModIs ==
  \A m \in Nat : m > 0 => \A a \in Int :
    a = m * (a \div m) + (a % m) /\ a \div m \in Int /\ a % m \in 0..m - 1
OBVIOUS

(* Adding a multiple of m does not change the remainder. *)
LEMMA ModSame ==
  ASSUME NEW m \in Nat, m > 0, NEW a \in Int, NEW k \in Int
  PROVE  (a + k * m) % m = a % m
<1>1. PICK q, r \in Int : a = m * q + r /\ r \in 0..m - 1 /\ r = a % m
  BY ModIs
<1>2. PICK p, s \in Int : a + k * m = m * p + s /\ s \in 0..m - 1 /\ s = (a + k * m) % m
  BY ModIs
<1>3. m * (p - q - k) = r - s
  BY <1>1, <1>2
<1>4. PICK j \in Int : j = p - q - k /\ m * j = r - s
  BY <1>3
<1>5. m * j < m /\ -m < m * j
  BY <1>1, <1>2, <1>4
<1>6. j = 0
  <2>1. j >= 1 => m * j >= m
    OBVIOUS
  <2>2. j <= -1 => m * j <= -m
    OBVIOUS
  <2>3. QED
    BY <1>5, <2>1, <2>2
<1>7. r = s
  BY <1>1, <1>2, <1>4, <1>6
<1>8. QED
  BY <1>1, <1>2, <1>7

(* What wraps is congruent to itself. *)
LEMMA WrapCongruent == \A x \in Int : Congruent(Wrap(x), x) /\ Wrap(x) \in Int
<1>1. SUFFICES ASSUME NEW x \in Int PROVE Congruent(Wrap(x), x) /\ Wrap(x) \in Int
  OBVIOUS
<1>2. PICK m \in Nat : m = 2 * IntMax + 2 /\ m > 0
  BY IntMaxAssumption
<1>3. PICK a \in Int : a = x + IntMax + 1
  BY IntMaxAssumption
<1>4. a = m * (a \div m) + (a % m) /\ a \div m \in Int /\ a % m \in 0..m - 1
  BY <1>2, ModIs
<1>5. PICK k \in Int : k = -(a \div m)
  BY <1>4
<1>6. Wrap(x) = (a % m) - IntMax - 1
  BY <1>2, <1>3 DEF Wrap
<1>7. Wrap(x) = x + k * m
  BY <1>2, <1>3, <1>4, <1>5, <1>6, IntMaxAssumption
<1>8. QED
  BY <1>2, <1>7 DEF Congruent

(* Congruent values wrap to the same int. *)
LEMMA WrapSame == \A x, y \in Int : Congruent(x, y) => Wrap(x) = Wrap(y)
<1>1. SUFFICES ASSUME NEW x \in Int, NEW y \in Int, Congruent(x, y) PROVE Wrap(x) = Wrap(y)
  OBVIOUS
<1>2. PICK m \in Nat : m = 2 * IntMax + 2 /\ m > 0
  BY IntMaxAssumption
<1>3. PICK k \in Int : x = y + k * m
  BY <1>1, <1>2 DEF Congruent
<1>4. PICK a \in Int : a = y + IntMax + 1
  BY IntMaxAssumption
<1>5. x + IntMax + 1 = a + k * m
  BY <1>2, <1>3, <1>4, IntMaxAssumption
<1>6. (a + k * m) % m = a % m
  BY <1>2, ModSame
<1>7. QED
  BY <1>2, <1>4, <1>5, <1>6 DEF Wrap

LEMMA CongruentSums ==
  ASSUME NEW x \in Int, NEW y \in Int, NEW u \in Int, NEW v \in Int, Congruent(x, y)
  PROVE  /\ Congruent(u, v) => Congruent(x + u, y + v)
         /\ Congruent(y, v) => Congruent(x, v)
<1>1. PICK m \in Nat : m = 2 * IntMax + 2
  BY IntMaxAssumption
<1>2. PICK k \in Int : x = y + k * m
  BY <1>1 DEF Congruent
<1>3. ASSUME Congruent(u, v) PROVE Congruent(x + u, y + v)
  <2>1. PICK j \in Int : u = v + j * m
    BY <1>1, <1>3 DEF Congruent
  <2>2. x + u = (y + v) + (k + j) * m
    BY <1>2, <2>1
  <2>3. QED
    BY <1>1, <2>2 DEF Congruent
<1>4. ASSUME Congruent(y, v) PROVE Congruent(x, v)
  <2>1. PICK j \in Int : y = v + j * m
    BY <1>1, <1>4 DEF Congruent
  <2>2. x = v + (k + j) * m
    BY <1>2, <2>1
  <2>3. QED
    BY <1>1, <2>2 DEF Congruent
<1>5. QED
  BY <1>3, <1>4

LEMMA LeastElement ==
  ASSUME NEW S \in SUBSET Nat, S # {}
  PROVE  \E x \in S : \A y \in S : x <= y
<1> DEFINE R == {ss \in Nat \X Nat : ss[1] < ss[2]}
<1>1. IsWellFoundedOn(R, Nat)
  BY NatLessThanWellFounded DEF OpToRel
<1>2. PICK x \in S : \A y \in S : ~(<<y, x>> \in R)
  <2> HIDE DEF R
  <2> QED BY <1>1, WFMin
<1>3. ASSUME NEW y \in S
      PROVE  x <= y
  <2>1. y < x => <<y, x>> \in R
    OBVIOUS
  <2>2. QED
    BY <1>2, <2>1
<1>4. QED
  BY <1>3

LEMMA FromZeroUp ==
  ASSUME NEW S \in SUBSET Nat, 0 \in S, \A n \in S : n + 1 \in S
  PROVE  S = Nat
<1>1. SUFFICES ASSUME Nat \ S # {} PROVE FALSE
  OBVIOUS
<1>2. PICK x \in Nat \ S : \A y \in Nat \ S : x <= y
  BY <1>1, LeastElement
<1>3. x # 0
  OBVIOUS
<1>4. x - 1 \in Nat /\ x = (x - 1) + 1
  BY <1>3
<1>5. x - 1 \notin S
  BY <1>4
<1> QED BY <1>2, <1>4, <1>5

(* A sequence of values of X is built step by step. *)
Iterates(g, a, F, M) == g[0] = a /\ \A n \in 1..M : g[n] = F[n][g[n - 1]]

LEMMA RecursionExists ==
  ASSUME NEW X, NEW a \in X, NEW M \in Nat,
         NEW F, \A n \in Nat : \A x \in X : F[n][x] \in X
  PROVE  \E g \in [0..M -> X] : Iterates(g, a, F, M)
<1> DEFINE Upto(m) == \E g \in [0..m -> X] : g[0] = a /\ \A n \in 1..m : g[n] = F[n][g[n - 1]]
           T == {m \in Nat : Upto(m)}
<1>1. 0 \in T
  <2> DEFINE h == [n \in 0..0 |-> a]
  <2>1. h \in [0..0 -> X] /\ h[0] = a /\ \A n \in 1..0 : h[n] = F[n][h[n - 1]]
    OBVIOUS
  <2> QED BY <2>1
<1>2. ASSUME NEW m \in T
      PROVE  m + 1 \in T
  <2>1. PICK g \in [0..m -> X] : g[0] = a /\ \A n \in 1..m : g[n] = F[n][g[n - 1]]
    OBVIOUS
  <2> DEFINE h == [n \in 0..m + 1 |-> IF n <= m THEN g[n] ELSE F[m + 1][g[m]]]
  <2>2. F[m + 1][g[m]] \in X /\ m \in Nat
    <3>1. m + 1 \in Nat /\ g[m] \in X
      OBVIOUS
    <3> QED BY <3>1
  <2>3. h \in [0..m + 1 -> X]
    BY <2>2
  <2>4. h[m + 1] = F[m + 1][g[m]] /\ (m + 1) - 1 = m /\ \A n \in 0..m : h[n] = g[n]
    BY <2>2
  <2>5. h[0] = a /\ \A n \in 1..m + 1 : h[n] = F[n][h[n - 1]]
    <3>1. \A n \in 1..m + 1 : n - 1 \in 0..m /\ (n \in 1..m \/ n = m + 1)
      BY <2>2
    <3>2. 0 \in 0..m /\ m \in 0..m /\ \A n \in 1..m : n \in 0..m
      BY <2>2
    <3> HIDE DEF h
    <3> QED BY <2>1, <2>4, <3>1, <3>2
  <2>6. Upto(m + 1)
    <3> HIDE DEF h
    <3> QED BY <2>3, <2>5
  <2> HIDE DEF Upto
  <2> QED BY <2>6, <2>2
<1>3. M \in T
  <2>1. T \in SUBSET Nat
    OBVIOUS
  <2> HIDE DEF T
  <2> QED BY <1>1, <1>2, <2>1, FromZeroUp
<1> QED BY <1>3 DEF Iterates

(* The first version of every thread is balanced. *)
LEMMA InitBalanced == Init => Balanced
<1> SUFFICES ASSUME Init, NEW i \in Threads, NEW v \in Live(i)
             PROVE  Congruent(node[i][v].A + node[i][v].B, A_PLUS_B)
  BY DEF Balanced
<1>1. PICK a \in [Threads -> InitialA] :
        node = [j \in Threads |->
                 [w \in {j} |-> [next |-> NULL, A |-> a[j], B |-> A_PLUS_B - a[j]]]]
  BY DEF Init
<1>2. node[i][v].A = a[i] /\ node[i][v].B = A_PLUS_B - a[i]
  BY <1>1 DEF Live
<1>3. a[i] \in Int /\ A_PLUS_B \in Int
  <2>1. a[i] \in InitialA
    BY <1>1
  <2>2. \A x \in InitialA : x \in 0..A_PLUS_B - 1
    BY AAssumption
  <2>3. A_PLUS_B \in Int
    BY AAssumption, IntMaxAssumption
  <2>4. QED
    BY <2>1, <2>2, <2>3
<1>4. a[i] + (A_PLUS_B - a[i]) = A_PLUS_B + 0 * (2 * IntMax + 2)
  BY <1>3, IntMaxAssumption
<1>5. QED
  BY <1>2, <1>4 DEF Congruent

(* What an update takes from B it adds to A. *)
LEMMA PushKeepsBalanced ==
  ASSUME IInv, Balanced, NEW t \in Threads, Push(t)
  PROVE  Balanced'
<1> DEFINE m == my_version[t]
           h == head[t]
           d == Remainder(data_i[t].A, A_PLUS_B)
           a == Wrap(node[t][h].A + d)
           b == Wrap(node[t][h].B - d)
<1>1. h \in Live(t)
  BY DEF IInv, NewestFirst
<1>2. node[t][h].A \in Int /\ node[t][h].B \in Int
  BY <1>1, Constants DEF IInv, TypeOK, Live
<1>3. d \in Int
  <2>1. data_i[t].A \in Int
    BY Constants DEF IInv, TypeOK
  <2>2. QED
    BY <2>1, RemainderInt
<1>4. A_PLUS_B \in Int
  BY AAssumption, IntMaxAssumption
<1>5. Congruent(a + b, A_PLUS_B)
  <2>1. PICK p, q, e \in Int : p = node[t][h].A /\ q = node[t][h].B /\ e = d
    BY <1>2, <1>3
  <2>2. Congruent(p + q, A_PLUS_B)
    BY <1>1, <2>1 DEF Balanced
  <2>3. p + e \in Int /\ q - e \in Int /\ (p + e) + (q - e) = p + q /\ p + q \in Int
    BY <2>1
  <2>4. PICK u, v \in Int : u = Wrap(p + e) /\ v = Wrap(q - e) /\ Congruent(u, p + e) /\ Congruent(v, q - e)
    BY <2>3, WrapCongruent
  <2>5. Congruent(u + v, (p + e) + (q - e))
    BY <2>3, <2>4, CongruentSums
  <2>6. Congruent(u + v, p + q) /\ u + v \in Int
    BY <2>3, <2>4, <2>5
  <2>7. Congruent(u + v, A_PLUS_B)
    BY <2>2, <2>3, <2>6, <1>4, CongruentSums
  <2>8. QED
    BY <2>1, <2>4, <2>7
<1>6. node' = [node EXCEPT ![t] = PushData(@, h, m, a, b)]
  BY DEF Push
<1> HIDE DEF a, b, d
<1>7. /\ \A i \in Threads : i # t => node'[i] = node[i]
      /\ DOMAIN node'[t] = Live(t) \cup {m}
      /\ node'[t][m].A = a /\ node'[t][m].B = b
      /\ \A w \in Live(t) : w # m => node'[t][w] = node[t][w]
  BY <1>6 DEF PushData, IInv, TypeOK, Live
<1>8. QED
  BY <1>5, <1>7 DEF Balanced, Live

(* The collector changes links only. *)
LEMMA GcEraseKeepsBalanced ==
  ASSUME IInv, Balanced, GcErase
  PROVE  Balanced'
<1>1. gi \in Threads
  BY DEF IInv, TypeOK
<1>2. CASE UNCHANGED node
  BY <1>2 DEF Balanced, Live
<1>3. CASE ~UNCHANGED node
  <2> DEFINE n == node[gi][gnode].next
  <2>1. node' = [node EXCEPT ![gi] = EraseData(@, gnode, n)]
    BY <1>3 DEF GcErase, NextList
  <2>2. \A w \in Live(gi) : node[gi][w] \in [next : Ptr, A : Ints, B : Ints]
    BY <1>1 DEF IInv, TypeOK, Live
  <2>3. /\ \A i \in Threads : i # gi => node'[i] = node[i]
        /\ node'[gi] = [w \in Live(gi) \ {n} |->
                          IF w = gnode THEN [node[gi][w] EXCEPT !.next = node[gi][n].next]
                          ELSE node[gi][w]]
    BY <1>1, <2>1 DEF EraseData, IInv, TypeOK, Live
  <2>4. /\ DOMAIN node'[gi] = Live(gi) \ {n}
        /\ \A w \in Live(gi) \ {n} : node'[gi][w].A = node[gi][w].A /\ node'[gi][w].B = node[gi][w].B
    <3> HIDE DEF n
    <3> QED BY <2>2, <2>3
  <2>5. QED
    BY <1>1, <2>3, <2>4 DEF Balanced, Live
<1>4. QED
  BY <1>2, <1>3

LEMMA StepKeepsBalanced == IInv /\ Balanced /\ [Next]_vars => Balanced'
<1> SUFFICES ASSUME IInv, Balanced, [Next]_vars
             PROVE  Balanced'
  OBVIOUS
<1>1. CASE \E t \in Threads : Push(t)
  BY <1>1, PushKeepsBalanced
<1>2. CASE GcErase
  BY <1>2, GcEraseKeepsBalanced
<1>3. CASE UNCHANGED node
  BY <1>3 DEF Balanced, Live
<1>4. QED
  BY <1>1, <1>2, <1>3
     DEF Next, UpdateAB, GC, LoopTest, Begin, Pick, Walk, Erase, GcLoopTest, GcLock, GcHead,
         GcLoad, GcFind, NextList, TimeOver, Return, vars

(* The loop of PrintSum adds A_PLUS_B for each thread, up to overflow. *)
LEMMA BalancedSum == IInv /\ Balanced => SumUnchanged
<1> SUFFICES ASSUME IInv, Balanced
             PROVE  PrintSum = Wrap(N * A_PLUS_B)
  BY DEF SumUnchanged
<1> DEFINE A(n) == node[n - 1][head[n - 1]].A
           B(n) == node[n - 1][head[n - 1]].B
           Plus(x, n) == Wrap(Wrap(x + A(n)) + B(n))
           F == [n \in Nat |-> [x \in Int |-> IF n \in 1..N THEN Plus(x, n) ELSE x]]
           Is(g) == g = [n \in 0..N |-> IF n = 0 THEN 0 ELSE Plus(g[n - 1], n)]
<1>1. N \in Nat /\ N > 0 /\ A_PLUS_B \in Int
  BY Constants, AAssumption, IntMaxAssumption
<1>2. \A n \in 1..N : A(n) \in Int /\ B(n) \in Int /\ Congruent(A(n) + B(n), A_PLUS_B)
  <2> SUFFICES ASSUME NEW n \in 1..N
               PROVE  A(n) \in Int /\ B(n) \in Int /\ Congruent(A(n) + B(n), A_PLUS_B)
    OBVIOUS
  <2>1. PICK i \in Threads : i = n - 1
    BY <1>1 DEF Threads
  <2>2. head[i] \in Live(i)
    BY DEF IInv, NewestFirst
  <2>3. node[i][head[i]].A \in Int /\ node[i][head[i]].B \in Int
    BY <2>2, Constants DEF IInv, TypeOK, Live
  <2>4. Congruent(node[i][head[i]].A + node[i][head[i]].B, A_PLUS_B)
    BY <2>2 DEF Balanced
  <2>5. QED
    BY <2>1, <2>3, <2>4
<1> HIDE DEF A, B
<1>3. \A n \in 1..N : \A x \in Int :
        /\ Plus(x, n) \in Int
        /\ Congruent(Plus(x, n), x + A_PLUS_B)
        /\ Plus(x, n) = Wrap(x + A_PLUS_B)
  <2> SUFFICES ASSUME NEW n \in 1..N, NEW x \in Int
               PROVE  /\ Plus(x, n) \in Int
                      /\ Congruent(Plus(x, n), x + A_PLUS_B)
                      /\ Plus(x, n) = Wrap(x + A_PLUS_B)
    OBVIOUS
  <2>1. PICK a, b \in Int : a = A(n) /\ b = B(n) /\ Congruent(a + b, A_PLUS_B)
    BY <1>2
  <2>2. PICK y \in Int : y = Wrap(x + a) /\ Congruent(y, x + a)
    BY WrapCongruent
  <2>3. Congruent(b, b) /\ Congruent(x, x)
    <3>1. b = b + 0 * (2 * IntMax + 2) /\ x = x + 0 * (2 * IntMax + 2)
      BY IntMaxAssumption
    <3> QED BY <3>1 DEF Congruent
  <2>4. Congruent(y + b, (x + a) + b)
    BY <2>2, <2>3, CongruentSums
  <2>5. Congruent(x + (a + b), x + A_PLUS_B)
    BY <1>1, <2>1, <2>3, CongruentSums
  <2>6. (x + a) + b = x + (a + b) /\ x + (a + b) \in Int /\ y + b \in Int /\ x + A_PLUS_B \in Int
    BY <1>1
  <2>7. Congruent(y + b, x + A_PLUS_B)
    BY <2>4, <2>5, <2>6, CongruentSums
  <2>8. Wrap(y + b) = Wrap(x + A_PLUS_B)
    BY <2>6, <2>7, WrapSame
  <2>9. Congruent(Wrap(x + A_PLUS_B), x + A_PLUS_B) /\ Wrap(x + A_PLUS_B) \in Int
    BY <2>6, WrapCongruent
  <2>10. QED
    BY <2>1, <2>2, <2>8, <2>9
<1>4. PICK w : w = CHOOSE g : Is(g)
  OBVIOUS
<1>5. PrintSum = w[N]
  BY <1>4 DEF PrintSum, A, B
<1> HIDE DEF Plus
<1>6. \A n \in Nat : \A x \in Int : F[n][x] = IF n \in 1..N THEN Plus(x, n) ELSE x
  OBVIOUS
<1>7. \A n \in Nat : \A x \in Int : F[n][x] \in Int
  <2> HIDE DEF F
  <2> QED BY <1>3, <1>6
<1>8. PICK g \in [0..N -> Int] : Iterates(g, 0, F, N)
  <2>1. 0 \in Int
    OBVIOUS
  <2> HIDE DEF F
  <2> QED BY <1>1, <1>7, <2>1, RecursionExists
<1>9. Is(g)
  <2>1. \A n \in 1..N : n \in Nat /\ g[n - 1] \in Int
    BY <1>1
  <2>2. \A n \in 1..N : g[n] = Plus(g[n - 1], n)
    <3> HIDE DEF F
    <3> QED BY <2>1, <1>6, <1>8 DEF Iterates
  <2>3. g = [n \in 0..N |-> g[n]] /\ \A n \in 0..N : n = 0 \/ n \in 1..N
    BY <1>1
  <2>4. g[0] = 0
    BY <1>8 DEF Iterates
  <2> HIDE DEF F
  <2> QED BY <2>2, <2>3, <2>4
<1>10. Is(w)
  BY <1>4, <1>9
<1>11. w[0] = 0 /\ \A n \in Nat : n < N => w[n + 1] = Plus(w[n], n + 1)
  <2>1. \A n \in 0..N : w[n] = IF n = 0 THEN 0 ELSE Plus(w[n - 1], n)
    BY <1>10
  <2>2. \A n \in Nat : n < N => n + 1 \in 0..N /\ n + 1 # 0 /\ (n + 1) - 1 = n
    BY <1>1
  <2>3. 0 \in 0..N
    BY <1>1
  <2> HIDE DEF Is
  <2> QED BY <2>1, <2>2, <2>3
<1> DEFINE T == {n \in Nat : n <= N => /\ w[n] \in Int
                                       /\ Congruent(w[n], n * A_PLUS_B)
                                       /\ n > 0 => w[n] = Wrap(n * A_PLUS_B)}
<1>12. 0 \in T
  <2>1. 0 = 0 * A_PLUS_B + 0 * (2 * IntMax + 2) /\ 0 \in Int
    BY <1>1, IntMaxAssumption
  <2>2. Congruent(0, 0 * A_PLUS_B)
    BY <2>1 DEF Congruent
  <2>3. QED
    BY <1>11, <2>1, <2>2
<1>13. ASSUME NEW n \in T
       PROVE  n + 1 \in T
  <2>1. SUFFICES ASSUME n + 1 <= N
                 PROVE  /\ w[n + 1] \in Int
                        /\ Congruent(w[n + 1], (n + 1) * A_PLUS_B)
                        /\ w[n + 1] = Wrap(n * A_PLUS_B + A_PLUS_B)
    <3>1. (n + 1) * A_PLUS_B = n * A_PLUS_B + A_PLUS_B
      BY <1>1
    <3> QED BY <3>1
  <2>2. n \in Nat /\ n < N /\ n <= N /\ n + 1 \in 1..N
    BY <1>1, <2>1
  <2>3. w[n] \in Int /\ Congruent(w[n], n * A_PLUS_B)
    BY <2>2
  <2>4. w[n + 1] = Plus(w[n], n + 1)
    BY <1>11, <2>2
  <2>5. PICK x, y \in Int : x = w[n] /\ y = n * A_PLUS_B /\ Congruent(x, y) /\ y + A_PLUS_B = (n + 1) * A_PLUS_B
    BY <1>1, <2>2, <2>3
  <2>6. Congruent(A_PLUS_B, A_PLUS_B)
    <3>1. A_PLUS_B = A_PLUS_B + 0 * (2 * IntMax + 2)
      BY <1>1, IntMaxAssumption
    <3> QED BY <3>1 DEF Congruent
  <2>7. Congruent(x + A_PLUS_B, y + A_PLUS_B) /\ x + A_PLUS_B \in Int /\ y + A_PLUS_B \in Int
    <3>1. PICK c \in Int : c = A_PLUS_B
      BY <1>1
    <3>2. Congruent(x + c, y + c)
      BY <2>5, <2>6, <3>1, CongruentSums
    <3>3. QED
      BY <3>1, <3>2
  <2>8. PICK z \in Int : z = Plus(x, n + 1) /\ Congruent(z, x + A_PLUS_B) /\ z = Wrap(x + A_PLUS_B)
    BY <1>3, <2>2, <2>5
  <2>9. Congruent(z, y + A_PLUS_B)
    BY <2>7, <2>8, CongruentSums
  <2>10. z = Wrap(y + A_PLUS_B)
    BY <2>7, <2>8, WrapSame
  <2>11. QED
    BY <2>4, <2>5, <2>8, <2>9, <2>10
<1>14. w[N] = Wrap(N * A_PLUS_B)
  <2>1. T \in SUBSET Nat
    OBVIOUS
  <2>2. N \in T
    <3> HIDE DEF T
    <3> QED BY <1>1, <1>12, <1>13, <2>1, FromZeroUp
  <2>3. QED
    BY <1>1, <2>2
<1>15. QED
  BY <1>5, <1>14

(* The value PrintSum prints is the same in every state, for any number of *)
(* threads, although the ints A and B of the versions may overflow.        *)
THEOREM SumNeverChanges == ASSUME NoOverflow PROVE Spec => []SumUnchanged
<1>1. Init => Balanced
  BY InitBalanced
<1>2. IInv /\ Balanced /\ [Next]_vars => Balanced'
  BY StepKeepsBalanced
<1>3. IInv /\ Balanced => SumUnchanged
  BY BalancedSum
<1>4. QED
  BY <1>1, <1>2, <1>3, MvccInvariant, PTL DEF Spec
=============================================================================
