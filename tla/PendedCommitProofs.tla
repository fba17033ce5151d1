------------------------- MODULE PendedCommitProofs -------------------------
(***************************************************************************)
(* The thread pool and the pended commands, for any number of connections  *)
(* and requests: the counters of the pool are right, every connection has  *)
(* one owner or a callback to come, and no client is answered before its   *)
(* callback has run, unless a callback overtakes its worker.               *)
(***************************************************************************)
EXTENDS PendedCommit, FiniteSetTheorems, SequenceTheorems, TLAPS

-----------------------------------------------------------------------------
(* The pool *)

Inactive == {"none", "poll", "deliver", "back", "asleep", "woken", "waiting"}
Listening == {"poll", "deliver", "back"}
Where == Idle \cup Handling \cup {"none"}

(* The workers that count as active when the workers are where p says. *)
Active(p) == {w \in Workers : p[w] \notin Inactive}

InSeq(s, e) == \E k \in 1..Len(s) : s[k] = e
OnceIn(s, e) == \A k, m \in 1..Len(s) : s[k] = e /\ s[m] = e => k = m

(* The workers are where p says, a of them count as active, and those that *)
(* sleep are in ws.                                                        *)
GroupOK(p, a, ws) ==
  /\ p \in [Workers -> Where]
  /\ a = Cardinality(Active(p))
  /\ ws \in Seq(Workers)
  /\ \A w \in Workers : OnceIn(ws, w) /\ (InSeq(ws, w) <=> p[w] = "asleep")

(* A worker has a connection exactly while it handles one, and there are   *)
(* events to hand out exactly while a listener does so.                    *)
HandInv ==
  /\ \A w \in Workers : listener = w <=> pc[w] \in Listening
  /\ \A w \in Workers : conn[w] # NULL <=> pc[w] \in Handling \cup {"back"}
  /\ \A w \in Workers : pc[w] = "deliver" => events # <<>>
  /\ events # <<>> => \E w \in Workers : pc[w] = "deliver"

PoolInv == TypeOK /\ GroupOK(pc, active_thread_count, waiting_threads) /\ HandInv

-----------------------------------------------------------------------------
(* The connections *)

AtWorker(c) == \E w \in Workers : conn[w] = c

(* Somebody has the connection. *)
Held(c) == AtWorker(c) \/ InSeq(queue, c) \/ InSeq(events, c) \/ c \in armed

(* Nobody has it twice, and no two have it. *)
AtMostOnce(c) ==
  /\ \A v, w \in Workers : conn[v] = c /\ conn[w] = c => v = w
  /\ OnceIn(queue, c) /\ OnceIn(events, c)
  /\ AtWorker(c) => ~InSeq(queue, c) /\ ~InSeq(events, c) /\ c \notin armed
  /\ InSeq(queue, c) => ~InSeq(events, c) /\ c \notin armed
  /\ InSeq(events, c) => c \notin armed

(* The worker has dropped the connection, and the callback is still to     *)
(* come.                                                                   *)
Dropped(c) ==
  /\ ~Held(c) /\ c \in is_pended /\ pend_ready_state[c] = 1
  /\ callback[c] \in {"queued", "spin", "check", "put"}

Committing(c) ==
  /\ callback[c] = "queued"
  /\ \E w \in Workers : conn[w] = c /\ pc[w] \in {"mark", "reset", "test"}

ConnOK(c) ==
  /\ AtMostOnce(c)
  /\ state[c] # "live" => ~Held(c) /\ callback[c] = "none"
  /\ state[c] = "live" => Held(c) \/ Dropped(c)
  /\ callback[c] # "none" => Dropped(c) \/ Committing(c)
  /\ \A w \in Workers : conn[w] = c =>
       /\ pc[w] \in {"mark", "reset"} => callback[c] = "queued"
       /\ pc[w] \in {"reset", "test"} => c \in is_pended
       /\ pc[w] = "test" => \/ callback[c] = "queued" /\ pend_ready_state[c] = 0
                            \/ callback[c] = "none" /\ pend_ready_state[c] = 3

OwnerInv == \A c \in Connections : c \notin early => ConnOK(c)

IInv == PoolInv /\ OwnerInv

-----------------------------------------------------------------------------
(* Sequences *)

(* What is in two sequences put together, and whether it is there once. *)
LEMMA ConcatHas ==
  ASSUME NEW S, NEW s \in Seq(S), NEW r \in Seq(S), NEW e
  PROVE  /\ s \o r \in Seq(S)
         /\ InSeq(s \o r, e) <=> InSeq(s, e) \/ InSeq(r, e)
         /\ OnceIn(s, e) /\ OnceIn(r, e) /\ ~(InSeq(s, e) /\ InSeq(r, e)) => OnceIn(s \o r, e)
<1> DEFINE u == s \o r
<1>1. /\ u \in Seq(S) /\ Len(s) \in Nat /\ Len(r) \in Nat /\ Len(u) = Len(s) + Len(r)
      /\ \A k \in 1..Len(u) : u[k] = IF k <= Len(s) THEN s[k] ELSE r[k - Len(s)]
  BY ConcatProperties
<1> HIDE DEF u
<1>2. \A k \in 1..Len(u) : \/ k \in 1..Len(s) /\ u[k] = s[k]
                           \/ k - Len(s) \in 1..Len(r) /\ u[k] = r[k - Len(s)]
  BY <1>1
<1>3. \A k \in 1..Len(s) : k \in 1..Len(u) /\ u[k] = s[k]
  BY <1>1
<1>4. \A k \in 1..Len(r) : k + Len(s) \in 1..Len(u) /\ u[k + Len(s)] = r[k]
  BY <1>1
<1>5. InSeq(u, e) <=> InSeq(s, e) \/ InSeq(r, e)
  BY <1>2, <1>3, <1>4 DEF InSeq
<1>6. ASSUME OnceIn(s, e), OnceIn(r, e), ~(InSeq(s, e) /\ InSeq(r, e)),
             NEW k \in 1..Len(u), NEW m \in 1..Len(u), u[k] = e, u[m] = e
      PROVE  k = m
  <2>1. CASE k \in 1..Len(s) /\ u[k] = s[k] /\ m \in 1..Len(s) /\ u[m] = s[m]
    BY <1>6, <2>1 DEF OnceIn
  <2>2. CASE /\ k - Len(s) \in 1..Len(r) /\ u[k] = r[k - Len(s)]
             /\ m - Len(s) \in 1..Len(r) /\ u[m] = r[m - Len(s)]
    <3>1. k - Len(s) = m - Len(s)
      BY <1>6, <2>2 DEF OnceIn
    <3> QED BY <1>1, <3>1
  <2>3. CASE \/ /\ k \in 1..Len(s) /\ u[k] = s[k]
                /\ m - Len(s) \in 1..Len(r) /\ u[m] = r[m - Len(s)]
             \/ /\ k - Len(s) \in 1..Len(r) /\ u[k] = r[k - Len(s)]
                /\ m \in 1..Len(s) /\ u[m] = s[m]
    BY <1>6, <2>3 DEF InSeq
  <2> QED BY <1>2, <2>1, <2>2, <2>3
<1> QED BY <1>1, <1>5, <1>6 DEF OnceIn, u

(* The sequence with one element. *)
LEMMA SingleHas ==
  ASSUME NEW S, NEW a \in S, NEW e
  PROVE  <<a>> \in Seq(S) /\ (InSeq(<<a>>, e) <=> e = a) /\ OnceIn(<<a>>, e)
<1> DEFINE u == <<a>>
<1>1. u \in Seq(S) /\ Len(u) = 1 /\ u[1] = a
  OBVIOUS
<1> HIDE DEF u
<1>2. InSeq(u, e) <=> e = a
  BY <1>1 DEF InSeq
<1>3. OnceIn(u, e)
  BY <1>1 DEF OnceIn
<1> QED BY <1>1, <1>2, <1>3 DEF u

LEMMA AppendHas ==
  ASSUME NEW S, NEW s \in Seq(S), NEW a \in S, NEW e
  PROVE  /\ Append(s, a) \in Seq(S)
         /\ InSeq(Append(s, a), e) <=> InSeq(s, e) \/ e = a
         /\ OnceIn(s, e) /\ ~(InSeq(s, e) /\ e = a) => OnceIn(Append(s, a), e)
<1> DEFINE u == <<a>>
<1>1. Append(s, a) = s \o u
  BY AppendIsConcat
<1>2. u \in Seq(S) /\ (InSeq(u, e) <=> e = a) /\ OnceIn(u, e)
  BY SingleHas
<1> HIDE DEF u
<1>3. /\ s \o u \in Seq(S)
      /\ InSeq(s \o u, e) <=> InSeq(s, e) \/ InSeq(u, e)
      /\ OnceIn(s, e) /\ OnceIn(u, e) /\ ~(InSeq(s, e) /\ InSeq(u, e)) => OnceIn(s \o u, e)
  BY <1>2, ConcatHas
<1> QED BY <1>1, <1>2, <1>3

(* The first element and the rest. *)
LEMMA TailHas ==
  ASSUME NEW S, NEW s \in Seq(S), s # <<>>, NEW e
  PROVE  /\ Head(s) \in S /\ Tail(s) \in Seq(S) /\ InSeq(s, Head(s))
         /\ InSeq(s, e) <=> e = Head(s) \/ InSeq(Tail(s), e)
         /\ OnceIn(s, e) => OnceIn(Tail(s), e)
         /\ OnceIn(s, e) /\ e = Head(s) => ~InSeq(Tail(s), e)
<1> DEFINE u == Tail(s)  h == Head(s)
<1>1. /\ h \in S /\ u \in Seq(S) /\ Len(s) \in Nat /\ Len(s) > 0 /\ Len(u) = Len(s) - 1
      /\ \A k \in 1..Len(u) : u[k] = s[k + 1]
      /\ h = s[1]
  BY HeadTailProperties
<1> HIDE DEF u, h
<1>2. \A k \in 1..Len(u) : k + 1 \in 1..Len(s) /\ k + 1 # 1 /\ u[k] = s[k + 1]
  BY <1>1
<1>3. \A k \in 1..Len(s) : k = 1 \/ (k - 1 \in 1..Len(u) /\ u[k - 1] = s[k])
  BY <1>1
<1>4. 1 \in 1..Len(s)
  BY <1>1
<1>5. InSeq(s, h)
  BY <1>1, <1>4 DEF InSeq
<1>6. InSeq(s, e) <=> e = h \/ InSeq(u, e)
  BY <1>1, <1>2, <1>3, <1>5 DEF InSeq
<1>7. OnceIn(s, e) => OnceIn(u, e)
  <2> SUFFICES ASSUME OnceIn(s, e), NEW k \in 1..Len(u), NEW m \in 1..Len(u), u[k] = e, u[m] = e
               PROVE  k = m
    BY DEF OnceIn
  <2>1. k + 1 = m + 1
    BY <1>2 DEF OnceIn
  <2> QED BY <1>1, <2>1
<1>8. OnceIn(s, e) /\ e = h => ~InSeq(u, e)
  BY <1>1, <1>2, <1>4 DEF InSeq, OnceIn
<1> QED BY <1>1, <1>5, <1>6, <1>7, <1>8 DEF u, h

LEMMA RemoveAtHas ==
  ASSUME NEW S, NEW s \in Seq(S), NEW j \in 1..Len(s), OnceIn(s, s[j]), NEW e
  PROVE  /\ RemoveAt(s, j) \in Seq(S)
         /\ InSeq(RemoveAt(s, j), e) <=> InSeq(s, e) /\ e # s[j]
         /\ OnceIn(s, e) => OnceIn(RemoveAt(s, j), e)
<1> DEFINE p == SubSeq(s, 1, j - 1)  q == SubSeq(s, j + 1, Len(s))
<1>1. Len(s) \in Nat /\ j \in Nat /\ 1 <= j /\ j <= Len(s)
  OBVIOUS
<1>2. p \in Seq(S) /\ Len(p) = j - 1 /\ \A k \in 1..j - 1 : p[k] = s[k]
  BY <1>1
<1>3. q \in Seq(S) /\ Len(q) = Len(s) - j /\ \A k \in 1..Len(s) - j : q[k] = s[k + j]
  <2>1. \A k \in j + 1..Len(s) : s[k] \in S
    BY <1>1
  <2>2. /\ q \in Seq(S) /\ Len(q) = IF j + 1 <= Len(s) THEN Len(s) - (j + 1) + 1 ELSE 0
        /\ \A k \in 1..Len(s) - (j + 1) + 1 : q[k] = s[(j + 1) + k - 1]
    BY <1>1, <2>1, SubSeqProperties
  <2> QED BY <1>1, <2>2
<1> HIDE DEF p, q
<1>4. InSeq(p, e) <=> \E k \in 1..j - 1 : s[k] = e
  BY <1>2 DEF InSeq
<1>5. InSeq(q, e) <=> \E k \in j + 1..Len(s) : s[k] = e
  <2>1. \A k \in 1..Len(q) : k + j \in j + 1..Len(s) /\ q[k] = s[k + j]
    BY <1>1, <1>3
  <2>2. \A k \in j + 1..Len(s) : k - j \in 1..Len(q) /\ q[k - j] = s[k]
    BY <1>1, <1>3
  <2> QED BY <2>1, <2>2 DEF InSeq
<1>6. \A k \in 1..Len(s) : s[k] = s[j] => k = j
  BY DEF OnceIn
<1>7. \A k \in 1..Len(s) : k \in 1..j - 1 \/ k \in j + 1..Len(s) \/ k = j
  BY <1>1
<1>8. /\ \A k \in 1..j - 1 : k \in 1..Len(s) /\ k # j
      /\ \A k \in j + 1..Len(s) : k \in 1..Len(s) /\ k # j
  BY <1>1
<1>9. InSeq(p, e) \/ InSeq(q, e) <=> InSeq(s, e) /\ e # s[j]
  BY <1>4, <1>5, <1>6, <1>7, <1>8 DEF InSeq
<1>10. OnceIn(s, e) => OnceIn(p, e) /\ OnceIn(q, e) /\ ~(InSeq(p, e) /\ InSeq(q, e))
  <2> SUFFICES ASSUME OnceIn(s, e)
               PROVE  OnceIn(p, e) /\ OnceIn(q, e) /\ ~(InSeq(p, e) /\ InSeq(q, e))
    OBVIOUS
  <2>1. OnceIn(p, e)
    BY <1>1, <1>2 DEF OnceIn
  <2>2. OnceIn(q, e)
    <3> SUFFICES ASSUME NEW k \in 1..Len(q), NEW m \in 1..Len(q), q[k] = e, q[m] = e
                 PROVE  k = m
      BY DEF OnceIn
    <3>1. k + j \in 1..Len(s) /\ m + j \in 1..Len(s) /\ s[k + j] = e /\ s[m + j] = e
      BY <1>1, <1>3
    <3>2. k + j = m + j
      BY <3>1 DEF OnceIn
    <3> QED BY <1>1, <3>2
  <2>3. ~(InSeq(p, e) /\ InSeq(q, e))
    <3> SUFFICES ASSUME NEW k \in 1..j - 1, NEW m \in j + 1..Len(s), s[k] = e, s[m] = e
                 PROVE  FALSE
      BY <1>4, <1>5
    <3>1. k = m
      BY <1>8 DEF OnceIn
    <3> QED BY <1>1, <3>1
  <2> QED BY <2>1, <2>2, <2>3
<1>11. RemoveAt(s, j) = p \o q
  BY DEF RemoveAt, p, q
<1> QED BY <1>2, <1>3, <1>9, <1>10, <1>11, ConcatHas

(* What epoll reports, in some order: all of it, and nothing twice. *)
LEMMA SetToSeqsHas ==
  ASSUME NEW S, IsFiniteSet(S), NEW s \in SetToSeqs(S), NEW e
  PROVE  s \in Seq(S) /\ (InSeq(s, e) <=> e \in S) /\ OnceIn(s, e)
<1> DEFINE D == 1..Cardinality(S)
<1>1. Cardinality(S) \in Nat
  BY FS_CardinalityType
<1>2. s \in [D -> S] /\ \A k, m \in D : k # m => s[k] # s[m]
  BY DEF SetToSeqs
<1>3. s \in Seq(S) /\ Len(s) = Cardinality(S)
  BY <1>1, <1>2
<1>4. s \in Injection(D, S)
  BY <1>2 DEF Injection, IsInjective
<1>5. IsFiniteSet(D) /\ Cardinality(D) = Cardinality(S)
  BY <1>1, FS_Interval
<1>6. s \in Surjection(D, S)
  BY <1>4, <1>5, FS_Injection
<1>7. \A x \in S : \E k \in D : s[k] = x
  BY <1>6 DEF Surjection
<1>8. InSeq(s, e) <=> e \in S
  BY <1>2, <1>3, <1>7 DEF InSeq
<1>9. OnceIn(s, e)
  BY <1>2, <1>3 DEF OnceIn
<1> QED BY <1>3, <1>8, <1>9

-----------------------------------------------------------------------------
(* Workers that move *)

Weight(place) == IF place \in Inactive THEN 0 ELSE 1

LEMMA WorkersFinite ==
  max_threads \in Nat /\ IsFiniteSet(Workers) /\ Cardinality(Workers) = max_threads
<1>1. max_threads \in Nat /\ max_threads >= 1
  BY PoolAssumption
<1> QED BY <1>1, FS_Interval DEF Workers

LEMMA ActiveFinite ==
  ASSUME NEW p
  PROVE  /\ IsFiniteSet(Active(p)) /\ Cardinality(Active(p)) \in Nat
         /\ Cardinality(Active(p)) <= max_threads
         /\ IsFiniteSet({w \in Workers : p[w] # "none"})
<1>1. IsFiniteSet(Workers) /\ Cardinality(Workers) = max_threads
  BY WorkersFinite
<1>2. Active(p) \in SUBSET Workers /\ {w \in Workers : p[w] # "none"} \in SUBSET Workers
  BY DEF Active
<1>3. IsFiniteSet(Active(p)) /\ Cardinality(Active(p)) <= Cardinality(Workers)
  BY <1>1, <1>2, FS_Subset
<1>4. IsFiniteSet({w \in Workers : p[w] # "none"})
  BY <1>1, <1>2, FS_Subset
<1>5. Cardinality(Active(p)) \in Nat
  BY <1>3, FS_CardinalityType
<1> QED BY <1>1, <1>3, <1>4, <1>5, PoolAssumption

LEMMA ActiveMove ==
  ASSUME NEW p \in [Workers -> Where], NEW w \in Workers, NEW to \in Where
  PROVE  Cardinality(Active([p EXCEPT ![w] = to]))
           = Cardinality(Active(p)) + Weight(to) - Weight(p[w])
<1> DEFINE q == [p EXCEPT ![w] = to]  n == Cardinality(Active(p))  m == Cardinality(Active(q))
<1>1. IsFiniteSet(Active(p)) /\ n \in Nat
  BY ActiveFinite
<1>2. w \in Active(p) <=> p[w] \notin Inactive
  BY DEF Active
<1>3. ASSUME to \notin Inactive
      PROVE  m = IF w \in Active(p) THEN n ELSE n + 1
  <2>1. Active(q) = Active(p) \cup {w}
    BY <1>3 DEF Active
  <2> QED BY <1>1, <2>1, FS_AddElement
<1>4. ASSUME to \in Inactive
      PROVE  m = IF w \in Active(p) THEN n - 1 ELSE n
  <2>1. Active(q) = Active(p) \ {w}
    BY <1>4 DEF Active
  <2> QED BY <1>1, <2>1, FS_RemoveElement
<1> HIDE DEF n, m
<1>5. m = n + Weight(to) - Weight(p[w])
  BY <1>1, <1>2, <1>3, <1>4 DEF Weight
<1> QED BY <1>5 DEF n, m

(* A worker goes from one place to another and neither is the bed ... *)
LEMMA GroupMove ==
  ASSUME NEW p, NEW a, NEW ws, GroupOK(p, a, ws), NEW w \in Workers, NEW to \in Where,
         p[w] # "asleep", to # "asleep"
  PROVE  GroupOK([p EXCEPT ![w] = to], a + Weight(to) - Weight(p[w]), ws)
<1> DEFINE q == [p EXCEPT ![w] = to]
<1>1. q \in [Workers -> Where] /\ \A v \in Workers : q[v] = IF v = w THEN to ELSE p[v]
  BY DEF GroupOK
<1>2. Cardinality(Active(q)) = a + Weight(to) - Weight(p[w])
  BY ActiveMove DEF GroupOK
<1> HIDE DEF q
<1>3. \A v \in Workers : OnceIn(ws, v) /\ (InSeq(ws, v) <=> q[v] = "asleep")
  BY <1>1 DEF GroupOK
<1>4. GroupOK(q, a + Weight(to) - Weight(p[w]), ws)
  BY <1>1, <1>2, <1>3 DEF GroupOK
<1> QED BY <1>4 DEF q

(* ... or it goes to sleep ... *)
LEMMA GroupSleep ==
  ASSUME NEW p, NEW a, NEW ws, GroupOK(p, a, ws), NEW w \in Workers, p[w] # "asleep"
  PROVE  GroupOK([p EXCEPT ![w] = "asleep"], a - Weight(p[w]), <<w>> \o ws)
<1> DEFINE q == [p EXCEPT ![w] = "asleep"]  one == <<w>>
<1>1. q \in [Workers -> Where] /\ \A v \in Workers : q[v] = IF v = w THEN "asleep" ELSE p[v]
  BY DEF GroupOK, Where, Idle
<1>2. Cardinality(Active(q)) = a - Weight(p[w])
  <2>1. "asleep" \in Where /\ Weight("asleep") = 0
    BY DEF Where, Idle, Weight, Inactive
  <2>2. Weight(p[w]) \in Int
    BY DEF Weight
  <2>3. p \in [Workers -> Where] /\ a = Cardinality(Active(p)) /\ Cardinality(Active(p)) \in Nat
    BY ActiveFinite DEF GroupOK
  <2>4. Cardinality(Active(q)) = Cardinality(Active(p)) + Weight("asleep") - Weight(p[w])
    BY <2>1, <2>3, ActiveMove
  <2> QED BY <2>1, <2>2, <2>3, <2>4
<1>3. \A v \in Workers : one \in Seq(Workers) /\ (InSeq(one, v) <=> v = w) /\ OnceIn(one, v)
  BY SingleHas
<1> HIDE DEF q, one
<1>4. ws \in Seq(Workers) /\ \A v \in Workers : OnceIn(ws, v) /\ (InSeq(ws, v) <=> p[v] = "asleep")
  BY DEF GroupOK
<1>5. \A v \in Workers :
        /\ one \o ws \in Seq(Workers)
        /\ InSeq(one \o ws, v) <=> InSeq(one, v) \/ InSeq(ws, v)
        /\ OnceIn(one, v) /\ OnceIn(ws, v) /\ ~(InSeq(one, v) /\ InSeq(ws, v)) => OnceIn(one \o ws, v)
  BY <1>3, <1>4, ConcatHas
<1>6. GroupOK(q, a - Weight(p[w]), one \o ws)
  BY <1>1, <1>2, <1>3, <1>4, <1>5 DEF GroupOK
<1> QED BY <1>6 DEF q, one

(* ... or it leaves the bed, wherever it was in the list. *)
LEMMA GroupRise ==
  ASSUME NEW p, NEW a, NEW ws, GroupOK(p, a, ws), NEW w \in Workers, NEW to \in Where,
         p[w] = "asleep", to # "asleep",
         NEW us \in Seq(Workers),
         \A v \in Workers : OnceIn(us, v) /\ (InSeq(us, v) <=> InSeq(ws, v) /\ v # w)
  PROVE  GroupOK([p EXCEPT ![w] = to], a + Weight(to), us)
<1> DEFINE q == [p EXCEPT ![w] = to]
<1>1. q \in [Workers -> Where] /\ \A v \in Workers : q[v] = IF v = w THEN to ELSE p[v]
  BY DEF GroupOK
<1>2. Cardinality(Active(q)) = a + Weight(to)
  <2>1. Weight(p[w]) = 0
    BY DEF Weight, Inactive
  <2>2. Weight(to) \in Int
    BY DEF Weight
  <2>3. p \in [Workers -> Where] /\ a = Cardinality(Active(p)) /\ Cardinality(Active(p)) \in Nat
    BY ActiveFinite DEF GroupOK
  <2>4. Cardinality(Active(q)) = Cardinality(Active(p)) + Weight(to) - Weight(p[w])
    BY <2>3, ActiveMove
  <2> QED BY <2>1, <2>2, <2>3, <2>4
<1> HIDE DEF q
<1>3. \A v \in Workers : OnceIn(us, v) /\ (InSeq(us, v) <=> q[v] = "asleep")
  BY <1>1 DEF GroupOK
<1>4. GroupOK(q, a + Weight(to), us)
  BY <1>1, <1>2, <1>3 DEF GroupOK
<1> QED BY <1>4 DEF q
-----------------------------------------------------------------------------
(* Waking and creating workers *)

(* Besides what p says, somebody has been woken or created. *)
Stirred(p) ==
  \A w \in Workers : \/ pc'[w] = p[w]
                     \/ p[w] \in {"asleep", "none"} /\ pc'[w] \in {"woken", "start"}

GroupOKNext == GroupOK(pc', active_thread_count', waiting_threads')

LEMMA WakeOne ==
  ASSUME NEW p, NEW a, GroupOK(p, a, waiting_threads), wake_thread(p, a)
  PROVE  GroupOKNext /\ Stirred(p)
<1> DEFINE w == Head(waiting_threads)  us == Tail(waiting_threads)
<1>1. waiting_threads \in Seq(Workers) /\ waiting_threads # <<>> /\ p \in [Workers -> Where]
  BY DEF GroupOK, wake_thread
<1>2. /\ w \in Workers /\ us \in Seq(Workers) /\ InSeq(waiting_threads, w)
  BY <1>1, TailHas
<1>3. \A v \in Workers :
        /\ InSeq(waiting_threads, v) <=> v = w \/ InSeq(us, v)
        /\ OnceIn(waiting_threads, v) => OnceIn(us, v)
        /\ OnceIn(waiting_threads, v) /\ v = w => ~InSeq(us, v)
  BY <1>1, TailHas
<1>4. pc' = [p EXCEPT ![w] = "woken"] /\ active_thread_count' = a /\ waiting_threads' = us
  BY DEF wake_thread
<1> HIDE DEF w, us
<1>5. p[w] = "asleep" /\ \A v \in Workers : OnceIn(us, v) /\ (InSeq(us, v) <=> InSeq(waiting_threads, v) /\ v # w)
  BY <1>2, <1>3 DEF GroupOK
<1>6. "woken" \in Where /\ Weight("woken") = 0
  BY DEF Where, Idle, Weight, Inactive
<1>7. GroupOK([p EXCEPT ![w] = "woken"], a + Weight("woken"), us)
  BY <1>2, <1>5, <1>6, GroupRise
<1>8. a + Weight("woken") = a
  <2>1. a = Cardinality(Active(p)) /\ Cardinality(Active(p)) \in Nat
    BY ActiveFinite DEF GroupOK
  <2> QED BY <1>6, <2>1
<1>9. GroupOKNext
  BY <1>4, <1>7, <1>8 DEF GroupOKNext
<1>10. Stirred(p)
  BY <1>1, <1>4, <1>5 DEF Stirred
<1> QED BY <1>9, <1>10

LEMMA CreateOne ==
  ASSUME NEW p, NEW a, GroupOK(p, a, waiting_threads), create_worker(p, a)
  PROVE  GroupOKNext /\ Stirred(p)
<1>1. CASE Nothing(p, a)
  BY <1>1 DEF Nothing, GroupOKNext, Stirred
<1>2. CASE ~(thread_count(p) >= max_threads)
  <2> DEFINE T == {w \in Workers : p[w] # "none"}
  <2>1. IsFiniteSet(Workers) /\ Cardinality(Workers) = max_threads
    BY WorkersFinite
  <2>2. T # Workers
    BY <1>2, <2>1, PoolAssumption DEF thread_count
  <2>3. \E w \in Workers : p[w] = "none"
    BY <2>2
  <2> DEFINE w == CHOOSE w \in Workers : p[w] = "none"
  <2>4. w \in Workers /\ p[w] = "none"
    BY <2>3
  <2>5. pc' = [p EXCEPT ![w] = "start"] /\ active_thread_count' = a + 1 /\ waiting_threads' = waiting_threads
    BY <1>2 DEF create_worker
  <2> HIDE DEF w
  <2>6. "start" \in Where /\ Weight("start") = 1 /\ Weight(p[w]) = 0
    BY <2>4 DEF Where, Idle, Weight, Inactive
  <2>7. GroupOK([p EXCEPT ![w] = "start"], a + Weight("start") - Weight(p[w]), waiting_threads)
    BY <2>4, <2>6, GroupMove
  <2>8. a + Weight("start") - Weight(p[w]) = a + 1
    <3>1. a = Cardinality(Active(p)) /\ Cardinality(Active(p)) \in Nat
      BY ActiveFinite DEF GroupOK
    <3> QED BY <2>6, <3>1
  <2>9. GroupOKNext
    BY <2>5, <2>7, <2>8 DEF GroupOKNext
  <2>10. Stirred(p)
    BY <2>4, <2>5 DEF Stirred, GroupOK
  <2> QED BY <2>9, <2>10
<1> QED BY <1>1, <1>2 DEF create_worker

(* Whatever a caller does about the other workers, the counts stay right. *)
LEMMA WakeOrCreate ==
  ASSUME NEW p, NEW a, GroupOK(p, a, waiting_threads),
         Nothing(p, a) \/ wake_thread(p, a) \/ create_worker(p, a) \/ wake_or_create_thread(p, a)
  PROVE  GroupOKNext /\ Stirred(p)
<1>1. CASE Nothing(p, a)
  BY <1>1 DEF Nothing, GroupOKNext, Stirred
<1> QED BY <1>1, WakeOne, CreateOne DEF wake_or_create_thread

-----------------------------------------------------------------------------
(* Every step leaves the pool right *)

(* What TypeOK says besides the workers. *)
OtherTypes ==
  /\ queue \in Seq(Connections) /\ events \in Seq(Connections)
  /\ listener \in Workers \cup {NULL}
  /\ io_event_count \in BOOLEAN /\ queue_event_count \in BOOLEAN /\ stalled \in BOOLEAN
  /\ connections \subseteq Connections /\ armed \subseteq Connections /\ readable \subseteq Connections
  /\ conn \in [Workers -> Connections \cup {NULL}]

ThdTypes ==
  /\ state \in [Connections -> {"new", "counted", "live", "gone"}]
  /\ logged_in \subseteq Connections /\ is_pended \subseteq Connections
  /\ killed \subseteq Connections /\ unanswered \subseteq Connections
  /\ early \subseteq Connections
  /\ pend_ready_state \in [Connections -> 0..3]
  /\ callback \in [Connections -> Callbacks]
  /\ requests \in 0..MaxRequests

LEMMA PoolParts ==
  PoolInv <=> /\ OtherTypes /\ ThdTypes /\ HandInv
              /\ GroupOK(pc, active_thread_count, waiting_threads)
<1>1. GroupOK(pc, active_thread_count, waiting_threads) => active_thread_count \in 0..max_threads
  <2>1. Cardinality(Active(pc)) \in Nat /\ Cardinality(Active(pc)) <= max_threads
    BY ActiveFinite
  <2> QED BY <2>1, WorkersFinite DEF GroupOK
<1> QED BY <1>1 DEF PoolInv, TypeOK, GroupTypeOK, OtherTypes, ThdTypes, GroupOK, Where

LEMMA PoolPartsNext ==
  ASSUME OtherTypes', ThdTypes', HandInv', GroupOKNext
  PROVE  PoolInv'
<1>1. GroupOK(pc, active_thread_count, waiting_threads)'
  BY DEF GroupOKNext, GroupOK, Active, OnceIn, InSeq
<1>2. PoolInv' <=> /\ OtherTypes' /\ ThdTypes' /\ HandInv'
                   /\ GroupOK(pc, active_thread_count, waiting_threads)'
  BY PoolParts, PTL
<1> QED BY <1>1, <1>2

Working == Handling \ {"waiting"}

(* A worker goes from one place where it counts as active to another. *)
LEMMA GotoMoves ==
  ASSUME PoolInv, NEW w \in Workers, NEW from \in Working, NEW to \in Working \cup {"start"},
         pc[w] = from, pc' = [pc EXCEPT ![w] = to],
         UNCHANGED <<waiting_threads, active_thread_count>>
  PROVE  GroupOKNext /\ \A v \in Workers : pc'[v] = IF v = w THEN to ELSE pc[v]
<1>1. GroupOK(pc, active_thread_count, waiting_threads) /\ active_thread_count \in Nat
  BY DEF PoolInv, TypeOK, GroupTypeOK
<1>2. to \in Where /\ to # "asleep" /\ from # "asleep" /\ Weight(to) = 1 /\ Weight(from) = 1
  BY DEF Working, Handling, Where, Idle, Weight, Inactive
<1>3. GroupOK([pc EXCEPT ![w] = to], active_thread_count + Weight(to) - Weight(pc[w]), waiting_threads)
  BY <1>1, <1>2, GroupMove
<1>4. active_thread_count + Weight(to) - Weight(pc[w]) = active_thread_count
  BY <1>1, <1>2
<1>5. GroupOKNext
  BY <1>3, <1>4 DEF GroupOKNext
<1>6. \A v \in Workers : pc'[v] = IF v = w THEN to ELSE pc[v]
  BY <1>1 DEF GroupOK
<1> QED BY <1>5, <1>6

(* ... and keeps its connection, or gives it up. *)
LEMMA GotoHand ==
  ASSUME PoolInv, NEW w \in Workers, NEW from \in Working, NEW to \in Working \cup {"start"},
         pc[w] = from, pc' = [pc EXCEPT ![w] = to],
         UNCHANGED <<waiting_threads, active_thread_count, listener, events>>,
         \/ to # "start" /\ UNCHANGED conn
         \/ to = "start" /\ Drop(w)
  PROVE  GroupOKNext /\ HandInv' /\ conn' \in [Workers -> Connections \cup {NULL}]
<1>1. GroupOKNext /\ \A v \in Workers : pc'[v] = IF v = w THEN to ELSE pc[v]
  BY GotoMoves
<1>2. conn \in [Workers -> Connections \cup {NULL}] /\ HandInv
  BY DEF PoolInv, TypeOK, GroupTypeOK
<1>3. /\ conn' \in [Workers -> Connections \cup {NULL}]
      /\ \A v \in Workers : conn'[v] = IF v = w /\ to = "start" THEN NULL ELSE conn[v]
  BY <1>2 DEF Drop
<1>4. HandInv'
  BY <1>1, <1>2, <1>3 DEF HandInv, Working, Handling, Listening
<1> QED BY <1>1, <1>3, <1>4

LEMMA HandledConn ==
  ASSUME PoolInv, NEW w \in Workers, pc[w] \in Handling
  PROVE  conn[w] \in Connections
  BY DEF PoolInv, TypeOK, GroupTypeOK, HandInv

LEMMA HandlePool ==
  ASSUME PoolInv, NEW w \in Workers, handle_event(w)
  PROVE  PoolInv'
<1>0. OtherTypes /\ ThdTypes
  BY PoolParts
<1>1. CASE Handle(w)
  <2>1. /\ pc[w] = "handle" /\ UNCHANGED <<queue, waiting_threads, listener, active_thread_count, counters,
                 connections, events, armed, readable, conn>>
        /\ \E to \in {"rearm", "abort", "phase1", "phase2"} : pc' = [pc EXCEPT ![w] = to]
    BY <1>1 DEF Handle, Goto, Holds
  <2>2. GroupOKNext /\ HandInv'
    BY <2>1, GotoHand DEF Working, Handling
  <2>3. conn[w] \in Connections
    BY <2>1, HandledConn DEF Handling
  <2>4. OtherTypes'
    BY <1>0, <2>1 DEF OtherTypes, counters
  <2>5. ThdTypes'
    BY <1>0, <1>1, <2>3 DEF ThdTypes, Handle
  <2> QED BY <2>2, <2>4, <2>5, PoolPartsNext
<1>2. CASE Phase1(w)
  <2>1. /\ pc[w] = "phase1" /\ UNCHANGED <<queue, waiting_threads, listener, active_thread_count, counters,
                 connections, events, armed, conn>>
        /\ \E to \in {"abort", "execute"} : pc' = [pc EXCEPT ![w] = to]
        /\ readable' \subseteq readable
    BY <1>2 DEF Phase1, Goto
  <2>2. GroupOKNext /\ HandInv'
    BY <2>1, GotoHand DEF Working, Handling
  <2>4. OtherTypes'
    BY <1>0, <2>1 DEF OtherTypes, counters
  <2>5. ThdTypes'
    BY <1>0, <1>2 DEF ThdTypes, Phase1
  <2> QED BY <2>2, <2>4, <2>5, PoolPartsNext
<1>3. CASE Execute(w)
  <2>1. /\ UNCHANGED <<queue, waiting_threads, listener, active_thread_count, counters,
                 connections, events, armed, readable, conn>>
        /\ \E from \in {"execute", "commit"}, to \in {"phase2", "mark"} :
             pc[w] = from /\ pc' = [pc EXCEPT ![w] = to]
    BY <1>3 DEF Execute, Goto, Holds
  <2>2. GroupOKNext /\ HandInv'
    BY <2>1, GotoHand DEF Working, Handling
  <2>4. OtherTypes'
    BY <1>0, <2>1 DEF OtherTypes, counters
  <2>5. ThdTypes'
    BY <1>0, <1>3 DEF ThdTypes, Execute, Callbacks
  <2> QED BY <2>2, <2>4, <2>5, PoolPartsNext
<1>4. CASE Mark(w) \/ Reset(w)
  <2>1. /\ UNCHANGED <<queue, waiting_threads, listener, active_thread_count, counters,
                 connections, events, armed, readable, conn>>
        /\ \E from \in {"mark", "reset"}, to \in {"reset", "test"} :
             pc[w] = from /\ pc' = [pc EXCEPT ![w] = to]
    BY <1>4 DEF Mark, Reset, Goto, Holds
  <2>2. GroupOKNext /\ HandInv'
    BY <2>1, GotoHand DEF Working, Handling
  <2>3. conn[w] \in Connections
    BY <2>1, HandledConn DEF Handling
  <2>4. OtherTypes'
    BY <1>0, <2>1 DEF OtherTypes, counters
  <2>5. ThdTypes'
    BY <1>0, <1>4, <2>3 DEF ThdTypes, Mark, Reset
  <2> QED BY <2>2, <2>4, <2>5, PoolPartsNext
<1>5. CASE Test(w)
  <2>1. /\ UNCHANGED <<queue, waiting_threads, listener, active_thread_count, counters,
                 connections, events, armed, readable>>
        /\ pc[w] = "test"
        /\ \/ pc' = [pc EXCEPT ![w] = "start"] /\ Drop(w)
           \/ pc' = [pc EXCEPT ![w] = "phase2"] /\ UNCHANGED conn
    BY <1>5 DEF Test, Goto
  <2>2. GroupOKNext /\ HandInv' /\ conn' \in [Workers -> Connections \cup {NULL}]
    BY <2>1, GotoHand DEF Working, Handling
  <2>4. OtherTypes'
    BY <1>0, <2>1, <2>2 DEF OtherTypes, counters
  <2>5. ThdTypes'
    BY <1>0, <1>5 DEF ThdTypes, Test
  <2> QED BY <2>2, <2>4, <2>5, PoolPartsNext
<1>6. CASE Phase2(w)
  <2>1. /\ pc[w] = "phase2" /\ UNCHANGED <<queue, waiting_threads, listener, active_thread_count, counters,
                 connections, events, armed, readable, conn>>
        /\ \E to \in {"rearm", "abort", "phase1"} : pc' = [pc EXCEPT ![w] = to]
    BY <1>6 DEF Phase2, Goto, Holds
  <2>2. GroupOKNext /\ HandInv'
    BY <2>1, GotoHand DEF Working, Handling
  <2>4. OtherTypes'
    BY <1>0, <2>1 DEF OtherTypes, counters
  <2>5. ThdTypes'
    BY <1>0, <1>6 DEF ThdTypes, Phase2
  <2> QED BY <2>2, <2>4, <2>5, PoolPartsNext
<1>7. CASE Rearm(w) \/ connection_abort(w)
  <2>1. /\ UNCHANGED <<queue, waiting_threads, listener, active_thread_count, counters, events>>
        /\ pc[w] \in {"rearm", "abort"} /\ pc' = [pc EXCEPT ![w] = "start"] /\ Drop(w)
        /\ armed' \subseteq armed \cup {conn[w]}
        /\ readable' \subseteq readable /\ connections' \subseteq connections
    BY <1>7 DEF Rearm, connection_abort, Goto
  <2>2. GroupOKNext /\ HandInv' /\ conn' \in [Workers -> Connections \cup {NULL}]
    BY <2>1, GotoHand DEF Working, Handling
  <2>3. conn[w] \in Connections
    BY <2>1, HandledConn DEF Handling
  <2>4. OtherTypes'
    BY <1>0, <2>1, <2>2, <2>3 DEF OtherTypes, counters
  <2>5. ThdTypes'
    BY <1>0, <1>7 DEF ThdTypes, Rearm, connection_abort, thdVars
  <2> QED BY <2>2, <2>4, <2>5, PoolPartsNext
<1> QED BY <1>1, <1>2, <1>3, <1>4, <1>5, <1>6, <1>7 DEF handle_event

(* Only workers that sleep or do not exist are stirred, and they have no   *)
(* connection and do not listen.                                           *)
LEMMA StirredHand ==
  ASSUME HandInv, Stirred(pc), UNCHANGED <<listener, conn, events>>
  PROVE  HandInv'
<1>1. \A w \in Workers :
        /\ pc'[w] \in Listening <=> pc[w] \in Listening
        /\ pc'[w] \in Handling \cup {"back"} <=> pc[w] \in Handling \cup {"back"}
        /\ pc'[w] = "deliver" <=> pc[w] = "deliver"
  BY DEF Stirred, Listening, Handling
<1> QED BY <1>1 DEF HandInv

LEMMA QueuePutPool ==
  ASSUME PoolInv, NEW c \in Connections, queue_put(c), connections' \subseteq Connections, ThdTypes'
  PROVE  PoolInv'
<1>0. OtherTypes /\ HandInv /\ GroupOK(pc, active_thread_count, waiting_threads)
  BY PoolParts
<1>1. /\ queue' = Append(queue, c)
      /\ UNCHANGED <<listener, io_event_count, queue_event_count, stalled, armed, readable, events, conn>>
      /\ \/ Nothing(pc, active_thread_count)
         \/ wake_or_create_thread(pc, active_thread_count)
  BY DEF queue_put, counters
<1>2. GroupOKNext /\ Stirred(pc)
  BY <1>0, <1>1, WakeOrCreate
<1>3. HandInv'
  BY <1>0, <1>1, <1>2, StirredHand
<1>4. queue' \in Seq(Connections)
  BY <1>0, <1>1 DEF OtherTypes
<1>5. OtherTypes'
  BY <1>0, <1>1, <1>4 DEF OtherTypes
<1> QED BY <1>2, <1>3, <1>5, PoolPartsNext

(* Steps that leave the workers and the queue alone. *)
LEMMA QuietPool ==
  ASSUME PoolInv, connections' \subseteq Connections, readable' \subseteq Connections, ThdTypes',
         UNCHANGED <<queue, waiting_threads, listener, active_thread_count, counters, armed,
                     events, pc, conn>>
  PROVE  PoolInv'
<1>0. OtherTypes /\ HandInv /\ GroupOK(pc, active_thread_count, waiting_threads)
  BY PoolParts
<1>1. GroupOKNext /\ HandInv'
  BY <1>0 DEF GroupOKNext, HandInv
<1>2. OtherTypes'
  BY <1>0 DEF OtherTypes, counters
<1> QED BY <1>1, <1>2, PoolPartsNext

LEMMA ClientPool ==
  ASSUME PoolInv, NEW c \in Connections, Connect(c) \/ QueueLogin(c) \/ Send(c) \/ Kill(c)
  PROVE  PoolInv'
<1>0. OtherTypes /\ ThdTypes
  BY PoolParts
<1>1. CASE Connect(c)
  <2>1. connections' \subseteq Connections /\ readable' \subseteq Connections /\ ThdTypes'
    BY <1>0, <1>1 DEF Connect, OtherTypes, ThdTypes
  <2> QED BY <1>1, <2>1, QuietPool DEF Connect
<1>2. CASE QueueLogin(c)
  <2>1. connections' \subseteq Connections /\ ThdTypes'
    BY <1>0, <1>2 DEF QueueLogin, OtherTypes, ThdTypes
  <2> QED BY <1>2, <2>1, QueuePutPool DEF QueueLogin
<1>3. CASE Send(c)
  <2>1. connections' \subseteq Connections /\ readable' \subseteq Connections
    BY <1>0, <1>3 DEF Send, OtherTypes
  <2>2. requests' \in 0..MaxRequests
    BY <1>0, <1>3, RequestsAssumption DEF Send, ThdTypes
  <2>3. ThdTypes'
    BY <1>0, <1>3, <2>2 DEF Send, ThdTypes
  <2> QED BY <1>3, <2>1, <2>3, QuietPool DEF Send
<1>4. CASE Kill(c)
  <2>1. connections' \subseteq Connections /\ readable' \subseteq Connections /\ ThdTypes'
    BY <1>0, <1>4 DEF Kill, OtherTypes, ThdTypes
  <2> QED BY <1>4, <2>1, QuietPool DEF Kill
<1> QED BY <1>1, <1>2, <1>3, <1>4

LEMMA CallbackPool ==
  ASSUME PoolInv, NEW c \in Connections, Callback(c)
  PROVE  PoolInv'
<1>0. OtherTypes /\ ThdTypes
  BY PoolParts
<1>1. CASE finalize_phase(c)
  <2>1. ThdTypes'
    BY <1>0, <1>1 DEF finalize_phase, ThdTypes, Callbacks
  <2>2. connections' \subseteq Connections /\ readable' \subseteq Connections
    BY <1>0, <1>1 DEF finalize_phase, OtherTypes, groupVars
  <2> QED BY <1>1, <2>1, <2>2, QuietPool DEF finalize_phase, groupVars, counters
<1>2. CASE tp_rerun_pended_thd(c)
  <2>1. ThdTypes'
    BY <1>0, <1>2 DEF tp_rerun_pended_thd, ThdTypes, Callbacks
  <2>2. CASE UNCHANGED groupVars
    <3>1. connections' \subseteq Connections /\ readable' \subseteq Connections
      BY <1>0, <2>2 DEF OtherTypes, groupVars
    <3> QED BY <2>1, <2>2, <3>1, QuietPool DEF groupVars, counters
  <2>3. CASE queue_put(c) /\ UNCHANGED connections
    <3>1. connections' \subseteq Connections
      BY <1>0, <2>3 DEF OtherTypes
    <3> QED BY <2>1, <2>3, <3>1, QueuePutPool
  <2> QED BY <1>2, <2>2, <2>3 DEF tp_rerun_pended_thd
<1> QED BY <1>1, <1>2 DEF Callback

Takes(w, c, a, ws) ==
  /\ pc' = [pc EXCEPT ![w] = "handle"] /\ conn' = [conn EXCEPT ![w] = c]
  /\ active_thread_count' = a /\ stalled' = FALSE
  /\ waiting_threads' = ws /\ UNCHANGED listener

Rests(w, place, a) ==
  /\ pc' = [pc EXCEPT ![w] = place] /\ active_thread_count' = a - 1
  /\ UNCHANGED <<queue, io_event_count, stalled, armed, conn>>

(* The four ways a round of get_event ends. *)
LEMMA RoundCases ==
  ASSUME NEW w, NEW a, NEW ws, Round(w, a, ws)
  PROVE  /\ UNCHANGED <<connections, readable, events>>
         /\ \/ /\ queue # <<>> /\ Takes(w, Head(queue), a, ws) /\ queue' = Tail(queue)
               /\ UNCHANGED <<io_event_count, armed>>
            \/ /\ listener = NULL /\ Rests(w, "poll", a)
               /\ listener' = w /\ waiting_threads' = ws
            \/ /\ \E c \in ready : Takes(w, c, a, ws) /\ armed' = armed \ {c}
               /\ io_event_count' = TRUE /\ UNCHANGED queue
            \/ /\ Rests(w, "asleep", a)
               /\ waiting_threads' = <<w>> \o ws /\ UNCHANGED listener
  BY DEF Round, Takes, Rests

(* One round of get_event, by a worker that a counts as active and that is *)
(* not on the list ws: as if it had been woken.                            *)
LEMMA RoundPool ==
  ASSUME PoolInv, NEW w \in Workers, NEW a, NEW b, NEW ws, pc[w] \in {"start", "woken", "asleep"},
         Round(w, a, ws), UNCHANGED thdVars, b \in Int, a = b + 1,
         GroupOK([pc EXCEPT ![w] = "woken"], b, ws)
  PROVE  PoolInv'
<1>0. OtherTypes /\ ThdTypes /\ HandInv /\ pc \in [Workers -> Where]
  BY PoolParts DEF GroupOK
<1>1. queue_event_count' \in BOOLEAN
  BY <1>0 DEF Round, OtherTypes
<1>2. ThdTypes' /\ UNCHANGED <<connections, readable, events>>
  BY <1>0, RoundCases DEF ThdTypes, thdVars
<1>3. ASSUME NEW to \in {"handle", "poll"}, pc' = [pc EXCEPT ![w] = to],
             active_thread_count' = b + Weight(to), waiting_threads' = ws
      PROVE  GroupOKNext /\ \A v \in Workers : pc'[v] = IF v = w THEN to ELSE pc[v]
  <2> DEFINE p == [pc EXCEPT ![w] = "woken"]
  <2>1. to \in Where /\ to # "asleep" /\ Weight(to) \in Int
    BY <1>3 DEF Where, Idle, Handling, Weight
  <2>2. p[w] = "woken" /\ p[w] # "asleep" /\ Weight(p[w]) = 0 /\ [p EXCEPT ![w] = to] = pc'
    BY <1>0, <1>3 DEF Weight, Inactive
  <2> HIDE DEF p
  <2>3. GroupOK([p EXCEPT ![w] = to], b + Weight(to) - Weight(p[w]), ws)
    BY <2>1, <2>2, GroupMove DEF p
  <2>4. active_thread_count' = b + Weight(to) - Weight(p[w])
    BY <1>3, <2>1, <2>2
  <2>5. GroupOKNext
    BY <1>3, <2>2, <2>3, <2>4 DEF GroupOKNext
  <2> QED BY <1>0, <1>3, <2>5
<1>4. CASE \E c \in Connections :
             /\ Takes(w, c, a, ws) /\ io_event_count' \in BOOLEAN
             /\ queue' \in Seq(Connections) /\ armed' \subseteq armed
  <2> PICK c \in Connections :
             /\ Takes(w, c, a, ws) /\ io_event_count' \in BOOLEAN
             /\ queue' \in Seq(Connections) /\ armed' \subseteq armed
    BY <1>4
  <2> USE DEF Takes
  <2>1. active_thread_count' = b + Weight("handle")
    BY <1>0 DEF Weight, Inactive
  <2>2. GroupOKNext /\ \A v \in Workers : pc'[v] = IF v = w THEN "handle" ELSE pc[v]
    BY <1>3, <2>1
  <2>3. /\ conn' \in [Workers -> Connections \cup {NULL}]
        /\ \A v \in Workers : conn'[v] = IF v = w THEN c ELSE conn[v]
    BY <1>0 DEF OtherTypes
  <2>4. HandInv'
    BY <1>0, <1>2, <2>2, <2>3, PoolAssumption DEF HandInv, Handling, Listening
  <2>5. stalled' \in BOOLEAN
    OBVIOUS
  <2>6. OtherTypes'
    BY <1>0, <1>1, <1>2, <2>3, <2>5 DEF OtherTypes
  <2> QED BY <1>2, <2>2, <2>4, <2>6, PoolPartsNext
<1>5. CASE /\ listener = NULL /\ Rests(w, "poll", a)
           /\ listener' = w /\ waiting_threads' = ws
  <2> USE DEF Rests
  <2>1. active_thread_count' = b + Weight("poll")
    BY <1>0, <1>5 DEF Weight, Inactive
  <2>2. GroupOKNext /\ \A v \in Workers : pc'[v] = IF v = w THEN "poll" ELSE pc[v]
    BY <1>3, <1>5, <2>1
  <2>3. \A v \in Workers : v # NULL
    BY PoolAssumption
  <2>4. HandInv'
    BY <1>0, <1>2, <1>5, <2>2, <2>3 DEF HandInv, Handling, Listening
  <2>6. OtherTypes'
    BY <1>0, <1>1, <1>2, <1>5 DEF OtherTypes
  <2> QED BY <1>2, <1>5, <2>2, <2>4, <2>6, PoolPartsNext
<1>6. CASE /\ Rests(w, "asleep", a)
           /\ waiting_threads' = <<w>> \o ws /\ UNCHANGED listener
  <2> USE DEF Rests
  <2> DEFINE p == [pc EXCEPT ![w] = "woken"]
  <2>1. p[w] = "woken" /\ p[w] # "asleep" /\ Weight(p[w]) = 0 /\ [p EXCEPT ![w] = "asleep"] = pc'
    BY <1>0, <1>6 DEF Weight, Inactive
  <2> HIDE DEF p
  <2>2. GroupOK([p EXCEPT ![w] = "asleep"], b - Weight(p[w]), <<w>> \o ws)
    BY <2>1, GroupSleep DEF p
  <2>3. GroupOKNext
    BY <1>6, <2>1, <2>2 DEF GroupOKNext
  <2>4. \A v \in Workers : pc'[v] = IF v = w THEN "asleep" ELSE pc[v]
    BY <1>0, <1>6
  <2>5. HandInv'
    BY <1>0, <1>2, <1>6, <2>4 DEF HandInv, Handling, Listening
  <2>6. OtherTypes'
    BY <1>0, <1>1, <1>2, <1>6 DEF OtherTypes
  <2> QED BY <1>2, <1>6, <2>3, <2>5, <2>6, PoolPartsNext
<1>7. ASSUME queue # <<>>, Takes(w, Head(queue), a, ws), queue' = Tail(queue),
             UNCHANGED <<io_event_count, armed>>
      PROVE  PoolInv'
  <2>1. Head(queue) \in Connections /\ Tail(queue) \in Seq(Connections)
    BY <1>0, <1>7, TailHas DEF OtherTypes
  <2> QED BY <1>0, <1>4, <1>7, <2>1 DEF OtherTypes
<1>8. ASSUME NEW c \in ready, Takes(w, c, a, ws), armed' = armed \ {c}, io_event_count' = TRUE,
             UNCHANGED queue
      PROVE  PoolInv'
  <2>1. io_event_count' \in BOOLEAN
    BY <1>8
  <2> QED BY <1>0, <1>4, <1>8, <2>1 DEF OtherTypes, ready
<1> QED BY <1>5, <1>6, <1>7, <1>8, RoundCases

(* A worker moves, and the count with it. *)
LEMMA MoveGroup ==
  ASSUME PoolInv, NEW w \in Workers, NEW to \in Where, pc[w] # "asleep", to # "asleep",
         pc' = [pc EXCEPT ![w] = to], waiting_threads' = waiting_threads,
         active_thread_count' = active_thread_count + Weight(to) - Weight(pc[w])
  PROVE  GroupOKNext /\ \A v \in Workers : pc'[v] = IF v = w THEN to ELSE pc[v]
<1>1. GroupOK([pc EXCEPT ![w] = to], active_thread_count + Weight(to) - Weight(pc[w]), waiting_threads)
  BY GroupMove DEF PoolInv
<1> QED BY <1>1 DEF GroupOKNext, PoolInv, GroupOK

LEMMA PoolFacts ==
  ASSUME PoolInv
  PROVE  /\ OtherTypes /\ ThdTypes /\ HandInv /\ GroupOK(pc, active_thread_count, waiting_threads)
         /\ active_thread_count \in Nat /\ pc \in [Workers -> Where]
         /\ \A w \in Workers : w # NULL
<1>1. active_thread_count \in Nat
  BY DEF PoolInv, TypeOK, GroupTypeOK
<1> QED BY <1>1, PoolParts, PoolAssumption DEF GroupOK

LEMMA ThdTypesKept ==
  ASSUME ThdTypes, UNCHANGED thdVars
  PROVE  ThdTypes'
  BY DEF ThdTypes, thdVars

(* A worker that takes itself off the list. *)
LEMMA OffTheList ==
  ASSUME PoolInv, NEW w \in Workers, pc[w] = "asleep", NEW us \in Sleepers(w),
         NEW to \in Where, to # "asleep"
  PROVE  GroupOK([pc EXCEPT ![w] = to], active_thread_count + Weight(to), us)
<1>0. GroupOK(pc, active_thread_count, waiting_threads)
  BY PoolFacts
<1>1. PICK j \in 1..Len(waiting_threads) : waiting_threads[j] = w /\ us = RemoveAt(waiting_threads, j)
  BY DEF Sleepers
<1>2. waiting_threads \in Seq(Workers) /\ \A v \in Workers : OnceIn(waiting_threads, v)
  BY <1>0 DEF GroupOK
<1>3. OnceIn(waiting_threads, waiting_threads[j])
  BY <1>1, <1>2
<1>4. \A v \in Workers :
        /\ us \in Seq(Workers)
        /\ InSeq(us, v) <=> InSeq(waiting_threads, v) /\ v # waiting_threads[j]
        /\ OnceIn(waiting_threads, v) => OnceIn(us, v)
  BY <1>1, <1>2, <1>3, RemoveAtHas
<1> QED BY <1>0, <1>1, <1>2, <1>4, GroupRise

LEMMA SpuriousPool ==
  ASSUME PoolInv, NEW w \in Workers, Spurious(w), UNCHANGED thdVars
  PROVE  PoolInv'
<1>1. "woken" \in Where /\ "woken" # "asleep" /\ Weight("woken") = 0
  BY DEF Where, Idle, Weight, Inactive
<1>2. PICK us : us \in Sleepers(w) /\ Round(w, active_thread_count + 1, us)
  BY DEF Spurious
<1>3. pc[w] = "asleep" /\ pc[w] \in {"start", "woken", "asleep"}
  BY DEF Spurious
<1>4. GroupOK([pc EXCEPT ![w] = "woken"], active_thread_count + Weight("woken"), us)
  BY <1>1, <1>2, <1>3, OffTheList
<1>5. active_thread_count \in Int /\ active_thread_count + Weight("woken") = active_thread_count
  BY <1>1, PoolFacts
<1>6. GroupOK([pc EXCEPT ![w] = "woken"], active_thread_count, us)
  BY <1>4, <1>5
<1> QED BY <1>2, <1>3, <1>5, <1>6, RoundPool

LEMMA TimeoutPool ==
  ASSUME PoolInv, NEW w \in Workers, Timeout(w), UNCHANGED thdVars
  PROVE  PoolInv'
<1>0. /\ OtherTypes /\ ThdTypes /\ HandInv /\ GroupOK(pc, active_thread_count, waiting_threads)
      /\ active_thread_count \in Nat /\ pc \in [Workers -> Where]
  BY PoolFacts
<1>1. /\ "exit" \in Where /\ "exit" # "asleep" /\ Weight("exit") = 1
      /\ pc' = [pc EXCEPT ![w] = "exit"] /\ pc[w] \in {"asleep", "woken"}
      /\ active_thread_count' = active_thread_count + 1
  BY DEF Where, Idle, Weight, Inactive, Timeout
<1>2. ASSUME pc[w] = "asleep"
      PROVE  GroupOKNext
  <2>1. waiting_threads' \in Sleepers(w)
    BY <1>2 DEF Timeout
  <2>2. GroupOK([pc EXCEPT ![w] = "exit"], active_thread_count + Weight("exit"), waiting_threads')
    BY <1>1, <1>2, <2>1, OffTheList
  <2> QED BY <1>1, <2>2 DEF GroupOKNext
<1>3. ASSUME pc[w] = "woken"
      PROVE  GroupOKNext
  <2>1. Weight(pc[w]) = 0 /\ waiting_threads' = waiting_threads
    BY <1>3 DEF Weight, Inactive, Timeout
  <2>2. active_thread_count' = active_thread_count + Weight("exit") - Weight(pc[w])
    BY <1>0, <1>1, <2>1
  <2> QED BY <1>1, <1>3, <2>1, <2>2, MoveGroup
<1>4. \A v \in Workers : pc'[v] = IF v = w THEN "exit" ELSE pc[v]
  BY <1>0, <1>1
<1>5. HandInv'
  BY <1>0, <1>1, <1>4 DEF HandInv, Handling, Listening, Timeout, sockets
<1>6. stalled' \in BOOLEAN
  BY DEF Timeout
<1>7. OtherTypes'
  BY <1>0, <1>6 DEF OtherTypes, Timeout, sockets
<1> QED BY <1>0, <1>1, <1>2, <1>3, <1>5, <1>7, ThdTypesKept, PoolPartsNext

LEMMA ExitPool ==
  ASSUME PoolInv, NEW w \in Workers, Exit(w) \/ wait_end(w), UNCHANGED thdVars
  PROVE  PoolInv'
<1>0. OtherTypes /\ ThdTypes /\ HandInv /\ active_thread_count \in Nat
  BY PoolFacts
<1> DEFINE to == IF pc[w] = "exit" THEN "none" ELSE "commit"
<1>1. /\ pc[w] \in {"exit", "waiting"} /\ to \in Where /\ to # "asleep" /\ pc[w] # "asleep"
      /\ pc' = [pc EXCEPT ![w] = to] /\ waiting_threads' = waiting_threads
  BY DEF Exit, wait_end, Where, Idle, Handling
<1>2. active_thread_count' = active_thread_count + Weight(to) - Weight(pc[w])
  BY <1>0 DEF Exit, wait_end, Weight, Inactive
<1>3. GroupOKNext /\ \A v \in Workers : pc'[v] = IF v = w THEN to ELSE pc[v]
  BY <1>1, <1>2, MoveGroup
<1>4. HandInv'
  BY <1>0, <1>1, <1>3 DEF HandInv, Handling, Listening, Exit, wait_end, sockets
<1>5. OtherTypes'
  BY <1>0 DEF OtherTypes, Exit, wait_end, sockets, counters
<1> QED BY <1>0, <1>3, <1>4, <1>5, ThdTypesKept, PoolPartsNext

LEMMA BackPool ==
  ASSUME PoolInv, NEW w \in Workers, Back(w), UNCHANGED thdVars
  PROVE  PoolInv'
<1>0. OtherTypes /\ ThdTypes /\ HandInv /\ active_thread_count \in Nat /\ \A v \in Workers : v # NULL
  BY PoolFacts
<1>1. /\ pc[w] = "back" /\ "handle" \in Where /\ "handle" # "asleep" /\ pc[w] # "asleep"
      /\ pc' = [pc EXCEPT ![w] = "handle"] /\ waiting_threads' = waiting_threads
  BY DEF Back, Where, Handling
<1>2. active_thread_count' = active_thread_count + Weight("handle") - Weight(pc[w])
  BY <1>0 DEF Back, Weight, Inactive
<1>3. GroupOKNext /\ \A v \in Workers : pc'[v] = IF v = w THEN "handle" ELSE pc[v]
  BY <1>1, <1>2, MoveGroup
<1>4. HandInv'
  <2>1. \A v \in Workers : v # w => pc[v] \notin Listening
    BY <1>0, <1>1 DEF HandInv, Listening
  <2> QED BY <1>0, <1>1, <1>3, <2>1 DEF HandInv, Handling, Listening, Back, sockets
<1>5. stalled' \in BOOLEAN
  BY DEF Back
<1>6. OtherTypes'
  BY <1>0, <1>5 DEF OtherTypes, Back, sockets
<1> QED BY <1>0, <1>3, <1>4, <1>6, ThdTypesKept, PoolPartsNext

LEMMA ReadyFinite ==
  ASSUME OtherTypes
  PROVE  IsFiniteSet(ready) /\ ready \subseteq Connections
<1>1. ready \in SUBSET Connections
  BY DEF OtherTypes, ready
<1> QED BY <1>1, FS_Subset, PoolAssumption

LEMMA PollPool ==
  ASSUME PoolInv, NEW w \in Workers, Poll(w), UNCHANGED thdVars
  PROVE  PoolInv'
<1>0. OtherTypes /\ ThdTypes /\ HandInv /\ active_thread_count \in Nat
  BY PoolFacts
<1>1. /\ pc[w] = "poll" /\ "deliver" \in Where /\ "deliver" # "asleep" /\ pc[w] # "asleep"
      /\ pc' = [pc EXCEPT ![w] = "deliver"] /\ waiting_threads' = waiting_threads
  BY DEF Poll, Where, Idle
<1>2. active_thread_count' = active_thread_count + Weight("deliver") - Weight(pc[w])
  BY <1>0 DEF Poll, Weight, Inactive
<1>3. GroupOKNext /\ \A v \in Workers : pc'[v] = IF v = w THEN "deliver" ELSE pc[v]
  BY <1>1, <1>2, MoveGroup
<1>4. PICK c : c \in ready
  BY DEF Poll
<1>5. events' \in Seq(ready) /\ InSeq(events', c)
  BY <1>0, <1>4, ReadyFinite, SetToSeqsHas DEF Poll
<1>6. events' \in Seq(Connections)
  BY <1>0, <1>5, ReadyFinite
<1>7. events' # <<>>
  BY <1>5 DEF InSeq
<1>8. HandInv'
  BY <1>0, <1>1, <1>3, <1>7 DEF HandInv, Handling, Listening, Poll
<1>9. OtherTypes'
  BY <1>0, <1>6 DEF OtherTypes, Poll, counters
<1> QED BY <1>0, <1>3, <1>8, <1>9, ThdTypesKept, PoolPartsNext

(* The two ways the listener hands out what it got. *)
LEMMA DeliverCases ==
  ASSUME PoolInv, NEW w \in Workers, Deliver(w)
  PROVE  /\ pc[w] = "deliver" /\ events # <<>> /\ events' = <<>>
         /\ UNCHANGED <<listener, connections, armed, readable>>
         /\ GroupOKNext
         /\ \/ /\ queue = <<>> /\ queue' = Tail(events)
               /\ conn' = [conn EXCEPT ![w] = Head(events)]
               /\ Stirred([pc EXCEPT ![w] = "back"])
            \/ /\ queue' = queue \o events /\ UNCHANGED conn
               /\ Stirred([pc EXCEPT ![w] = "poll"])
<1>0. HandInv /\ active_thread_count \in Nat /\ GroupOK(pc, active_thread_count, waiting_threads)
  BY PoolFacts
<1>1. /\ pc[w] = "deliver" /\ pc[w] # "asleep" /\ events' = <<>>
      /\ UNCHANGED <<listener, connections, armed, readable>>
  BY DEF Deliver
<1>2. events # <<>>
  BY <1>0, <1>1 DEF HandInv
<1>3. ASSUME NEW to \in {"back", "poll"}
      PROVE  GroupOK([pc EXCEPT ![w] = to], active_thread_count, waiting_threads)
  <2>1. to \in Where /\ to # "asleep" /\ Weight(to) = 0 /\ Weight(pc[w]) = 0
    BY <1>1, <1>3 DEF Where, Idle, Weight, Inactive
  <2>2. GroupOK([pc EXCEPT ![w] = to], active_thread_count + Weight(to) - Weight(pc[w]), waiting_threads)
    BY <1>0, <1>1, <2>1, GroupMove
  <2>3. active_thread_count + Weight(to) - Weight(pc[w]) = active_thread_count
    BY <1>0, <2>1
  <2> QED BY <2>2, <2>3
<1>4. CASE /\ queue = <<>> /\ queue' = Tail(events) /\ conn' = [conn EXCEPT ![w] = Head(events)]
           /\ Nothing([pc EXCEPT ![w] = "back"], active_thread_count)
  <2>1. GroupOKNext /\ Stirred([pc EXCEPT ![w] = "back"])
    BY <1>3, <1>4, WakeOrCreate
  <2> QED BY <1>1, <1>2, <1>4, <2>1
<1>5. CASE /\ queue' = queue \o events /\ UNCHANGED conn
           /\ \/ wake_thread([pc EXCEPT ![w] = "poll"], active_thread_count)
              \/ create_worker([pc EXCEPT ![w] = "poll"], active_thread_count)
              \/ Nothing([pc EXCEPT ![w] = "poll"], active_thread_count)
  <2>1. GroupOKNext /\ Stirred([pc EXCEPT ![w] = "poll"])
    BY <1>3, <1>5, WakeOrCreate
  <2> QED BY <1>1, <1>2, <1>5, <2>1
<1> QED BY <1>4, <1>5 DEF Deliver

LEMMA DeliverPool ==
  ASSUME PoolInv, NEW w \in Workers, Deliver(w), UNCHANGED thdVars
  PROVE  PoolInv'
<1>0. OtherTypes /\ ThdTypes /\ HandInv /\ pc \in [Workers -> Where] /\ \A v \in Workers : v # NULL
  BY PoolFacts
<1>1. /\ pc[w] = "deliver" /\ events # <<>> /\ events' = <<>>
      /\ UNCHANGED <<listener, connections, armed, readable>> /\ GroupOKNext
      /\ \/ /\ queue = <<>> /\ queue' = Tail(events)
            /\ conn' = [conn EXCEPT ![w] = Head(events)]
            /\ Stirred([pc EXCEPT ![w] = "back"])
         \/ /\ queue' = queue \o events /\ UNCHANGED conn
            /\ Stirred([pc EXCEPT ![w] = "poll"])
  BY DeliverCases
<1>2. Head(events) \in Connections /\ Tail(events) \in Seq(Connections)
  BY <1>0, <1>1, TailHas DEF OtherTypes
<1>3. queue' \in Seq(Connections) /\ events' \in Seq(Connections)
  <2>1. events' \in Seq(Connections)
    BY <1>1
  <2>2. queue \o events \in Seq(Connections)
    BY <1>0 DEF OtherTypes
  <2>3. queue' = Tail(events) \/ queue' = queue \o events
    BY <1>1
  <2> QED BY <1>2, <2>1, <2>2, <2>3, Zenon
<1>4. conn' \in [Workers -> Connections \cup {NULL}]
  <2> DEFINE h == Head(events)
  <2>1. h \in Connections /\ (conn' = [conn EXCEPT ![w] = h] \/ conn' = conn)
    BY <1>1, <1>2
  <2> HIDE DEF h
  <2> QED BY <1>0, <2>1 DEF OtherTypes
<1>5. HandInv'
  <2>1. \A v \in Workers : v # w => pc[v] \notin Listening
    BY <1>0, <1>1 DEF HandInv, Listening
  <2>2. CASE conn' = [conn EXCEPT ![w] = Head(events)] /\ Stirred([pc EXCEPT ![w] = "back"])
    <3>1. /\ pc'[w] = "back" /\ conn'[w] # NULL
          /\ \A v \in Workers : v # w =>
               /\ pc'[v] \notin Listening /\ conn'[v] = conn[v]
               /\ pc'[v] \in Handling \cup {"back"} <=> pc[v] \in Handling \cup {"back"}
      BY <1>0, <1>2, <2>1, <2>2, PoolAssumption DEF Stirred, Listening, Handling, OtherTypes
    <3> QED BY <1>0, <1>1, <3>1 DEF HandInv, Listening
  <2>3. CASE UNCHANGED conn /\ Stirred([pc EXCEPT ![w] = "poll"])
    <3>1. /\ pc'[w] = "poll"
          /\ \A v \in Workers : v # w =>
               /\ pc'[v] \notin Listening
               /\ pc'[v] \in Handling \cup {"back"} <=> pc[v] \in Handling \cup {"back"}
      BY <1>0, <2>1, <2>3 DEF Stirred, Listening, Handling
    <3> QED BY <1>0, <1>1, <2>3, <3>1 DEF HandInv, Listening, Handling
  <2> QED BY <1>1, <2>2, <2>3
<1>6. io_event_count' \in BOOLEAN
  BY DEF Deliver
<1>7. OtherTypes'
  BY <1>0, <1>1, <1>3, <1>4, <1>6 DEF OtherTypes, Deliver
<1> QED BY <1>0, <1>1, <1>5, <1>7, ThdTypesKept, PoolPartsNext

LEMMA WaitPool ==
  ASSUME PoolInv, NEW w \in Workers, wait_begin(w), UNCHANGED thdVars
  PROVE  PoolInv' /\ Stirred([pc EXCEPT ![w] = "waiting"])
<1> DEFINE p == [pc EXCEPT ![w] = "waiting"]  a == active_thread_count - 1
<1>0. /\ OtherTypes /\ ThdTypes /\ HandInv /\ GroupOK(pc, active_thread_count, waiting_threads)
      /\ active_thread_count \in Nat /\ pc \in [Workers -> Where]
  BY PoolFacts
<1>1. /\ pc[w] = "execute" /\ pc[w] # "asleep" /\ "waiting" \in Where /\ "waiting" # "asleep"
      /\ Weight("waiting") = 0 /\ Weight(pc[w]) = 1
  BY DEF wait_begin, Where, Handling, Weight, Inactive
<1>2. GroupOK(p, active_thread_count + Weight("waiting") - Weight(pc[w]), waiting_threads)
  BY <1>0, <1>1, GroupMove
<1>3. active_thread_count + Weight("waiting") - Weight(pc[w]) = a
  BY <1>0, <1>1
<1>4. Nothing(p, a) \/ wake_or_create_thread(p, a)
  BY DEF wait_begin
<1>5. \A v \in Workers : p[v] = IF v = w THEN "waiting" ELSE pc[v]
  BY <1>0
<1> HIDE DEF p, a
<1>6. GroupOKNext /\ Stirred(p)
  BY <1>2, <1>3, <1>4, WakeOrCreate
<1>7. \A v \in Workers :
        /\ pc'[v] \in Listening <=> pc[v] \in Listening
        /\ pc'[v] \in Handling \cup {"back"} <=> pc[v] \in Handling \cup {"back"}
        /\ pc'[v] = "deliver" <=> pc[v] = "deliver"
  BY <1>1, <1>5, <1>6 DEF Stirred, Listening, Handling
<1>8. HandInv'
  BY <1>0, <1>7 DEF HandInv, wait_begin, sockets
<1>9. OtherTypes'
  BY <1>0 DEF OtherTypes, wait_begin, sockets, counters
<1> QED BY <1>0, <1>6, <1>8, <1>9, ThdTypesKept, PoolPartsNext DEF p

LEMMA StallPool ==
  ASSUME PoolInv, Tick
  PROVE  PoolInv' /\ Stirred(pc)
<1>0. /\ OtherTypes /\ ThdTypes /\ HandInv /\ GroupOK(pc, active_thread_count, waiting_threads)
  BY PoolFacts
<1>1. /\ \/ Nothing(pc, active_thread_count)
         \/ wake_or_create_thread(pc, active_thread_count)
      /\ UNCHANGED <<queue, listener, sockets, conn>> /\ UNCHANGED thdVars
  BY DEF Tick, check_stall
<1>2. GroupOKNext /\ Stirred(pc)
  BY <1>0, <1>1, WakeOrCreate
<1>3. HandInv'
  BY <1>0, <1>1, <1>2, StirredHand DEF sockets
<1>4. io_event_count' \in BOOLEAN /\ queue_event_count' \in BOOLEAN /\ stalled' \in BOOLEAN
  BY <1>0 DEF Tick, check_stall, counters, OtherTypes
<1>5. OtherTypes'
  BY <1>0, <1>1, <1>4 DEF OtherTypes, sockets
<1> QED BY <1>0, <1>1, <1>2, <1>3, <1>5, ThdTypesKept, PoolPartsNext

LEMMA PoolInit ==
  ASSUME Init
  PROVE  PoolInv
<1> USE DEF Init, GroupInit
<1>1. GroupOK(pc, active_thread_count, waiting_threads)
  <2>1. Active(pc) = {}
    BY DEF Active, Inactive
  <2>2. pc \in [Workers -> Where]
    BY DEF Where
  <2>3. \A w \in Workers : OnceIn(waiting_threads, w) /\ ~InSeq(waiting_threads, w)
    BY DEF OnceIn, InSeq
  <2>4. waiting_threads \in Seq(Workers)
    OBVIOUS
  <2>5. \A w \in Workers : pc[w] # "asleep"
    OBVIOUS
  <2>6. active_thread_count = Cardinality(Active(pc))
    BY <2>1, FS_EmptySet
  <2> QED BY <2>2, <2>3, <2>4, <2>5, <2>6 DEF GroupOK
<1>2. HandInv
  BY PoolAssumption DEF HandInv, Listening, Handling
<1>3. OtherTypes
  <2>1. queue \in Seq(Connections) /\ events \in Seq(Connections)
    OBVIOUS
  <2>2. io_event_count \in BOOLEAN /\ queue_event_count \in BOOLEAN /\ stalled \in BOOLEAN
    OBVIOUS
  <2>3. conn \in [Workers -> Connections \cup {NULL}]
    OBVIOUS
  <2>4. connections \subseteq Connections /\ armed \subseteq Connections /\ readable \subseteq Connections
    OBVIOUS
  <2> QED BY <2>1, <2>2, <2>3, <2>4 DEF OtherTypes
<1>4. ThdTypes
  BY RequestsAssumption DEF ThdTypes, Callbacks
<1> QED BY <1>1, <1>2, <1>3, <1>4, PoolParts

LEMMA PoolStep ==
  ASSUME PoolInv, [Next]_vars
  PROVE  PoolInv'
<1>1. ASSUME NEW w \in Workers, GetEvent(w) \/ Woken(w) \/ Spurious(w), UNCHANGED thdVars
      PROVE  PoolInv'
  <2>0. /\ active_thread_count \in Nat
        /\ GroupOK(pc, active_thread_count, waiting_threads)
    BY PoolFacts
  <2>1. "woken" \in Where /\ "woken" # "asleep" /\ Weight("woken") = 0
    BY DEF Where, Idle, Weight, Inactive
  <2>2. CASE GetEvent(w)
    <3>1. pc[w] = "start" /\ Weight(pc[w]) = 1
      BY <2>2 DEF GetEvent, Weight, Inactive
    <3>2. PICK b \in Int : b = active_thread_count + Weight("woken") - Weight(pc[w]) /\ active_thread_count = b + 1
      BY <2>0, <2>1, <3>1
    <3>3. GroupOK([pc EXCEPT ![w] = "woken"], b, waiting_threads)
      BY <2>0, <2>1, <3>1, <3>2, GroupMove
    <3>4. Round(w, active_thread_count, waiting_threads)
      BY <2>2 DEF GetEvent
    <3> QED BY <1>1, <3>1, <3>2, <3>3, <3>4, RoundPool
  <2>3. CASE Woken(w)
    <3>1. pc[w] = "woken" /\ Round(w, active_thread_count + 1, waiting_threads)
      BY <2>3 DEF Woken
    <3>2. [pc EXCEPT ![w] = "woken"] = pc
      BY <2>0, <3>1 DEF GroupOK
    <3>3. GroupOK([pc EXCEPT ![w] = "woken"], active_thread_count, waiting_threads)
      BY <2>0, <3>2
    <3>4. active_thread_count \in Int /\ pc[w] \in {"start", "woken", "asleep"}
      BY <2>0, <3>1
    <3>5. Round(w, active_thread_count + 1, waiting_threads)
      BY <3>1
    <3> QED BY <1>1, <3>3, <3>4, <3>5, RoundPool
  <2>4. CASE Spurious(w)
    BY <1>1, <2>4, SpuriousPool
  <2> QED BY <1>1, <2>2, <2>3, <2>4
<1>2. ASSUME NEW w \in Workers, Step(w)
      PROVE  PoolInv'
  BY <1>1, <1>2, HandlePool, ExitPool, PollPool, DeliverPool, BackPool DEF Step, get_event
<1>3. CASE UNCHANGED vars
  <2>1. ThdTypes /\ OtherTypes
    BY PoolFacts
  <2>2. ThdTypes' /\ connections' \subseteq Connections /\ readable' \subseteq Connections
    BY <1>3, <2>1, ThdTypesKept DEF vars, groupVars, OtherTypes
  <2> QED BY <1>3, <2>2, QuietPool DEF vars, groupVars, counters
<1> QED BY <1>1, <1>2, <1>3, ClientPool, CallbackPool, TimeoutPool, WaitPool, StallPool DEF Next

-----------------------------------------------------------------------------
(* Every step leaves each connection with its owner *)

Hot == {"mark", "reset", "test"}

(* Whoever has the connection keeps it, and does not enter or leave the    *)
(* end of a commit with it.                                                *)
SameHolding(c) ==
  /\ \A w \in Workers : conn'[w] = c <=> conn[w] = c
  /\ \A w \in Workers : conn[w] = c => pc'[w] = pc[w] \/ (pc[w] \notin Hot /\ pc'[w] \notin Hot)
  /\ InSeq(queue', c) <=> InSeq(queue, c)
  /\ OnceIn(queue, c) => OnceIn(queue', c)
  /\ InSeq(events', c) <=> InSeq(events, c)
  /\ OnceIn(events, c) => OnceIn(events', c)
  /\ c \in armed' <=> c \in armed

SameThd(c) ==
  /\ state'[c] = state[c] /\ callback'[c] = callback[c]
  /\ pend_ready_state'[c] = pend_ready_state[c]
  /\ c \in is_pended' <=> c \in is_pended

LEMMA HoldingNext ==
  ASSUME NEW c, SameHolding(c)
  PROVE  (AtMostOnce(c) => AtMostOnce(c)') /\ (Held(c)' <=> Held(c))
<1>1. AtWorker(c)' <=> AtWorker(c)
  BY DEF SameHolding, AtWorker
<1>2. /\ InSeq(queue, c)' <=> InSeq(queue, c)
      /\ OnceIn(queue, c) => OnceIn(queue, c)'
      /\ InSeq(events, c)' <=> InSeq(events, c)
      /\ OnceIn(events, c) => OnceIn(events, c)'
  BY DEF SameHolding, InSeq, OnceIn
<1> QED BY <1>1, <1>2 DEF AtMostOnce, Held, SameHolding

LEMMA FrameOwner ==
  ASSUME NEW c, SameHolding(c), SameThd(c), ConnOK(c)
  PROVE  ConnOK(c)'
<1>1. AtMostOnce(c)' /\ (Held(c)' <=> Held(c))
  BY HoldingNext DEF ConnOK
<1>2. Dropped(c)' <=> Dropped(c)
  BY <1>1 DEF Dropped, SameThd
<1>3. Committing(c) => Committing(c)'
  BY DEF Committing, SameThd, SameHolding, Hot
<1>4. \A w \in Workers : conn'[w] = c => pc'[w] = pc[w] \/ pc'[w] \notin Hot
  BY DEF SameHolding
<1>5. \A w \in Workers : conn'[w] = c =>
        /\ pc'[w] \in {"mark", "reset"} => callback'[c] = "queued"
        /\ pc'[w] \in {"reset", "test"} => c \in is_pended'
        /\ pc'[w] = "test" => \/ callback'[c] = "queued" /\ pend_ready_state'[c] = 0
                              \/ callback'[c] = "none" /\ pend_ready_state'[c] = 3
  BY <1>4 DEF ConnOK, SameThd, SameHolding, Hot
<1> QED BY <1>1, <1>2, <1>3, <1>5 DEF ConnOK, SameThd

(* A connection somebody has, and not at the end of a commit, is live and  *)
(* has no callback to come ...                                             *)
LEMMA CalmNow ==
  ASSUME NEW c, ConnOK(c), Held(c), \A w \in Workers : conn[w] = c => pc[w] \notin Hot
  PROVE  state[c] = "live" /\ callback[c] = "none"
  BY DEF ConnOK, Dropped, Committing, Hot

(* ... and whoever gets it, it is right. *)
LEMMA CalmNext ==
  ASSUME NEW c, AtMostOnce(c)', Held(c)', state'[c] = "live", callback'[c] = "none",
         \A w \in Workers : conn'[w] = c => pc'[w] \notin Hot
  PROVE  ConnOK(c)'
  BY DEF ConnOK, Hot

(* A worker does something with its connection and keeps it. *)
LEMMA KeepOwner ==
  ASSUME PoolInv, OwnerInv, NEW w \in Workers, conn[w] \in Connections, pc[w] \notin Hot, pc'[w] \notin Hot,
         \A v \in Workers : v # w => pc'[v] = pc[v] \/ pc[v] \in {"asleep", "none"},
         UNCHANGED <<conn, queue, events, armed, state, callback, early>>,
         \A c \in Connections : c # conn[w] => SameThd(c)
  PROVE  OwnerInv'
<1> SUFFICES ASSUME NEW c \in Connections, c \notin early
             PROVE  ConnOK(c)'
  BY DEF OwnerInv
<1>1. ConnOK(c) /\ HandInv /\ c # NULL
  BY PoolFacts, PoolAssumption DEF OwnerInv
<1>2. SameHolding(c)
  <2>1. \A v \in Workers : conn[v] = c => pc'[v] = pc[v] \/ (pc[v] \notin Hot /\ pc'[v] \notin Hot)
    BY <1>1 DEF HandInv, Handling
  <2> QED BY <2>1 DEF SameHolding
<1>3. CASE c # conn[w]
  BY <1>1, <1>2, <1>3, FrameOwner
<1>4. CASE c = conn[w]
  <2>1. AtMostOnce(c)' /\ Held(c) /\ Held(c)' /\ \A v \in Workers : conn[v] = c => v = w
    BY <1>1, <1>2, <1>4, HoldingNext DEF ConnOK, Held, AtWorker, AtMostOnce
  <2>2. state[c] = "live" /\ callback[c] = "none"
    BY <1>1, <2>1, CalmNow
  <2> QED BY <2>1, <2>2, CalmNext
<1> QED BY <1>3, <1>4

(* Workers without a connection move, and nothing else happens. *)
LEMMA IdleOwner ==
  ASSUME PoolInv, OwnerInv,
         \A v \in Workers : pc'[v] = pc[v] \/ pc[v] \notin Handling \cup {"back"},
         UNCHANGED <<conn, queue, events, armed>>,
         \A c \in Connections : c \notin early' => c \notin early /\ SameThd(c)
  PROVE  OwnerInv'
<1> SUFFICES ASSUME NEW c \in Connections, c \notin early'
             PROVE  ConnOK(c)'
  BY DEF OwnerInv
<1>1. ConnOK(c) /\ HandInv /\ c # NULL
  BY PoolFacts, PoolAssumption DEF OwnerInv
<1>2. SameHolding(c)
  <2>1. \A v \in Workers : conn[v] = c => pc'[v] = pc[v]
    BY <1>1 DEF HandInv
  <2> QED BY <2>1 DEF SameHolding
<1> QED BY <1>1, <1>2, FrameOwner

(* A worker does something with its connection: the others do not notice. *)
LEMMA OthersOwner ==
  ASSUME PoolInv, OwnerInv, NEW w \in Workers, NEW to, pc' = [pc EXCEPT ![w] = to],
         UNCHANGED conn \/ Drop(w), UNCHANGED <<queue, events, early>>,
         NEW c \in Connections, c \notin early, c # conn[w], SameThd(c), c \in armed' <=> c \in armed
  PROVE  ConnOK(c)'
<1>1. ConnOK(c) /\ c # NULL /\ pc \in [Workers -> Where] /\ conn \in [Workers -> Connections \cup {NULL}]
  BY PoolFacts, PoolAssumption DEF OwnerInv, OtherTypes
<1>2. \A v \in Workers : (conn'[v] = c <=> conn[v] = c) /\ (conn[v] = c => pc'[v] = pc[v])
  BY <1>1 DEF Drop
<1>3. SameHolding(c)
  BY <1>2 DEF SameHolding
<1> QED BY <1>1, <1>3, FrameOwner

(* What is known of a connection a worker has. *)
LEMMA AtOwner ==
  ASSUME PoolInv, OwnerInv, NEW w \in Workers, pc[w] \in Handling
  PROVE  /\ conn[w] \in Connections /\ conn[w] # NULL
         /\ conn[w] \notin early =>
              /\ ConnOK(conn[w]) /\ Held(conn[w])
              /\ \A v \in Workers : conn[v] = conn[w] => v = w
              /\ ~InSeq(queue, conn[w]) /\ ~InSeq(events, conn[w]) /\ conn[w] \notin armed
              /\ pc[w] \notin Hot => state[conn[w]] = "live" /\ callback[conn[w]] = "none"
<1>1. conn[w] \in Connections
  BY HandledConn
<1>2. ASSUME conn[w] \notin early
      PROVE  /\ ConnOK(conn[w]) /\ Held(conn[w])
             /\ \A v \in Workers : conn[v] = conn[w] => v = w
             /\ ~InSeq(queue, conn[w]) /\ ~InSeq(events, conn[w]) /\ conn[w] \notin armed
             /\ pc[w] \notin Hot => state[conn[w]] = "live" /\ callback[conn[w]] = "none"
  <2>1. ConnOK(conn[w])
    BY <1>1, <1>2 DEF OwnerInv
  <2>2. /\ Held(conn[w]) /\ \A v \in Workers : conn[v] = conn[w] => v = w
        /\ ~InSeq(queue, conn[w]) /\ ~InSeq(events, conn[w]) /\ conn[w] \notin armed
    BY <2>1 DEF ConnOK, Held, AtWorker, AtMostOnce
  <2>3. pc[w] \notin Hot => \A v \in Workers : conn[v] = conn[w] => pc[v] \notin Hot
    BY <2>2
  <2> QED BY <2>1, <2>2, <2>3, CalmNow
<1> QED BY <1>1, <1>2, PoolAssumption

LEMMA HandleOwner ==
  ASSUME PoolInv, OwnerInv, NEW w \in Workers, Handle(w) \/ Phase1(w) \/ Phase2(w)
  PROVE  OwnerInv'
<1>0. pc \in [Workers -> Where]
  BY PoolFacts
<1>1. /\ pc[w] \in {"handle", "phase1", "phase2"}
      /\ \E to \in {"rearm", "abort", "phase1", "phase2", "execute"} : pc' = [pc EXCEPT ![w] = to]
      /\ UNCHANGED <<conn, queue, events, armed, state, callback, early>>
  BY DEF Handle, Phase1, Phase2, Goto, Holds
<1>2. pc[w] \notin Hot /\ pc'[w] \notin Hot /\ \A v \in Workers : v # w => pc'[v] = pc[v]
  BY <1>0, <1>1 DEF Hot
<1>3. conn[w] \in Connections
  BY <1>1, HandledConn DEF Handling
<1>4. ASSUME NEW c \in Connections, c # conn[w]
      PROVE  SameThd(c)
  <2>1. ThdTypes
    BY PoolFacts
  <2> QED BY <1>1, <1>4, <2>1 DEF SameThd, Handle, Phase1, Phase2, ThdTypes
<1> QED BY <1>1, <1>2, <1>3, <1>4, KeepOwner

(* The commit: a callback is left, the connection marked, its state reset, *)
(* and the worker finds out whether the callback has run.                  *)
LEMMA CommitOwner ==
  ASSUME PoolInv, OwnerInv, NEW w \in Workers, Execute(w) \/ Mark(w) \/ Reset(w) \/ Test(w)
  PROVE  OwnerInv'
<1>0. /\ pc \in [Workers -> Where] /\ ThdTypes /\ OtherTypes /\ HandInv
      /\ conn \in [Workers -> Connections \cup {NULL}]
  BY PoolFacts DEF OtherTypes
<1>1. /\ pc[w] \in {"execute", "commit", "mark", "reset", "test"}
      /\ \E to \in {"phase2", "mark", "reset", "test", "start"} : pc' = [pc EXCEPT ![w] = to]
      /\ UNCHANGED conn \/ Drop(w)
      /\ UNCHANGED <<queue, events, armed, state, early>>
  BY DEF Execute, Mark, Reset, Test, Goto, Holds
<1> PICK c \in Connections : c = conn[w]
  BY <1>1, HandledConn DEF Handling
<1>2. c \notin early =>
        /\ ConnOK(c) /\ Held(c)
        /\ \A v \in Workers : conn[v] = c => v = w
        /\ ~InSeq(queue, c) /\ ~InSeq(events, c) /\ c \notin armed
        /\ pc[w] \notin Hot => state[c] = "live" /\ callback[c] = "none"
  BY <1>1, AtOwner DEF Handling
<1>3. ASSUME NEW d \in Connections, d # c
      PROVE  SameThd(d)
  BY <1>0, <1>1, <1>3 DEF SameThd, Execute, Mark, Reset, Test, ThdTypes
<1>4. ASSUME NEW d \in Connections, d # c, d \notin early
      PROVE  ConnOK(d)'
  BY <1>1, <1>3, <1>4, OthersOwner
<1>5. ASSUME c \notin early
      PROVE  ConnOK(c)'
  <2>1. /\ ConnOK(c) /\ Held(c)
        /\ \A v \in Workers : conn[v] = c => v = w
        /\ ~InSeq(queue, c) /\ ~InSeq(events, c) /\ c \notin armed
        /\ pc[w] \notin Hot => state[c] = "live" /\ callback[c] = "none"
    BY <1>2, <1>5
  <2>2. ASSUME NEW to \in {"phase2", "mark", "reset", "test"}, pc' = [pc EXCEPT ![w] = to], UNCHANGED conn
        PROVE  pc'[w] = to /\ AtMostOnce(c)' /\ Held(c)' /\ \A v \in Workers : conn'[v] = c <=> v = w
    <3>1. \A v \in Workers : conn'[v] = c <=> v = w
      BY <2>1, <2>2
    <3>2. OnceIn(queue, c)' /\ OnceIn(events, c)' /\ ~InSeq(queue, c)' /\ ~InSeq(events, c)' /\ c \notin armed'
      BY <1>1, <2>1 DEF OnceIn, InSeq
    <3>3. AtMostOnce(c)' /\ Held(c)'
      BY <3>1, <3>2 DEF AtMostOnce, Held, AtWorker
    <3> QED BY <1>0, <2>2, <3>1, <3>3
  <2>3. state[c] = "live" /\ state'[c] = "live"
    BY <1>1, <2>1 DEF ConnOK
  <2>4. CASE Execute(w)
    <3>1. CASE pc' = [pc EXCEPT ![w] = "phase2"] /\ UNCHANGED callback
      <4>1. callback'[c] = "none" /\ pc'[w] \notin Hot
        BY <1>0, <2>1, <2>4, <3>1 DEF Execute, Goto, Hot
      <4> QED BY <2>2, <2>3, <2>4, <3>1, <4>1, CalmNext DEF Execute, Holds
    <3>2. CASE pc' = [pc EXCEPT ![w] = "mark"] /\ callback' = [callback EXCEPT ![c] = "queued"]
      <4>1. /\ pc'[w] = "mark" /\ AtMostOnce(c)' /\ Held(c)' /\ \A v \in Workers : conn'[v] = c <=> v = w
        BY <2>2, <2>4, <3>2 DEF Execute, Holds
      <4>2. callback'[c] = "queued"
        BY <1>0, <3>2 DEF ThdTypes
      <4>3. Committing(c)'
        BY <4>1, <4>2 DEF Committing
      <4> QED BY <2>3, <4>1, <4>2, <4>3 DEF ConnOK
    <3> QED BY <2>4, <3>1, <3>2 DEF Execute, Goto
  <2>5. CASE Mark(w)
    <3>1. callback[c] = "queued" /\ callback'[c] = "queued" /\ c \in is_pended'
      BY <2>1, <2>5 DEF Mark, Goto, ConnOK
    <3>2. /\ pc'[w] = "reset" /\ AtMostOnce(c)' /\ Held(c)' /\ \A v \in Workers : conn'[v] = c <=> v = w
      BY <2>2, <2>5 DEF Mark, Goto, Holds
    <3>3. Committing(c)'
      BY <3>1, <3>2 DEF Committing
    <3> QED BY <2>3, <3>1, <3>2, <3>3 DEF ConnOK
  <2>6. CASE Reset(w)
    <3>1. callback'[c] = "queued" /\ c \in is_pended' /\ pend_ready_state'[c] = 0
      BY <1>0, <2>1, <2>6 DEF Reset, Goto, ConnOK, ThdTypes
    <3>2. /\ pc'[w] = "test" /\ AtMostOnce(c)' /\ Held(c)' /\ \A v \in Workers : conn'[v] = c <=> v = w
      BY <2>2, <2>6 DEF Reset, Goto, Holds
    <3>3. Committing(c)'
      BY <3>1, <3>2 DEF Committing
    <3> QED BY <2>3, <3>1, <3>2, <3>3 DEF ConnOK
  <2>7. CASE Test(w)
    <3>1. CASE pc' = [pc EXCEPT ![w] = "phase2"] /\ pend_ready_state[c] # 0 /\ UNCHANGED conn
      <4>1. callback'[c] = "none"
        BY <2>1, <2>7, <3>1 DEF Test, Goto, ConnOK
      <4>2. pc'[w] \notin Hot
        BY <1>0, <3>1 DEF Hot
      <4> QED BY <2>2, <2>3, <3>1, <4>1, <4>2, CalmNext
    <3>2. CASE Goto(w, "test", "start") /\ pend_ready_state[c] = 0 /\ Drop(w)
               /\ pend_ready_state' = [pend_ready_state EXCEPT ![c] = 1] /\ UNCHANGED is_pended
      <4>1. \A v \in Workers : conn'[v] # c
        BY <1>0, <2>1, <3>2, PoolAssumption DEF Drop
      <4>2. OnceIn(queue, c)' /\ OnceIn(events, c)' /\ ~InSeq(queue, c)' /\ ~InSeq(events, c)' /\ c \notin armed'
        BY <1>1, <2>1 DEF OnceIn, InSeq
      <4>3. AtMostOnce(c)' /\ ~Held(c)'
        BY <4>1, <4>2 DEF AtMostOnce, Held, AtWorker
      <4>4. callback'[c] = "queued" /\ c \in is_pended' /\ pend_ready_state'[c] = 1
        BY <1>0, <2>1, <2>7, <3>2 DEF Test, Goto, ConnOK, ThdTypes
      <4>5. Dropped(c)'
        BY <4>3, <4>4 DEF Dropped
      <4> QED BY <2>3, <4>1, <4>3, <4>5 DEF ConnOK
    <3> QED BY <2>7, <3>1, <3>2 DEF Test, Goto
  <2> QED BY <2>4, <2>5, <2>6, <2>7
<1>6. ASSUME NEW d \in Connections, d \notin early
      PROVE  ConnOK(d)'
  <2>1. CASE d = c
    BY <1>5, <1>6, <2>1
  <2> QED BY <1>4, <1>6, <2>1
<1> QED BY <1>1, <1>6 DEF OwnerInv

(* The worker gives the connection back to epoll, or closes it. *)
LEMMA GiveOwner ==
  ASSUME PoolInv, OwnerInv, NEW w \in Workers, Rearm(w) \/ connection_abort(w)
  PROVE  OwnerInv'
<1>0. /\ ThdTypes /\ conn \in [Workers -> Connections \cup {NULL}]
  BY PoolFacts DEF OtherTypes
<1>1. /\ pc[w] \in {"rearm", "abort"} /\ pc' = [pc EXCEPT ![w] = "start"] /\ Drop(w)
      /\ UNCHANGED <<queue, events, early, callback, is_pended, pend_ready_state>>
  BY DEF Rearm, connection_abort, Goto, thdVars
<1> PICK c \in Connections : c = conn[w]
  BY <1>1, HandledConn DEF Handling
<1>2. c \notin early =>
        /\ ConnOK(c)
        /\ \A v \in Workers : conn[v] = c => v = w
        /\ ~InSeq(queue, c) /\ ~InSeq(events, c) /\ c \notin armed
        /\ state[c] = "live" /\ callback[c] = "none"
  BY <1>1, AtOwner DEF Handling, Hot
<1>3. ASSUME NEW d \in Connections, d # c
      PROVE  SameThd(d) /\ (d \in armed' <=> d \in armed)
  BY <1>0, <1>1, <1>3 DEF SameThd, Rearm, connection_abort, ThdTypes, thdVars
<1>4. ASSUME NEW d \in Connections, d # c, d \notin early
      PROVE  ConnOK(d)'
  BY <1>1, <1>3, <1>4, OthersOwner
<1>5. ASSUME c \notin early
      PROVE  ConnOK(c)'
  <2>1. \A v \in Workers : conn'[v] # c
    BY <1>0, <1>1, <1>2, <1>5, PoolAssumption DEF Drop
  <2>2. OnceIn(queue, c)' /\ OnceIn(events, c)' /\ ~InSeq(queue, c)' /\ ~InSeq(events, c)'
    BY <1>1, <1>2, <1>5 DEF OnceIn, InSeq
  <2>3. AtMostOnce(c)' /\ (Held(c)' <=> c \in armed')
    BY <2>1, <2>2 DEF AtMostOnce, Held, AtWorker
  <2>4. callback'[c] = "none"
    BY <1>1, <1>2, <1>5
  <2>5. CASE Rearm(w)
    <3>1. c \in armed' /\ state'[c] = "live"
      BY <1>2, <1>5, <2>5 DEF Rearm, thdVars
    <3> QED BY <2>1, <2>3, <2>4, <3>1, CalmNext
  <2>6. CASE connection_abort(w)
    <3>1. c \notin armed' /\ state'[c] # "live"
      BY <1>0, <1>2, <1>5, <2>6 DEF connection_abort, ThdTypes
    <3> QED BY <2>1, <2>3, <2>4, <3>1 DEF ConnOK
  <2> QED BY <2>5, <2>6
<1>6. ASSUME NEW d \in Connections, d \notin early
      PROVE  ConnOK(d)'
  <2>1. CASE d = c
    BY <1>5, <1>6, <2>1
  <2> QED BY <1>4, <1>6, <2>1
<1> QED BY <1>1, <1>6 DEF OwnerInv

LEMMA StirredCalm ==
  ASSUME Stirred(pc)
  PROVE  \A v \in Workers : pc'[v] = pc[v] \/ pc[v] \notin Handling \cup {"back"}
  BY DEF Stirred, Handling

(* A connection nobody has, and whose callback has run, is queued. *)
LEMMA QueuePutOwner ==
  ASSUME PoolInv, OwnerInv, NEW c \in Connections, queue_put(c), UNCHANGED early,
         c \notin early => ~Held(c) /\ callback'[c] = "none" /\ state'[c] = "live",
         \A d \in Connections : d # c => SameThd(d)
  PROVE  OwnerInv'
<1>0. OtherTypes /\ HandInv /\ GroupOK(pc, active_thread_count, waiting_threads)
  BY PoolFacts
<1>1. /\ queue' = Append(queue, c) /\ UNCHANGED <<events, armed, conn>>
      /\ \/ Nothing(pc, active_thread_count)
         \/ wake_or_create_thread(pc, active_thread_count)
  BY DEF queue_put
<1>2. Stirred(pc)
  BY <1>0, <1>1, WakeOrCreate
<1>3. \A d \in Connections :
        /\ InSeq(queue', d) <=> InSeq(queue, d) \/ d = c
        /\ OnceIn(queue, d) /\ ~(InSeq(queue, d) /\ d = c) => OnceIn(queue', d)
  BY <1>0, <1>1, AppendHas DEF OtherTypes
<1>4. ASSUME NEW d \in Connections, d # c, d \notin early
      PROVE  ConnOK(d)'
  <2>1. ConnOK(d) /\ d # NULL
    BY <1>4, PoolAssumption DEF OwnerInv
  <2>2. \A v \in Workers : conn[v] = d => pc'[v] = pc[v]
    BY <1>0, <1>2, <2>1, StirredCalm DEF HandInv
  <2>3. SameHolding(d)
    BY <1>1, <1>3, <1>4, <2>2 DEF SameHolding
  <2> QED BY <1>4, <2>1, <2>3, FrameOwner
<1>5. ASSUME c \notin early
      PROVE  ConnOK(c)'
  <2>1. ConnOK(c) /\ ~AtWorker(c) /\ ~InSeq(queue, c) /\ ~InSeq(events, c) /\ c \notin armed
    BY <1>5 DEF OwnerInv, Held
  <2>2. OnceIn(queue, c)' /\ InSeq(queue, c)'
    <3>1. OnceIn(queue', c) /\ InSeq(queue', c)
      BY <1>3, <2>1 DEF ConnOK, AtMostOnce
    <3> QED BY <3>1 DEF OnceIn, InSeq
  <2>3. OnceIn(events, c)' /\ ~InSeq(events, c)' /\ c \notin armed' /\ ~AtWorker(c)'
    BY <1>1, <2>1 DEF OnceIn, InSeq, AtWorker
  <2>4. AtMostOnce(c)' /\ Held(c)' /\ \A v \in Workers : conn'[v] # c
    BY <2>2, <2>3 DEF AtMostOnce, Held, AtWorker
  <2> QED BY <1>5, <2>4, CalmNext
<1>6. ASSUME NEW d \in Connections, d \notin early
      PROVE  ConnOK(d)'
  <2>1. CASE d = c
    BY <1>5, <1>6, <2>1
  <2> QED BY <1>4, <1>6, <2>1
<1> QED BY <1>6 DEF OwnerInv

LEMMA ClientOwner ==
  ASSUME PoolInv, OwnerInv, NEW c \in Connections, Connect(c) \/ QueueLogin(c) \/ Send(c) \/ Kill(c)
  PROVE  OwnerInv'
<1>0. ThdTypes
  BY PoolFacts
<1>1. CASE Connect(c)
  <2>1. /\ UNCHANGED <<pc, conn, queue, events, armed, early, callback, pend_ready_state, is_pended>>
        /\ state[c] = "new" /\ state'[c] = "counted"
        /\ \A d \in Connections : d # c => state'[d] = state[d]
    BY <1>0, <1>1 DEF Connect, ThdTypes
  <2> SUFFICES ASSUME NEW d \in Connections, d \notin early
               PROVE  ConnOK(d)'
    BY <2>1 DEF OwnerInv
  <2>2. ConnOK(d) /\ SameHolding(d)
    BY <2>1 DEF OwnerInv, SameHolding
  <2>3. CASE d # c
    BY <2>1, <2>2, <2>3, FrameOwner DEF SameThd
  <2>4. CASE d = c
    <3>1. AtMostOnce(c)' /\ ~Held(c)' /\ callback'[c] = "none" /\ state'[c] # "live"
      BY <2>1, <2>2, <2>4, HoldingNext DEF ConnOK
    <3>2. \A w \in Workers : conn'[w] # c
      BY <3>1 DEF Held, AtWorker
    <3> QED BY <2>4, <3>1, <3>2 DEF ConnOK
  <2> QED BY <2>3, <2>4
<1>2. CASE QueueLogin(c)
  <2>1. c \notin early => ~Held(c) /\ callback'[c] = "none" /\ state'[c] = "live"
    BY <1>0, <1>2 DEF QueueLogin, ThdTypes, OwnerInv, ConnOK
  <2>2. \A d \in Connections : d # c => SameThd(d)
    BY <1>0, <1>2 DEF QueueLogin, ThdTypes, SameThd
  <2> QED BY <1>2, <2>1, <2>2, QueuePutOwner DEF QueueLogin
<1>3. CASE Send(c) \/ Kill(c)
  <2>1. /\ UNCHANGED <<pc, conn, queue, events, armed>>
        /\ \A d \in Connections : d \notin early' => d \notin early /\ SameThd(d)
    BY <1>3 DEF Send, Kill, SameThd
  <2> QED BY <2>1, IdleOwner
<1> QED BY <1>1, <1>2, <1>3

(* The callback finds the connection dropped, or its worker at the test;   *)
(* when the worker is not there yet, the callback has overtaken it.        *)
LEMMA CallbackOwner ==
  ASSUME PoolInv, OwnerInv, NEW c \in Connections, Callback(c)
  PROVE  OwnerInv'
<1>0. ThdTypes
  BY PoolFacts
<1>1. ASSUME NEW d \in Connections, d # c
      PROVE  SameThd(d)
  BY <1>0, <1>1 DEF Callback, finalize_phase, tp_rerun_pended_thd, ThdTypes, SameThd
<1>2. ASSUME UNCHANGED groupVars, c \notin early' => c \notin early /\ ConnOK(c)',
             \A d \in Connections : d # c /\ d \notin early' => d \notin early
      PROVE  OwnerInv'
  <2> SUFFICES ASSUME NEW d \in Connections, d \notin early'
               PROVE  ConnOK(d)'
    BY DEF OwnerInv
  <2>1. CASE d = c
    BY <1>2, <2>1
  <2>2. CASE d # c
    <3>1. ConnOK(d) /\ SameHolding(d)
      BY <1>2, <2>2 DEF OwnerInv, SameHolding, groupVars
    <3> QED BY <1>1, <2>2, <3>1, FrameOwner
  <2> QED BY <2>1, <2>2
<1>3. ASSUME UNCHANGED groupVars
      PROVE  SameHolding(c)
  BY <1>3 DEF SameHolding, groupVars
<1>4. ASSUME c \notin early, ConnOK(c), Dropped(c), UNCHANGED groupVars,
             UNCHANGED <<state, is_pended>>, pend_ready_state'[c] = pend_ready_state[c],
             callback'[c] \in {"queued", "spin", "check", "put"}
      PROVE  ConnOK(c)'
  <2>1. AtMostOnce(c)' /\ ~Held(c)'
    BY <1>3, <1>4, HoldingNext DEF ConnOK, Dropped
  <2>2. Dropped(c)'
    BY <1>4, <2>1 DEF Dropped
  <2>3. state'[c] = "live" /\ \A w \in Workers : conn'[w] # c
    BY <1>4, <2>1 DEF ConnOK, Dropped, Held, AtWorker
  <2> QED BY <2>1, <2>2, <2>3 DEF ConnOK
<1>5. CASE finalize_phase(c)
  <2>1. /\ UNCHANGED groupVars /\ early \subseteq early' /\ early' \subseteq early \cup {c}
        /\ BeforeReset(c) => c \in early'
        /\ UNCHANGED <<state, is_pended>>
    BY <1>5 DEF finalize_phase
  <2>2. ASSUME c \notin early'
        PROVE  ConnOK(c)'
    <3>1. ConnOK(c) /\ c \notin early /\ ~BeforeReset(c)
      BY <2>1, <2>2 DEF OwnerInv
    <3>2. CASE Dropped(c)
      <4>1. callback'[c] = "spin" /\ pend_ready_state'[c] = pend_ready_state[c]
        BY <1>0, <1>5, <3>2 DEF finalize_phase, Dropped, ThdTypes
      <4> QED BY <1>4, <2>1, <3>1, <3>2, <4>1
    <3>3. CASE Committing(c)
      <4>1. PICK w \in Workers : conn[w] = c /\ pc[w] = "test"
        BY <3>1, <3>3 DEF Committing, BeforeReset
      <4>2. /\ pend_ready_state[c] = 0 /\ state[c] = "live" /\ Held(c) /\ c \in is_pended
            /\ \A v \in Workers : conn[v] = c => v = w
        <5>1. callback[c] = "queued"
          BY <3>3 DEF Committing
        <5>2. Held(c)
          BY <4>1 DEF Held, AtWorker
        <5> QED BY <3>1, <4>1, <5>1, <5>2 DEF ConnOK, AtMostOnce
      <4>3. callback'[c] = "none" /\ pend_ready_state'[c] = 3
        BY <1>0, <1>5, <4>2 DEF finalize_phase, ThdTypes
      <4>4. AtMostOnce(c)' /\ Held(c)'
        BY <1>3, <2>1, <3>1, <4>2, HoldingNext DEF ConnOK
      <4>5. \A v \in Workers : conn'[v] = c => pc'[v] = "test"
        BY <2>1, <4>1, <4>2 DEF groupVars
      <4> QED BY <2>1, <4>2, <4>3, <4>4, <4>5 DEF ConnOK
    <3>4. callback[c] # "none"
      BY <1>5 DEF finalize_phase
    <3> QED BY <3>1, <3>2, <3>3, <3>4 DEF ConnOK
  <2> QED BY <1>2, <2>1, <2>2
<1>6. CASE tp_rerun_pended_thd(c)
  <2>1. UNCHANGED <<early, state, is_pended, pend_ready_state>> /\ callback[c] \in {"spin", "check", "put"}
    BY <1>6 DEF tp_rerun_pended_thd
  <2>2. c \notin early => ConnOK(c) /\ Dropped(c) /\ state[c] = "live" /\ ~AtWorker(c) /\ ~Held(c)
    BY <2>1 DEF OwnerInv, ConnOK, Committing, Dropped, Held
  <2>3. CASE callback[c] # "put"
    <3>1. UNCHANGED groupVars
      BY <1>6, <2>3 DEF tp_rerun_pended_thd
    <3>2. c \notin early => callback'[c] \in {"check", "put"}
      BY <1>0, <1>6, <2>2, <2>3 DEF tp_rerun_pended_thd, ThdTypes, Dropped
    <3> QED BY <1>2, <1>4, <2>1, <2>2, <3>1, <3>2
  <2>4. CASE callback[c] = "put"
    <3>1. CASE state[c] = "gone" \/ \E w \in Workers : conn[w] = c
      <4>1. c \in early
        BY <2>2, <3>1 DEF AtWorker
      <4>2. UNCHANGED groupVars
        BY <1>6, <2>4, <3>1 DEF tp_rerun_pended_thd
      <4> QED BY <1>2, <2>1, <4>1, <4>2
    <3>2. CASE ~(state[c] = "gone" \/ \E w \in Workers : conn[w] = c)
      <4>1. queue_put(c) /\ callback'[c] = "none"
        BY <1>0, <1>6, <2>4, <3>2 DEF tp_rerun_pended_thd, ThdTypes
      <4> QED BY <1>1, <2>1, <2>2, <4>1, QueuePutOwner
    <3> QED BY <3>1, <3>2
  <2> QED BY <2>3, <2>4
<1> QED BY <1>5, <1>6 DEF Callback

(* A connection goes from one place of the pool to another. *)
LEMMA TokenNext ==
  ASSUME NEW c, ConnOK(c), Held(c), ~AtWorker(c), SameThd(c), AtMostOnce(c)', Held(c)',
         \A w \in Workers : conn'[w] = c => pc'[w] \notin Hot
  PROVE  ConnOK(c)'
<1>1. state[c] = "live" /\ callback[c] = "none"
  BY CalmNow DEF AtWorker
<1> QED BY <1>1, CalmNext DEF SameThd

LEMMA SameThdKept ==
  ASSUME UNCHANGED thdVars
  PROVE  early' = early /\ \A c \in Connections : SameThd(c)
  BY DEF thdVars, SameThd

LEMMA RoundOwner ==
  ASSUME PoolInv, OwnerInv, NEW w \in Workers, NEW a, NEW ws, pc[w] \in {"start", "woken", "asleep"},
         Round(w, a, ws), UNCHANGED thdVars
  PROVE  OwnerInv'
<1>0. /\ OtherTypes /\ HandInv /\ pc \in [Workers -> Where]
      /\ conn \in [Workers -> Connections \cup {NULL}] /\ queue \in Seq(Connections)
  BY PoolFacts DEF OtherTypes
<1>1. conn[w] = NULL /\ events' = events /\ early' = early /\ \A c \in Connections : SameThd(c)
  BY <1>0, RoundCases, SameThdKept DEF HandInv, Handling
<1>2. CASE Rests(w, "poll", a) \/ Rests(w, "asleep", a)
  <2>1. /\ \A v \in Workers : pc'[v] = pc[v] \/ pc[v] \notin Handling \cup {"back"}
        /\ UNCHANGED <<conn, queue, armed>>
    BY <1>0, <1>2 DEF Rests, Handling
  <2> QED BY <1>1, <2>1, IdleOwner
<1>3. ASSUME NEW c \in Connections, Takes(w, c, a, ws),
             NEW d \in Connections, d \notin early, d # c,
             InSeq(queue', d) <=> InSeq(queue, d), OnceIn(queue, d) => OnceIn(queue', d),
             d \in armed' <=> d \in armed
      PROVE  ConnOK(d)'
  <2>1. ConnOK(d) /\ d # NULL
    BY <1>3, PoolAssumption DEF OwnerInv
  <2>2. \A v \in Workers : (conn'[v] = d <=> conn[v] = d) /\ (conn[v] = d => pc'[v] = pc[v])
    BY <1>0, <1>1, <1>3, <2>1 DEF Takes
  <2>3. SameHolding(d)
    BY <1>1, <1>3, <2>2 DEF SameHolding
  <2> QED BY <1>1, <2>1, <2>3, FrameOwner
<1>4. ASSUME NEW c \in Connections, Takes(w, c, a, ws), c \notin early,
             InSeq(queue, c) \/ c \in armed, OnceIn(queue', c), ~InSeq(queue', c), c \notin armed'
      PROVE  ConnOK(c)'
  <2>1. ConnOK(c) /\ Held(c) /\ ~AtWorker(c) /\ OnceIn(events, c) /\ ~InSeq(events, c)
    BY <1>4 DEF OwnerInv, ConnOK, AtMostOnce, Held
  <2>2. \A v \in Workers : conn'[v] = c <=> v = w
    BY <1>0, <1>4, <2>1 DEF Takes, AtWorker
  <2>3. /\ OnceIn(queue, c)' /\ ~InSeq(queue, c)' /\ OnceIn(events, c)' /\ ~InSeq(events, c)'
    BY <1>1, <1>4, <2>1 DEF OnceIn, InSeq
  <2>4. AtMostOnce(c)' /\ Held(c)'
    BY <1>4, <2>2, <2>3 DEF AtMostOnce, Held, AtWorker
  <2>5. pc'[w] \notin Hot
    BY <1>0, <1>4 DEF Takes, Hot
  <2> QED BY <1>1, <2>1, <2>2, <2>4, <2>5, TokenNext
<1>5. ASSUME queue # <<>>, Takes(w, Head(queue), a, ws), queue' = Tail(queue), UNCHANGED armed
      PROVE  OwnerInv'
  <2>1. PICK c \in Connections : c = Head(queue)
    BY <1>0, <1>5, TailHas
  <2>2. \A d \in Connections :
          /\ InSeq(queue, d) <=> d = c \/ InSeq(queue', d)
          /\ OnceIn(queue, d) => OnceIn(queue', d)
          /\ OnceIn(queue, d) /\ d = c => ~InSeq(queue', d)
    BY <1>0, <1>5, <2>1, TailHas
  <2>3. ASSUME c \notin early
        PROVE  ConnOK(c)'
    <3>1. InSeq(queue, c) /\ OnceIn(queue, c) /\ c \notin armed
      BY <2>2, <2>3 DEF OwnerInv, ConnOK, AtMostOnce
    <3> QED BY <1>4, <1>5, <2>1, <2>2, <2>3, <3>1
  <2>4. ASSUME NEW d \in Connections, d \notin early
        PROVE  ConnOK(d)'
    <3>1. CASE d = c
      BY <2>3, <2>4, <3>1
    <3>2. CASE d # c
      BY <1>3, <1>5, <2>1, <2>2, <2>4, <3>2
    <3> QED BY <3>1, <3>2
  <2> QED BY <1>1, <2>4 DEF OwnerInv
<1>6. ASSUME NEW c \in ready, Takes(w, c, a, ws), armed' = armed \ {c}, UNCHANGED queue
      PROVE  OwnerInv'
  <2>1. c \in Connections /\ c \in armed
    BY <1>0, <1>6 DEF ready, OtherTypes
  <2>2. ASSUME c \notin early
        PROVE  ConnOK(c)'
    <3>1. ~InSeq(queue, c) /\ OnceIn(queue, c)
      BY <2>1, <2>2 DEF OwnerInv, ConnOK, AtMostOnce
    <3> QED BY <1>4, <1>6, <2>1, <2>2, <3>1
  <2>3. ASSUME NEW d \in Connections, d \notin early
        PROVE  ConnOK(d)'
    <3>1. CASE d = c
      BY <2>2, <2>3, <3>1
    <3>2. CASE d # c
      BY <1>3, <1>6, <2>1, <2>3, <3>2
    <3> QED BY <3>1, <3>2
  <2> QED BY <1>1, <2>3 DEF OwnerInv
<1> QED BY <1>2, <1>5, <1>6, RoundCases

LEMMA PollOwner ==
  ASSUME PoolInv, OwnerInv, NEW w \in Workers, Poll(w), UNCHANGED thdVars
  PROVE  OwnerInv'
<1>0. /\ OtherTypes /\ HandInv /\ pc \in [Workers -> Where]
  BY PoolFacts
<1>1. early' = early /\ \A c \in Connections : SameThd(c)
  BY SameThdKept
<1>2. /\ pc[w] = "poll" /\ pc' = [pc EXCEPT ![w] = "deliver"] /\ UNCHANGED <<queue, conn>>
      /\ armed' = armed \ ready /\ events' \in SetToSeqs(ready)
  BY DEF Poll
<1>3. events = <<>>
  <2>1. \A v \in Workers : pc[v] = "deliver" => v = w
    BY <1>0, <1>2 DEF HandInv, Listening
  <2> QED BY <1>0, <1>2, <2>1 DEF HandInv
<1>4. ASSUME NEW c \in Connections
      PROVE  /\ InSeq(events', c) <=> c \in ready
             /\ OnceIn(events', c) /\ ~InSeq(events, c)
  <2>1. (InSeq(events', c) <=> c \in ready) /\ OnceIn(events', c)
    BY <1>0, <1>2, ReadyFinite, SetToSeqsHas
  <2>2. ~InSeq(events, c)
    BY <1>3 DEF InSeq
  <2> QED BY <2>1, <2>2
<1>5. ASSUME NEW c \in Connections, c \notin early
      PROVE  ConnOK(c)'
  <2>1. ConnOK(c) /\ c # NULL
    BY <1>5, PoolAssumption DEF OwnerInv
  <2>2. \A v \in Workers : conn[v] = c => pc'[v] = pc[v]
    BY <1>0, <1>2, <2>1 DEF HandInv, Handling
  <2>3. CASE c \notin ready
    <3>1. SameHolding(c)
      BY <1>2, <1>4, <2>2, <2>3 DEF SameHolding
    <3> QED BY <1>1, <2>1, <3>1, FrameOwner
  <2>4. CASE c \in ready
    <3>1. c \in armed /\ Held(c) /\ ~AtWorker(c) /\ ~InSeq(queue, c) /\ OnceIn(queue, c)
      BY <2>1, <2>4 DEF ready, ConnOK, AtMostOnce, Held
    <3>2. OnceIn(queue, c)' /\ ~InSeq(queue, c)' /\ OnceIn(events, c)' /\ InSeq(events, c)'
      <4>1. OnceIn(events', c) /\ InSeq(events', c)
        BY <1>4, <2>4
      <4> QED BY <1>2, <3>1, <4>1 DEF OnceIn, InSeq
    <3>3. c \notin armed' /\ \A v \in Workers : conn'[v] # c
      BY <1>2, <2>4, <3>1 DEF AtWorker
    <3>4. AtMostOnce(c)' /\ Held(c)'
      BY <3>2, <3>3 DEF AtMostOnce, Held, AtWorker
    <3> QED BY <1>1, <2>1, <3>1, <3>3, <3>4, TokenNext
  <2> QED BY <2>3, <2>4
<1> QED BY <1>1, <1>5 DEF OwnerInv

LEMMA DeliverOwner ==
  ASSUME PoolInv, OwnerInv, NEW w \in Workers, Deliver(w), UNCHANGED thdVars
  PROVE  OwnerInv'
<1>0. /\ OtherTypes /\ HandInv /\ pc \in [Workers -> Where]
      /\ conn \in [Workers -> Connections \cup {NULL}]
      /\ queue \in Seq(Connections) /\ events \in Seq(Connections)
  BY PoolFacts DEF OtherTypes
<1>1. early' = early /\ \A c \in Connections : SameThd(c)
  BY SameThdKept
<1>2. /\ pc[w] = "deliver" /\ events # <<>> /\ events' = <<>> /\ UNCHANGED armed
      /\ \/ /\ queue = <<>> /\ queue' = Tail(events)
            /\ conn' = [conn EXCEPT ![w] = Head(events)]
            /\ Stirred([pc EXCEPT ![w] = "back"])
         \/ /\ queue' = queue \o events /\ UNCHANGED conn
            /\ Stirred([pc EXCEPT ![w] = "poll"])
  BY DeliverCases
<1>3. conn[w] = NULL
  BY <1>0, <1>2 DEF HandInv, Handling
<1>4. ASSUME NEW c
      PROVE  ~InSeq(events', c) /\ OnceIn(events', c)
  BY <1>2 DEF InSeq, OnceIn
<1>5. pc'[w] \notin Hot /\ \A v \in Workers : v # w => pc'[v] = pc[v] \/ pc[v] \in {"asleep", "none"}
  BY <1>0, <1>2 DEF Stirred, Hot
<1>6. ASSUME NEW c \in Connections, c \notin early
      PROVE  ConnOK(c)'
  <2>1. ConnOK(c) /\ c # NULL
    BY <1>6, PoolAssumption DEF OwnerInv
  <2>2. \A v \in Workers : conn[v] = c => pc'[v] = pc[v] /\ v # w
    BY <1>0, <1>3, <1>5, <2>1 DEF HandInv, Handling
  <2>3. CASE queue = <<>> /\ queue' = Tail(events) /\ conn' = [conn EXCEPT ![w] = Head(events)]
    <3>1. ~InSeq(queue, c)
      BY <2>3 DEF InSeq
    <3>2. /\ InSeq(events, c) <=> c = Head(events) \/ InSeq(queue', c)
          /\ OnceIn(events, c) => OnceIn(queue', c)
          /\ OnceIn(events, c) /\ c = Head(events) => ~InSeq(queue', c)
      BY <1>0, <1>2, <2>3, TailHas
    <3> DEFINE h == Head(events)
    <3>3. \A v \in Workers : conn'[v] = IF v = w THEN h ELSE conn[v]
      BY <1>0, <2>3
    <3> HIDE DEF h
    <3>4. CASE ~InSeq(events, c)
      <4>1. \A v \in Workers : conn'[v] = c <=> conn[v] = c
        BY <1>3, <2>1, <3>2, <3>3, <3>4 DEF h
      <4>2. OnceIn(queue', c) /\ ~InSeq(queue', c)
        BY <2>1, <3>2, <3>4 DEF ConnOK, AtMostOnce
      <4>3. SameHolding(c)
        BY <1>2, <1>4, <2>2, <3>1, <3>4, <4>1, <4>2 DEF SameHolding
      <4> QED BY <1>1, <2>1, <4>3, FrameOwner
    <3>5. CASE InSeq(events, c)
      <4>1. Held(c) /\ ~AtWorker(c) /\ c \notin armed /\ OnceIn(events, c)
        BY <2>1, <3>5 DEF ConnOK, AtMostOnce, Held
      <4>2. /\ \A v \in Workers : conn'[v] = c <=> v = w /\ c = h
            /\ c = h <=> ~InSeq(queue', c)
            /\ OnceIn(queue', c)
        BY <3>2, <3>3, <3>5, <4>1 DEF AtWorker, h
      <4>3. /\ OnceIn(queue, c)' /\ (InSeq(queue, c)' <=> InSeq(queue', c))
            /\ OnceIn(events, c)' /\ ~InSeq(events, c)'
        BY <1>4, <4>2 DEF OnceIn, InSeq
      <4>4. AtWorker(c)' <=> c = h
        BY <4>2 DEF AtWorker
      <4>5. \A v, u \in Workers : conn'[v] = c /\ conn'[u] = c => v = u
        BY <4>2
      <4>6. AtMostOnce(c)' /\ Held(c)'
        BY <1>2, <4>1, <4>2, <4>3, <4>4, <4>5 DEF AtMostOnce, Held
      <4> QED BY <1>1, <1>5, <2>1, <4>1, <4>2, <4>6, TokenNext
    <3> QED BY <3>4, <3>5
  <2>4. CASE queue' = queue \o events /\ UNCHANGED conn
    <3>1. /\ InSeq(queue', c) <=> InSeq(queue, c) \/ InSeq(events, c)
          /\ OnceIn(queue, c) /\ OnceIn(events, c) /\ ~(InSeq(queue, c) /\ InSeq(events, c))
               => OnceIn(queue', c)
      BY <1>0, <2>4, ConcatHas
    <3>2. OnceIn(queue', c)
      BY <2>1, <3>1 DEF ConnOK, AtMostOnce
    <3>3. CASE ~InSeq(events, c)
      <4>1. SameHolding(c)
        BY <1>2, <1>4, <2>2, <2>4, <3>1, <3>2, <3>3 DEF SameHolding
      <4> QED BY <1>1, <2>1, <4>1, FrameOwner
    <3>4. CASE InSeq(events, c)
      <4>1. Held(c) /\ ~AtWorker(c) /\ c \notin armed
        BY <2>1, <3>4 DEF ConnOK, AtMostOnce, Held
      <4>2. /\ OnceIn(queue, c)' /\ InSeq(queue, c)'
            /\ OnceIn(events, c)' /\ ~InSeq(events, c)'
        BY <1>4, <3>1, <3>2, <3>4 DEF OnceIn, InSeq
      <4>3. \A v \in Workers : conn'[v] # c
        BY <2>4, <4>1 DEF AtWorker
      <4>4. AtMostOnce(c)' /\ Held(c)'
        BY <1>2, <4>1, <4>2, <4>3 DEF AtMostOnce, Held, AtWorker
      <4> QED BY <1>1, <2>1, <4>1, <4>3, <4>4, TokenNext
    <3> QED BY <3>3, <3>4
  <2> QED BY <1>2, <2>3, <2>4
<1> QED BY <1>1, <1>6 DEF OwnerInv

(* Workers that only move: with their connection ... *)
LEMMA WaitOwner ==
  ASSUME PoolInv, OwnerInv, NEW w \in Workers, wait_begin(w) \/ wait_end(w) \/ Back(w), UNCHANGED thdVars
  PROVE  OwnerInv'
<1>0. pc \in [Workers -> Where] /\ HandInv /\ OtherTypes
  BY PoolFacts
<1>1. /\ pc[w] \in {"execute", "waiting", "back"} /\ UNCHANGED <<conn, queue, events, armed>>
  BY DEF wait_begin, wait_end, Back, sockets
<1>2. /\ pc'[w] \notin Hot
      /\ \A v \in Workers : v # w => pc'[v] = pc[v] \/ pc[v] \in {"asleep", "none"}
  <2>1. CASE wait_begin(w)
    <3>1. Stirred([pc EXCEPT ![w] = "waiting"])
      BY <2>1, WaitPool
    <3> QED BY <1>0, <3>1 DEF Stirred, Hot
  <2>2. CASE wait_end(w) \/ Back(w)
    BY <1>0, <2>2 DEF wait_end, Back, Hot
  <2> QED BY <2>1, <2>2
<1>3. conn[w] \in Connections /\ pc[w] \notin Hot
  BY <1>0, <1>1 DEF HandInv, OtherTypes, Handling, Hot
<1>4. UNCHANGED <<state, callback, early>> /\ \A c \in Connections : SameThd(c)
  BY SameThdKept DEF thdVars
<1> QED BY <1>1, <1>2, <1>3, <1>4, KeepOwner

(* ... or without one. *)
LEMMA RestOwner ==
  ASSUME PoolInv, OwnerInv,
         Tick \/ (UNCHANGED thdVars /\ \E w \in Workers : Timeout(w) \/ Exit(w)) \/ UNCHANGED vars
  PROVE  OwnerInv'
<1>0. pc \in [Workers -> Where]
  BY PoolFacts
<1>1. early' = early /\ \A c \in Connections : SameThd(c)
  BY SameThdKept DEF Tick, vars
<1>2. UNCHANGED <<conn, queue, events, armed>>
  BY DEF Tick, check_stall, Timeout, Exit, vars, groupVars, sockets
<1>3. \A v \in Workers : pc'[v] = pc[v] \/ pc[v] \notin Handling \cup {"back"}
  <2>1. CASE Tick
    BY <2>1, StallPool, StirredCalm
  <2>2. CASE \E w \in Workers : Timeout(w) \/ Exit(w)
    BY <1>0, <2>2 DEF Timeout, Exit, Handling
  <2>3. CASE UNCHANGED vars
    BY <2>3 DEF vars, groupVars
  <2> QED BY <2>1, <2>2, <2>3
<1> QED BY <1>1, <1>2, <1>3, IdleOwner

LEMMA OwnerStep ==
  ASSUME PoolInv, OwnerInv, [Next]_vars
  PROVE  OwnerInv'
<1>1. ASSUME NEW w \in Workers, handle_event(w)
      PROVE  OwnerInv'
  BY <1>1, HandleOwner, CommitOwner, GiveOwner DEF handle_event
<1>2. ASSUME NEW w \in Workers, get_event(w) \/ wait_end(w), UNCHANGED thdVars
      PROVE  OwnerInv'
  <2>1. CASE GetEvent(w) \/ Woken(w)
    BY <1>2, <2>1, RoundOwner DEF GetEvent, Woken
  <2>2. CASE Exit(w)
    BY <1>2, <2>2, RestOwner
  <2>3. CASE Poll(w)
    BY <1>2, <2>3, PollOwner
  <2>4. CASE Deliver(w)
    BY <1>2, <2>4, DeliverOwner
  <2>5. CASE Back(w) \/ wait_end(w)
    BY <1>2, <2>5, WaitOwner
  <2> QED BY <1>2, <2>1, <2>2, <2>3, <2>4, <2>5 DEF get_event
<1>3. ASSUME NEW w \in Workers, Timeout(w) \/ Spurious(w) \/ wait_begin(w), UNCHANGED thdVars
      PROVE  OwnerInv'
  <2>1. CASE Spurious(w)
    BY <1>3, <2>1, RoundOwner DEF Spurious
  <2> QED BY <1>3, <2>1, RestOwner, WaitOwner
<1>4. CASE \E c \in Connections : Connect(c) \/ QueueLogin(c) \/ Send(c) \/ Kill(c) \/ Callback(c)
  BY <1>4, ClientOwner, CallbackOwner
<1>5. CASE Tick \/ UNCHANGED vars
  BY <1>5, RestOwner
<1> QED BY <1>1, <1>2, <1>3, <1>4, <1>5 DEF Next, Step

LEMMA OwnerInit ==
  ASSUME Init
  PROVE  OwnerInv
<1> SUFFICES ASSUME NEW c \in Connections
             PROVE  ConnOK(c)
  BY DEF OwnerInv
<1>1. \A w \in Workers : conn[w] # c
  BY PoolAssumption DEF Init, GroupInit
<1>2. ~InSeq(queue, c) /\ OnceIn(queue, c) /\ ~InSeq(events, c) /\ OnceIn(events, c) /\ c \notin armed
  BY DEF Init, GroupInit, InSeq, OnceIn
<1>3. AtMostOnce(c) /\ ~Held(c)
  BY <1>1, <1>2 DEF AtMostOnce, Held, AtWorker
<1>4. state[c] = "new" /\ callback[c] = "none"
  BY DEF Init
<1> QED BY <1>1, <1>3, <1>4 DEF ConnOK

-----------------------------------------------------------------------------
(* What follows *)

LEMMA CardAtMostOne ==
  ASSUME NEW S, \A a, b \in S : a = b
  PROVE  Cardinality(S) = IF S = {} THEN 0 ELSE 1
<1>1. CASE S = {}
  BY <1>1, FS_EmptySet
<1>2. CASE S # {}
  <2>1. PICK a : a \in S
    BY <1>2
  <2>2. S = {a}
    BY <2>1
  <2>3. Cardinality({a}) = 1
    BY FS_Singleton
  <2> QED BY <1>2, <2>2, <2>3
<1> QED BY <1>1, <1>2

(* A connection with one owner is in one place. *)
LEMMA PlacesOf ==
  ASSUME NEW c, AtMostOnce(c)
  PROVE  Places(c) = IF Held(c) THEN 1 ELSE 0
<1> DEFINE W == {w \in Workers : conn[w] = c}
           Q == {j \in 1..Len(queue) : queue[j] = c}
           E == {j \in 1..Len(events) : events[j] = c}
<1>1. Cardinality(W) = IF W = {} THEN 0 ELSE 1
  <2>1. \A a, b \in W : a = b
    BY DEF AtMostOnce
  <2> QED BY <2>1, CardAtMostOne
<1>2. Cardinality(Q) = IF Q = {} THEN 0 ELSE 1
  <2>1. \A a, b \in Q : a = b
    BY DEF AtMostOnce, OnceIn
  <2> QED BY <2>1, CardAtMostOne
<1>3. Cardinality(E) = IF E = {} THEN 0 ELSE 1
  <2>1. \A a, b \in E : a = b
    BY DEF AtMostOnce, OnceIn
  <2> QED BY <2>1, CardAtMostOne
<1>4. (W # {} <=> AtWorker(c)) /\ (Q # {} <=> InSeq(queue, c)) /\ (E # {} <=> InSeq(events, c))
  BY DEF AtWorker, InSeq
<1>5. Places(c) = Cardinality(W) + Cardinality(Q) + Cardinality(E) + (IF c \in armed THEN 1 ELSE 0)
  BY DEF Places
<1> HIDE DEF W, Q, E
<1> QED BY <1>1, <1>2, <1>3, <1>4, <1>5 DEF AtMostOnce, Held

LEMMA PoolMeaning == IInv => TypeOK /\ CountsRight
<1> SUFFICES ASSUME IInv
             PROVE  TypeOK /\ CountsRight
  OBVIOUS
<1>1. TypeOK /\ HandInv /\ GroupOK(pc, active_thread_count, waiting_threads)
  BY DEF IInv, PoolInv
<1> QED BY <1>1 DEF CountsRight, HandInv, GroupOK, Active, Inactive, Listening, InSeq

LEMMA OwnerMeaning == IInv => OneOwner /\ AnsweredWhenFlushed
<1> SUFFICES ASSUME IInv
             PROVE  OneOwner /\ AnsweredWhenFlushed
  OBVIOUS
<1>0. PoolInv /\ OwnerInv
  BY DEF IInv
<1>1. OneOwner
  <2> SUFFICES ASSUME NEW c \in Connections, c \notin early
               PROVE  /\ callback[c] # "undefined"
                      /\ state[c] = "live" =>
                           Places(c) = 1 \/ (Places(c) = 0 /\ c \in is_pended /\ Pending(c))
                      /\ state[c] = "gone" => ~Pending(c)
    BY DEF OneOwner
  <2>1. ConnOK(c)
    BY <1>0 DEF OwnerInv
  <2>2. Places(c) = IF Held(c) THEN 1 ELSE 0
    BY <2>1, PlacesOf DEF ConnOK
  <2>3. callback[c] # "undefined"
    BY <2>1 DEF ConnOK, Dropped, Committing
  <2>4. state[c] = "gone" => ~Pending(c)
    BY <2>1 DEF ConnOK, Pending
  <2>5. state[c] = "live" => Held(c) \/ (~Held(c) /\ c \in is_pended /\ Pending(c))
    BY <2>1 DEF ConnOK, Dropped, Pending
  <2> QED BY <2>2, <2>3, <2>4, <2>5
<1>2. AnsweredWhenFlushed
  <2> SUFFICES ASSUME NEW w \in Workers, pc[w] = "phase2", conn[w] \notin early
               PROVE  ~Pending(conn[w])
    BY DEF AnsweredWhenFlushed
  <2>1. callback[conn[w]] = "none"
    BY <1>0, AtOwner DEF Handling, Hot
  <2> QED BY <2>1 DEF Pending
<1> QED BY <1>1, <1>2

(* The pool's counters and the owner of each connection are right in every *)
(* state: what Init establishes, every step of the clients, the workers,   *)
(* the callbacks and the timer keeps.                                      *)
THEOREM PendedInvariant == Spec => []IInv
<1>1. Init => IInv
  BY PoolInit, OwnerInit DEF IInv
<1>2. IInv /\ [Next]_vars => IInv'
  <2> SUFFICES ASSUME IInv, [Next]_vars
               PROVE  PoolInv' /\ OwnerInv'
    BY DEF IInv
  <2> QED BY PoolStep, OwnerStep DEF IInv
<1> QED BY <1>1, <1>2, PTL DEF Spec

(* Every variable of the pool and of the connections keeps its type; in    *)
(* particular active_thread_count never leaves 0..max_threads.             *)
THEOREM PendedTypeCorrect == Spec => []TypeOK
  BY PendedInvariant, PoolMeaning, PTL

(* active_thread_count, listener and waiting_threads (threadpool_unix.cc)  *)
(* always agree with where the workers are.                                *)
THEOREM PoolCountsRight == Spec => []CountsRight
  BY PendedInvariant, PoolMeaning, PTL

(* Unless its callback overtook its worker, a connection is never with two *)
(* workers, never lost and never outlived by its callback.                 *)
THEOREM PendedOneOwner == Spec => []OneOwner
  BY PendedInvariant, OwnerMeaning, PTL

(* Unless its callback overtook its worker, phase 2 answers a client only  *)
(* after the callback, so after the flush.                                 *)
THEOREM PendedAnsweredWhenFlushed == Spec => []AnsweredWhenFlushed
  BY PendedInvariant, OwnerMeaning, PTL
=============================================================================
