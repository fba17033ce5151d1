---------------------------- MODULE ListsProofs ----------------------------
(***************************************************************************)
(* Lab11's lists, for any number of threads, any keys and any number of    *)
(* operations: no thread uses a freed or an unfinished node, the list      *)
(* stays sorted and ends at tail, and all three lists implement a set      *)
(* whose operations take effect at one moment.                             *)
(***************************************************************************)
EXTENDS Lists, FiniteSetTheorems, NaturalsInduction, WellFoundedInduction, TLAPS

-----------------------------------------------------------------------------
(* What one comes to from the head *)

LEMMA FromZeroOn ==
  ASSUME NEW S \in SUBSET Nat, 0 \in S, \A n \in S : n + 1 \in S
  PROVE  S = Nat
<1> DEFINE R == {ss \in Nat \X Nat : ss[1] < ss[2]}
<1>1. SUFFICES ASSUME Nat \ S # {} PROVE FALSE
  OBVIOUS
<1>2. IsWellFoundedOn(R, Nat)
  BY NatLessThanWellFounded DEF OpToRel
<1>3. PICK x \in Nat \ S : \A y \in Nat \ S : ~(<<y, x>> \in R)
  <2> HIDE DEF R
  <2>1. Nat \ S \subseteq Nat
    OBVIOUS
  <2> QED BY <1>1, <1>2, <2>1, WFMin
<1>4. x - 1 \in Nat /\ x - 1 \notin S
  <2>1. x # 0
    OBVIOUS
  <2>2. x - 1 \in Nat /\ x = (x - 1) + 1
    BY <2>1
  <2> QED BY <2>2
<1>5. <<x - 1, x>> \in R
  BY <1>4
<1> QED BY <1>3, <1>4, <1>5

(* The recursive function of ReachedBy is what its definition says. *)
Grows(g, succ) ==
  g = [n \in 0..MaxWork + 1 |->
         IF n = 0 THEN {head}
         ELSE LET nearer == g[n - 1] IN nearer \cup {succ[a] : a \in nearer}]

LEMMA GrowsExists ==
  ASSUME NEW succ
  PROVE  \E g : Grows(g, succ)
<1> DEFINE F(S) == S \cup {succ[a] : a \in S}
           Upto(g, m) == g = [n \in 0..m |-> IF n = 0 THEN {head} ELSE F(g[n - 1])]
           T == {m \in Nat : \E g : Upto(g, m)}
<1> HIDE DEF F
<1>1. 0 \in T
  <2> DEFINE h == [n \in 0..0 |-> {head}]
  <2>1. Upto(h, 0)
    OBVIOUS
  <2> QED BY <2>1
<1>2. ASSUME NEW m \in T
      PROVE  m + 1 \in T
  <2>1. PICK g : Upto(g, m)
    OBVIOUS
  <2> DEFINE h == [n \in 0..m + 1 |-> IF n <= m THEN g[n] ELSE F(g[m])]
  <2>2. \A n \in 0..m : g[n] = IF n = 0 THEN {head} ELSE F(g[n - 1])
    BY <2>1
  <2>3. \A n \in 0..m + 1 : h[n] = IF n = 0 THEN {head} ELSE F(h[n - 1])
    <3>1. \A n \in 0..m + 1 : n # 0 => n - 1 \in 0..m /\ h[n - 1] = g[n - 1]
      OBVIOUS
    <3>2. \A n \in 0..m + 1 : (n \in 0..m /\ h[n] = g[n]) \/ (n = m + 1 /\ n # 0 /\ h[n] = F(g[n - 1]))
      OBVIOUS
    <3> HIDE DEF h
    <3> QED BY <2>2, <3>1, <3>2
  <2>4. Upto(h, m + 1)
    <3>1. h = [n \in 0..m + 1 |-> h[n]]
      OBVIOUS
    <3> HIDE DEF h
    <3> QED BY <2>3, <3>1
  <2> HIDE DEF h, Upto
  <2> QED BY <2>4
<1>3. MaxWork + 1 \in T
  <2>1. T \in SUBSET Nat
    OBVIOUS
  <2> HIDE DEF T
  <2> QED BY <1>1, <1>2, <2>1, FromZeroOn, ListAssumption
<1> QED BY <1>3 DEF Grows, F

LEMMA ReachedByGrows ==
  ASSUME NEW succ
  PROVE  \E g : Grows(g, succ) /\ ReachedBy(succ) = g[MaxWork + 1]
<1>1. PICK w : w = CHOOSE g : Grows(g, succ)
  OBVIOUS
<1>2. Grows(w, succ)
  BY <1>1, GrowsExists
<1>3. ReachedBy(succ) = w[MaxWork + 1]
  BY <1>1 DEF ReachedBy, Grows
<1> QED BY <1>2, <1>3

(* It holds the head, is closed under succ and is in every such set. *)
From(S, succ) == S \subseteq Addresses /\ head \in S /\ \A a \in S : succ[a] \in S

LEMMA AddressesFinite ==
  /\ IsFiniteSet(Addresses) /\ Cardinality(Addresses) = MaxWork + 2
  /\ head \in Addresses /\ tail \in Addresses /\ head # tail
  /\ Heap = Addresses \ {head, tail} /\ Heap \subseteq Addresses
  /\ head \notin Heap /\ tail \notin Heap
<1>1. MaxWork \in Nat /\ MaxWork + 1 \in Int /\ 0 \in Int
  BY ListAssumption
<1>2. IsFiniteSet(0..MaxWork + 1) /\ Cardinality(0..MaxWork + 1) = MaxWork + 2
  BY <1>1, FS_Interval
<1> QED BY <1>1, <1>2 DEF Addresses, head, tail, Heap

LEMMA ReachedByLeast ==
  ASSUME NEW succ \in [Addresses -> Addresses]
  PROVE  /\ From(ReachedBy(succ), succ)
         /\ \A S : From(S, succ) => ReachedBy(succ) \subseteq S
<1> DEFINE M == MaxWork + 1
<1>1. PICK g : Grows(g, succ) /\ ReachedBy(succ) = g[M]
  BY ReachedByGrows
<1>2. M \in Nat /\ g[0] = {head}
     /\ \A n \in Nat : n + 1 <= M => g[n + 1] = g[n] \cup {succ[a] : a \in g[n]}
  <2>1. M \in Nat
    BY ListAssumption
  <2>2. 0 \in 0..MaxWork + 1
    BY <2>1
  <2>3. ASSUME NEW n \in Nat, n + 1 <= M
        PROVE  g[n + 1] = g[n] \cup {succ[a] : a \in g[n]}
    <3>1. n + 1 \in 0..MaxWork + 1 /\ n + 1 # 0 /\ (n + 1) - 1 = n
      BY <2>1, <2>3
    <3> QED BY <3>1, <1>1 DEF Grows
  <2> QED BY <2>1, <2>2, <2>3, <1>1 DEF Grows
<1> DEFINE Ends(n) == \A a \in g[n] : succ[a] \in g[n]
           Good == {n \in Nat : n <= M => /\ g[n] \subseteq Addresses /\ head \in g[n]
                                          /\ Ends(n) \/ Cardinality(g[n]) >= n + 1
                                          /\ \A S : From(S, succ) => g[n] \subseteq S}
<1> HIDE DEF M
<1>3. 0 \in Good
  <2>1. Cardinality(g[0]) = 1
    BY <1>2, FS_Singleton
  <2> QED BY <2>1, <1>2, AddressesFinite DEF From
<1>4. ASSUME NEW n \in Good
      PROVE  n + 1 \in Good
  <2> SUFFICES ASSUME n + 1 <= M
               PROVE  /\ g[n + 1] \subseteq Addresses /\ head \in g[n + 1]
                      /\ Ends(n + 1) \/ Cardinality(g[n + 1]) >= (n + 1) + 1
                      /\ \A S : From(S, succ) => g[n + 1] \subseteq S
    OBVIOUS
  <2>1. n \in Nat /\ n <= M
    BY <1>2
  <2>2. g[n] \subseteq Addresses /\ head \in g[n] /\ (Ends(n) \/ Cardinality(g[n]) >= n + 1)
        /\ \A S : From(S, succ) => g[n] \subseteq S
    BY <2>1
  <2>3. g[n + 1] = g[n] \cup {succ[a] : a \in g[n]}
    BY <2>1, <1>2
  <2>4. g[n + 1] \subseteq Addresses /\ head \in g[n + 1]
    BY <2>2, <2>3
  <2>5. Ends(n + 1) \/ Cardinality(g[n + 1]) >= (n + 1) + 1
    <3>1. CASE Ends(n)
      <4>1. g[n + 1] = g[n]
        BY <3>1, <2>3
      <4> QED BY <4>1, <3>1
    <3>2. CASE ~Ends(n)
      <4>1. IsFiniteSet(g[n + 1]) /\ g[n] \in SUBSET g[n + 1] /\ g[n] # g[n + 1]
        <5>1. IsFiniteSet(g[n + 1])
          BY <2>4, AddressesFinite, FS_Subset
        <5> QED BY <5>1, <3>2, <2>3
      <4>2. Cardinality(g[n]) <= Cardinality(g[n + 1]) /\ Cardinality(g[n]) # Cardinality(g[n + 1])
            /\ IsFiniteSet(g[n])
        BY <4>1, FS_Subset
      <4>3. Cardinality(g[n]) \in Nat /\ Cardinality(g[n + 1]) \in Nat
        BY <4>1, <4>2, FS_CardinalityType
      <4>4. Cardinality(g[n]) >= n + 1
        BY <3>2, <2>2
      <4> HIDE DEF Ends
      <4> QED BY <4>2, <4>3, <4>4, <2>1
    <3> QED BY <3>1, <3>2
  <2>6. \A S : From(S, succ) => g[n + 1] \subseteq S
    BY <2>2, <2>3 DEF From
  <2> QED BY <2>4, <2>5, <2>6
<1>5. M \in Good
  <2>1. Good \in SUBSET Nat
    OBVIOUS
  <2> HIDE DEF Good
  <2> QED BY <1>2, <1>3, <1>4, <2>1, FromZeroOn
<1>6. Ends(M)
  <2>1. CASE Cardinality(g[M]) >= M + 1
    <3>1. g[M] \in SUBSET Addresses
      BY <1>5, <1>2
    <3>2. Cardinality(g[M]) <= Cardinality(Addresses) /\ IsFiniteSet(g[M])
          /\ (Cardinality(Addresses) = Cardinality(g[M]) => Addresses = g[M])
      BY <3>1, AddressesFinite, FS_Subset
    <3>3. Cardinality(g[M]) \in Nat
      BY <3>2, FS_CardinalityType
    <3>4. M + 1 = Cardinality(Addresses)
      BY AddressesFinite, ListAssumption DEF M
    <3>5. g[M] = Addresses
      BY <2>1, <3>2, <3>3, <3>4, <1>2
    <3> QED BY <3>5
  <2> QED BY <2>1, <1>5, <1>2
<1> QED BY <1>1, <1>2, <1>5, <1>6 DEF From

(* A list is Ordered when the keys grow along it up to the tail.  Then it  *)
(* is a chain: no two of its nodes have the same key, and the successor of *)
(* a node is the least of those above it.                                  *)
Ordered(f, k) ==
  /\ f \in [Addresses -> Addresses] /\ k \in [Addresses -> Int] /\ f[tail] = tail
  /\ \A a \in ReachedBy(f) \ {tail} : k[a] < k[f[a]]

LEMMA OrderedChain ==
  ASSUME NEW f, NEW k, Ordered(f, k)
  PROVE  \A a, b \in ReachedBy(f) : /\ k[a] = k[b] => a = b
                                    /\ k[b] < k[a] => k[f[b]] <= k[a]
<1>1. PICK R : R = ReachedBy(f)
  OBVIOUS
<1>2. From(R, f) /\ \A S : From(S, f) => R \subseteq S
  BY <1>1, ReachedByLeast DEF Ordered
<1>3. f[tail] = tail /\ (\A a \in R \ {tail} : k[a] < k[f[a]]) /\ (\A a \in R : k[a] \in Int /\ f[a] \in R)
      /\ head \in R /\ head # tail
  BY <1>1, <1>2, AddressesFinite DEF Ordered, From
<1> DEFINE Below(a, b) == k[b] < k[a] /\ k[f[b]] <= k[a]
           Above(a, b) == a # tail /\ k[f[a]] <= k[b]
           Parts(a) == \A b \in R : b = a \/ Below(a, b) \/ Above(a, b)
<1>4. \A a, b \in R : Above(a, b) => Above(a, f[b])
  BY <1>3
<1>5. \A b \in R : b = head \/ Above(head, b)
  <2> DEFINE S == {b \in R : b = head \/ Above(head, b)}
  <2>1. From(S, f)
    <3>1. \A b \in S : f[b] \in S
      BY <1>3, <1>4
    <3> QED BY <3>1, <1>2, <1>3 DEF From
  <2> HIDE DEF Above
  <2> QED BY <2>1, <1>2
<1>6. ASSUME NEW a \in R, Parts(a)
      PROVE  Parts(f[a])
  <2>1. CASE a = tail
    BY <2>1, <1>6, <1>3
  <2>2. CASE a # tail
    <3> DEFINE S == {b \in R : b = a \/ Below(a, b) \/ b = f[a] \/ Above(f[a], b)}
    <3>1. k[a] < k[f[a]] /\ f[a] \in R
      BY <2>2, <1>3
    <3>2. head \in S
      <4>1. k[head] <= k[a]
        BY <1>5, <1>3
      <4> QED BY <4>1, <3>1, <1>3, <1>6
    <3>3. ASSUME NEW b \in S
          PROVE  f[b] \in S
      <4>1. f[b] \in R /\ k[f[b]] \in Int
        BY <1>3
      <4>2. CASE b = a
        BY <4>2, <4>1
      <4>3. CASE Below(a, b)
        <5>1. f[b] = a \/ Below(a, f[b]) \/ Above(a, f[b])
          BY <1>6, <4>1
        <5>2. ~Above(a, f[b])
          BY <4>3, <3>1, <1>3, <4>1
        <5> QED BY <5>1, <5>2, <4>1
      <4>4. CASE b = f[a]
        BY <4>4, <4>1, <1>3, <3>1
      <4>5. CASE Above(f[a], b)
        BY <4>5, <4>1, <1>4, <3>1
      <4> QED BY <4>2, <4>3, <4>4, <4>5
    <3>4. From(S, f)
      BY <3>2, <3>3, <1>2 DEF From
    <3>5. R \subseteq S
      BY <3>4, <1>2
    <3>6. \A b \in R : b = a \/ Below(a, b) => Below(f[a], b)
      BY <3>1, <1>3
    <3> HIDE DEF Below, Above
    <3> QED BY <3>5, <3>6
  <2> QED BY <2>1, <2>2
<1>7. \A a \in R : Parts(a)
  <2> DEFINE S == {a \in R : Parts(a)}
  <2>1. Parts(head)
    BY <1>5
  <2> HIDE DEF Parts
  <2>2. From(S, f)
    BY <2>1, <1>2, <1>3, <1>6 DEF From
  <2> QED BY <2>2, <1>2
<1>8. ASSUME NEW a \in R, NEW b \in R
      PROVE  (k[a] = k[b] => a = b) /\ (k[b] < k[a] => k[f[b]] <= k[a])
  <2>1. b = a \/ Below(a, b) \/ Above(a, b)
    BY <1>7
  <2> QED BY <2>1, <1>3
<1> QED BY <1>1, <1>8

(* Only one node leads to another one, and every key has its place. *)
LEMMA OrderedPlace ==
  ASSUME NEW f, NEW k, Ordered(f, k)
  PROVE  /\ \A a, b \in ReachedBy(f) \ {tail} : f[a] = f[b] => a = b
         /\ \A x \in Int : k[head] < x /\ tail \in ReachedBy(f) /\ x <= k[tail] =>
              \E p \in ReachedBy(f) : /\ k[p] < x /\ x <= k[f[p]]
                                      /\ \A b \in ReachedBy(f) : k[b] < x => k[b] <= k[p]
<1>1. PICK R : R = ReachedBy(f)
  OBVIOUS
<1>2. From(R, f) /\ \A S : From(S, f) => R \subseteq S
  BY <1>1, ReachedByLeast DEF Ordered
<1>3. f[tail] = tail /\ (\A a \in R \ {tail} : k[a] < k[f[a]]) /\ (\A a \in R : k[a] \in Int /\ f[a] \in R)
      /\ head \in R
  BY <1>1, <1>2, AddressesFinite DEF Ordered, From
<1>4. \A a, b \in R : (k[a] = k[b] => a = b) /\ (k[b] < k[a] => k[f[b]] <= k[a])
  BY <1>1, OrderedChain
<1>5. \A a, b \in R \ {tail} : f[a] = f[b] => a = b
  BY <1>3, <1>4
<1>6. ASSUME NEW x \in Int, k[head] < x, tail \in R, x <= k[tail]
      PROVE  \E p \in R : k[p] < x /\ x <= k[f[p]] /\ \A b \in R : k[b] < x => k[b] <= k[p]
  <2> DEFINE S == {a \in R : k[a] < x}
  <2>1. ~From(S, f)
    BY <1>2, <1>3, <1>6
  <2>2. PICK p \in S : f[p] \notin S
    BY <2>1, <1>2, <1>3, <1>6 DEF From
  <2>3. p \in R /\ k[p] < x /\ x <= k[f[p]]
    BY <2>2, <1>3
  <2>4. \A b \in R : k[b] < x => k[b] <= k[p]
    BY <2>3, <1>3, <1>4
  <2> QED BY <2>3, <2>4
<1> QED BY <1>1, <1>5, <1>6

(* Adding a node after p, and taking out the one after p. *)
LEMMA ReachedAdd ==
  ASSUME NEW f \in [Addresses -> Addresses], NEW g \in [Addresses -> Addresses],
         NEW p \in ReachedBy(f), NEW n \in Addresses, n \notin ReachedBy(f),
         g[p] = n, g[n] = f[p], \A a \in Addresses : a # p /\ a # n => g[a] = f[a]
  PROVE  ReachedBy(g) = ReachedBy(f) \cup {n}
<1>1. PICK R : R = ReachedBy(f)
  OBVIOUS
<1>2. PICK Q : Q = ReachedBy(g)
  OBVIOUS
<1>3. From(R, f) /\ \A S : From(S, f) => R \subseteq S
  BY <1>1, ReachedByLeast
<1>4. From(Q, g) /\ \A S : From(S, g) => Q \subseteq S
  BY <1>2, ReachedByLeast
<1>5. R \subseteq Addresses /\ Q \subseteq Addresses /\ p \in R /\ n \notin R /\ n # p
  BY <1>1, <1>3, <1>4 DEF From
<1>6. g[p] = n /\ g[n] = f[p] /\ \A a \in Addresses : a # p /\ a # n => g[a] = f[a]
  OBVIOUS
<1>7. From(R \cup {n}, g)
  BY <1>3, <1>5, <1>6 DEF From
<1>8. From(Q \cap R, f)
  BY <1>3, <1>4, <1>5, <1>6 DEF From
<1>9. R \subseteq Q
  BY <1>3, <1>8
<1>10. n \in Q
  BY <1>4, <1>5, <1>6, <1>9 DEF From
<1>11. Q \subseteq R \cup {n}
  BY <1>4, <1>7
<1> QED BY <1>1, <1>2, <1>9, <1>10, <1>11

LEMMA ReachedRemove ==
  ASSUME NEW f, NEW k, Ordered(f, k), NEW g \in [Addresses -> Addresses],
         NEW p \in ReachedBy(f), p # tail, f[p] # tail, f[p] # head,
         g = [f EXCEPT ![p] = f[f[p]]]
  PROVE  ReachedBy(g) = ReachedBy(f) \ {f[p]}
<1>1. PICK R : R = ReachedBy(f)
  OBVIOUS
<1>2. PICK Q : Q = ReachedBy(g)
  OBVIOUS
<1>3. PICK c : c = f[p]
  OBVIOUS
<1>4. From(R, f) /\ \A S : From(S, f) => R \subseteq S
  BY <1>1, ReachedByLeast DEF Ordered
<1>5. From(Q, g) /\ \A S : From(S, g) => Q \subseteq S
  BY <1>2, ReachedByLeast
<1>6. R \subseteq Addresses /\ Q \subseteq Addresses /\ p \in R /\ c \in R /\ f[c] \in R
  BY <1>1, <1>3, <1>4, <1>5 DEF From
<1>7. c # p /\ f[c] # c
  <2>1. k[p] < k[c] /\ k[c] < k[f[c]] /\ k[p] \in Int /\ k[c] \in Int
    BY <1>1, <1>3, <1>6 DEF Ordered
  <2> QED BY <2>1
<1>8. \A a \in R : f[a] = c => a = p
  <2>1. \A a \in R \ {tail} : f[a] = f[p] => a = p
    BY <1>1, OrderedPlace
  <2> QED BY <2>1, <1>3 DEF Ordered
<1>9. g[p] = f[c] /\ \A a \in Addresses : a # p => g[a] = f[a]
  BY <1>3, <1>6 DEF Ordered
<1>10. From(R \ {c}, g)
  BY <1>3, <1>4, <1>6, <1>7, <1>8, <1>9 DEF From
<1>11. From(Q \cup {c}, f)
  <2>1. p \in Q
    <3>1. ASSUME p \notin Q PROVE FALSE
      <4>1. From(Q, f)
        BY <3>1, <1>5, <1>9 DEF From
      <4> QED BY <4>1, <3>1, <1>4, <1>6
    <3> QED BY <3>1
  <2> QED BY <2>1, <1>3, <1>5, <1>6, <1>9 DEF From
<1>12. R \subseteq Q \cup {c}
  BY <1>4, <1>11
<1>13. Q \subseteq R \ {c}
  BY <1>5, <1>10
<1> QED BY <1>1, <1>2, <1>3, <1>12, <1>13

-----------------------------------------------------------------------------
(* The inductive invariant *)

Before == {"whole", "seek", "lockPrev", "lockCurr", "walk", "validate", "decide"}

Doomed(t) ==
  lc[t] \in {"unlock", "free"} /\ op[t].type = "R" /\ retval[t] /\ kind # "optimistic"

Pending(t) == lc[t] \in Before /\ op[t].type = "A"

(* The node a thread alone knows of: the one it is going to add, or has    *)
(* taken out of the list and is going to free.                             *)
Own(t, a) == (Pending(t) /\ a = node[t]) \/ (Doomed(t) /\ a = curr[t])

Calls ==
  /\ Cardinality(freed) >= MaxWork - work
  /\ \A t \in Callers :
       /\ kind = "coarse" => lc[t] \in {"out", "whole", "unlock", "free"}
       /\ kind = "fine" => lc[t] \notin {"whole", "seek", "validate"}
       /\ kind = "optimistic" => lc[t] \notin {"whole", "walk", "link", "free"}
       /\ lc[t] # "out" => op[t] \in Operations
       /\ lc[t] = "out" \/ (lc[t] = "lockPrev" /\ kind = "fine") => prev[t] = head /\ curr[t] = head
       /\ kind # "optimistic" => it[t] = head
       /\ lc[t] = "free" => Doomed(t)
       /\ lc[t] = "link" => op[t].type = "A"

Sorted ==
  /\ key[head] = KEY_MIN /\ key[tail] = KEY_MAX /\ next[tail] = tail
  /\ \A a \in Heap \ freed : key[a] \in Keys
  /\ tail \in Reached /\ Reached \cap freed = {}
  /\ \A a \in Reached \ {tail} : key[a] < key[Finished[a]]

Owned ==
  /\ \A t \in Callers : \A a \in Addresses : Own(t, a) =>
       a \in Heap \ freed /\ a \notin Reached /\ \A s \in Callers : Own(s, a) => s = t
  /\ \A t \in Callers : Pending(t) => key[node[t]] = op[t].key

(* Who holds which mutex, and which ones nobody holds. *)
Locked ==
  /\ \A a \in freed : mutex[a] = NULL
  /\ kind = "coarse" => \A a \in Heap : mutex[a] = NULL
  /\ \A t \in Callers :
       /\ Pending(t) \/ lc[t] = "link" => mutex[node[t]] = NULL
       /\ lc[t] = "free" => mutex[curr[t]] = NULL
       /\ kind # "coarse" /\ lc[t] \in {"lockCurr", "walk", "validate", "decide", "link", "unlock"}
            => mutex[prev[t]] = t
       /\ kind # "coarse" /\ lc[t] \in {"walk", "validate", "decide", "link", "unlock"}
            => mutex[curr[t]] = t

(* Where a thread is in the list. *)
Placed ==
  \A t \in Callers :
    /\ kind # "coarse" /\ lc[t] \in Before => key[prev[t]] < op[t].key
    /\ lc[t] = "decide" \/ (kind = "fine" /\ lc[t] \in {"lockCurr", "walk"}) =>
         prev[t] \in Reached /\ next[prev[t]] = curr[t]
    /\ lc[t] = "decide" \/ (kind = "optimistic" /\ lc[t] \in {"lockPrev", "lockCurr", "validate"}) =>
         key[curr[t]] >= op[t].key
    /\ lc[t] = "link" =>
         /\ node[t] \in Reached \cap Heap /\ prev[t] \in Reached /\ next[prev[t]] = node[t]
         /\ \A s \in Callers : lc[s] = "link" /\ node[s] = node[t] => s = t

(* The nodes that are or have been in the optimistic list. *)
Published(a) == a \notin freed /\ \A t \in Callers : ~(Pending(t) /\ node[t] = a)

(* Where an unlocked walk can go.  The last conjunct is why validation is  *)
(* right: a locked prev that has left the list is not met from its head.   *)
Optimistic ==
  kind = "optimistic" =>
    /\ \A a \in Addresses : /\ Published(next[a])
                            /\ Published(a) \/ next[a] = tail
                            /\ a = tail \/ key[a] < key[next[a]]
    /\ \A t \in Callers :
         /\ Published(prev[t]) /\ Published(curr[t]) /\ Published(it[t])
         /\ lc[t] = "validate" =>
              prev[t] \in Reached
              \/ \E S \in SUBSET Addresses : From(S, next) /\ it[t] \in S /\ prev[t] \notin S

IInv == ListTypeOK /\ Calls /\ Sorted /\ Owned /\ Locked /\ Placed /\ Optimistic

-----------------------------------------------------------------------------
(* Facts about a state *)

LEMMA KeyBounds ==
  /\ KEY_MIN \in Int /\ KEY_MAX \in Int /\ Keys \subseteq Int /\ KEY_MIN < KEY_MAX
  /\ \A k \in Keys : KEY_MIN < k /\ k < KEY_MAX
<1>1. PICK lo : lo = CHOOSE k \in Keys : \A j \in Keys : k <= j
  OBVIOUS
<1>2. PICK hi : hi = CHOOSE k \in Keys : \A j \in Keys : k >= j
  OBVIOUS
<1>3. lo \in Keys /\ \A j \in Keys : lo <= j
  BY <1>1, ListAssumption
<1>4. hi \in Keys /\ \A j \in Keys : hi >= j
  BY <1>2, ListAssumption
<1>5. KEY_MIN = lo - 1 /\ KEY_MAX = hi + 1
  BY <1>1, <1>2 DEF KEY_MIN, KEY_MAX
<1> QED BY <1>3, <1>4, <1>5, ListAssumption

UniqueLinks ==
  \A s, t \in Callers : lc[s] = "link" /\ lc[t] = "link" /\ node[s] = node[t] => s = t

Linking(a) == \E t \in Callers : lc[t] = "link" /\ node[t] = a

FinishedIs ==
  /\ Finished \in [Addresses -> Addresses]
  /\ \A a \in Addresses : ~Linking(a) => Finished[a] = next[a]
  /\ \A t \in Callers : lc[t] = "link" => Finished[node[t]] = curr[t]

LEMMA FinishedFacts == ListTypeOK /\ UniqueLinks => FinishedIs
<1> SUFFICES ASSUME ListTypeOK, UniqueLinks PROVE FinishedIs
  OBVIOUS
<1>1. \A a \in Addresses :
        Finished[a] = IF Linking(a) THEN curr[CHOOSE t \in Callers : lc[t] = "link" /\ node[t] = a]
                                    ELSE next[a]
  BY DEF Finished, Linking
<1>2. ASSUME NEW t \in Callers, lc[t] = "link"
      PROVE  Finished[node[t]] = curr[t]
  <2>1. Linking(node[t]) /\ node[t] \in Addresses
    BY <1>2 DEF Linking, ListTypeOK
  <2>2. PICK u : u = CHOOSE s \in Callers : lc[s] = "link" /\ node[s] = node[t]
    OBVIOUS
  <2>3. u \in Callers /\ lc[u] = "link" /\ node[u] = node[t]
    BY <2>2, <1>2
  <2>4. u = t
    BY <2>3, <1>2 DEF UniqueLinks
  <2> QED BY <1>1, <2>1, <2>2, <2>4
<1>3. ASSUME NEW a \in Addresses
      PROVE  Finished[a] \in Addresses
  <2>1. CASE Linking(a)
    BY <2>1, <1>2 DEF Linking, ListTypeOK
  <2>2. CASE ~Linking(a)
    BY <2>2, <1>1 DEF ListTypeOK
  <2> QED BY <2>1, <2>2
<1>4. Finished = [a \in Addresses |-> Finished[a]]
  BY DEF Finished
<1>5. Finished \in [Addresses -> Addresses]
  BY <1>3, <1>4
<1> QED BY <1>1, <1>2, <1>5 DEF FinishedIs

(* A step that stores nothing in the list leaves it as it was. *)
LEMMA SameList ==
  ASSUME ListTypeOK, UniqueLinks, ListTypeOK', next' = next, NEW t \in Callers,
         lc[t] # "link", lc'[t] # "link",
         \A s \in Callers \ {t} : lc'[s] = lc[s] /\ node'[s] = node[s] /\ curr'[s] = curr[s]
  PROVE  UniqueLinks' /\ Finished' = Finished /\ Reached' = Reached
<1>1. UniqueLinks'
  BY DEF UniqueLinks
<1>2. FinishedIs /\ FinishedIs'
  <2>1. (ListTypeOK /\ UniqueLinks => FinishedIs)'
    BY FinishedFacts, PTL
  <2> QED BY <1>1, <2>1, FinishedFacts
<1>3. ASSUME NEW a \in Addresses
      PROVE  Finished'[a] = Finished[a]
  <2>1. CASE Linking(a)
    <3>1. PICK s \in Callers : lc[s] = "link" /\ node[s] = a
      BY <2>1 DEF Linking
    <3>2. lc'[s] = "link" /\ node'[s] = a /\ curr'[s] = curr[s]
      BY <3>1
    <3> QED BY <3>1, <3>2, <1>2 DEF FinishedIs
  <2>2. CASE ~Linking(a)
    <3>1. ~Linking(a)'
      BY <2>2 DEF Linking
    <3> QED BY <2>2, <3>1, <1>2 DEF FinishedIs
  <2> QED BY <2>1, <2>2
<1>4. Finished' = Finished
  BY <1>2, <1>3 DEF FinishedIs
<1> QED BY <1>1, <1>4 DEF Reached

LEMMA ListFacts ==
  ASSUME IInv
  PROVE  /\ UniqueLinks /\ FinishedIs /\ Ordered(Finished, key) /\ From(Reached, Finished)
         /\ Reached \subseteq Addresses /\ head \in Reached /\ tail \in Reached
         /\ \A a \in Reached : Finished[a] \in Reached /\ (a \in Heap => key[a] \in Keys)
         /\ kind # "fine" => Finished = next /\ \A t \in Callers : lc[t] # "link"
<1>1. UniqueLinks
  BY DEF IInv, UniqueLinks, Placed
<1>2. FinishedIs
  BY <1>1, FinishedFacts DEF IInv
<1>3. From(Reached, Finished)
  BY <1>2, ReachedByLeast DEF FinishedIs, Reached
<1>4. ~Linking(tail)
  BY AddressesFinite DEF IInv, Linking, Placed
<1>5. Ordered(Finished, key)
  <2>1. key \in [Addresses -> Int]
    BY KeyBounds DEF IInv, ListTypeOK
  <2>2. Finished[tail] = tail
    BY <1>2, <1>4, AddressesFinite DEF FinishedIs, IInv, Sorted
  <2> QED BY <1>2, <2>1, <2>2 DEF FinishedIs, Ordered, Reached, IInv, Sorted
<1>6. ASSUME kind # "fine"
      PROVE  Finished = next /\ \A t \in Callers : lc[t] # "link"
  <2>1. \A t \in Callers : lc[t] # "link"
    BY <1>6 DEF IInv, ListTypeOK, Calls
  <2>2. Finished \in [Addresses -> Addresses] /\ next \in [Addresses -> Addresses]
        /\ \A a \in Addresses : Finished[a] = next[a]
    BY <1>2, <2>1 DEF FinishedIs, Linking, IInv, ListTypeOK
  <2> QED BY <2>1, <2>2
<1> QED BY <1>1, <1>2, <1>3, <1>5, <1>6 DEF From, IInv, Sorted

(* A step on the way to the place of an operation changes no list, and     *)
(* whose node is whose.                                                    *)
LEMMA SearchStep ==
  ASSUME IInv, ListTypeOK', NEW t \in Callers, lc[t] \in Before, lc'[t] \in Before,
         UNCHANGED <<kind, work, key, next, freed, op, node, retval>>,
         \A s \in Callers \ {t} : lc'[s] = lc[s] /\ curr'[s] = curr[s]
  PROVE  /\ Finished' = Finished /\ Reached' = Reached /\ Sorted' /\ Owned'
         /\ \A s \in Callers : Pending(s)' <=> Pending(s)
         /\ \A a : Published(a)' <=> Published(a)
<1>1. Finished' = Finished /\ Reached' = Reached
  <2>1. lc[t] # "link" /\ lc'[t] # "link" /\ UniqueLinks
        /\ \A s \in Callers \ {t} : lc'[s] = lc[s] /\ node'[s] = node[s] /\ curr'[s] = curr[s]
    BY ListFacts DEF Before
  <2> QED BY <2>1, SameList DEF IInv
<1>2. \A s \in Callers : Pending(s)' <=> Pending(s)
  BY DEF Pending
<1>3. ASSUME NEW s \in Callers, NEW a
      PROVE  Own(s, a)' <=> Own(s, a)
  <2>1. CASE s = t
    BY <2>1, <1>2 DEF Own, Doomed, Before
  <2>2. CASE s # t
    <3>1. Doomed(s)' <=> Doomed(s)
      BY <2>2 DEF Doomed
    <3> QED BY <2>2, <3>1, <1>2 DEF Own
  <2> QED BY <2>1, <2>2
<1>4. Sorted'
  BY <1>1 DEF IInv, Sorted
<1>5. Owned'
  <2>1. \A s \in Callers : Pending(s)' => key'[node'[s]] = op'[s].key
    BY <1>2 DEF IInv, Owned
  <2> QED BY <1>1, <1>3, <2>1 DEF IInv, Owned
<1>6. \A a : Published(a)' <=> Published(a)
  BY <1>2 DEF Published
<1> QED BY <1>1, <1>2, <1>4, <1>5, <1>6

(* The nodes a thread may lock are those no thread relies on being free. *)
LEMMA Lockable ==
  ASSUME IInv, NEW t \in Callers, NEW a \in Addresses,
         \/ kind = "fine" /\ a = head
         \/ kind = "fine" /\ lc[t] = "lockCurr" /\ a = curr[t]
         \/ kind = "optimistic" /\ Published(a)
  PROVE  /\ a \notin freed
         /\ \A s \in Callers : /\ Pending(s) \/ lc[s] = "link" => node[s] # a
                               /\ lc[s] = "free" => curr[s] # a
<1> USE AddressesFinite
<1>1. \A s \in Callers : /\ Pending(s) => node[s] \in Heap /\ node[s] \notin Reached
                         /\ lc[s] = "link" => node[s] \in Heap
                         /\ kind = "fine" /\ lc[s] = "free" /\ Doomed(s) =>
                              curr[s] \in Heap /\ curr[s] \notin Reached
  BY DEF IInv, ListTypeOK, Owned, Own, Placed
<1>2. \A s \in Callers : lc[s] = "free" => Doomed(s)
  BY DEF IInv, Calls, Doomed
<1>3. CASE kind = "fine" /\ a = head
  BY <1>1, <1>2, <1>3 DEF IInv, ListTypeOK
<1>4. CASE kind = "fine" /\ lc[t] = "lockCurr" /\ a = curr[t]
  <2>1. prev[t] \in Reached /\ next[prev[t]] = a /\ mutex[prev[t]] = t
    BY <1>4 DEF IInv, Placed, Locked
  <2>2. ~Linking(prev[t])
    BY <2>1, ListAssumption DEF Linking, IInv, Locked
  <2>3. Finished[prev[t]] = a /\ a \in Reached /\ prev[t] \in Addresses
    BY <2>1, <2>2, ListFacts DEF FinishedIs
  <2>4. a \notin freed
    BY <2>3 DEF IInv, Sorted
  <2>5. ASSUME NEW s \in Callers, lc[s] = "link", node[s] = a
        PROVE  FALSE
    <3>1. prev[s] \in Reached /\ next[prev[s]] = a /\ mutex[prev[s]] = s
      BY <1>4, <2>5 DEF IInv, Placed, Locked
    <3>2. ~Linking(prev[s])
      BY <3>1, ListAssumption DEF Linking, IInv, Locked
    <3>3. Finished[prev[s]] = a /\ prev[s] \in Addresses
      BY <3>1, <3>2, ListFacts DEF FinishedIs
    <3>4. prev[s] # tail /\ prev[t] # tail
      <4>1. a # tail
        BY <1>1, <2>5
      <4> QED BY <4>1, <2>1, <3>1 DEF IInv, Sorted
    <3>5. prev[s] = prev[t]
      BY <2>1, <2>3, <3>1, <3>3, <3>4, ListFacts, OrderedPlace DEF Reached
    <3> QED BY <2>1, <3>1, <3>5, <1>4, <2>5
  <2> QED BY <1>1, <1>2, <1>4, <2>3, <2>4, <2>5
<1>5. CASE kind = "optimistic" /\ Published(a)
  <2>1. \A s \in Callers : lc[s] # "link" /\ lc[s] # "free"
    BY <1>5 DEF IInv, Calls
  <2> QED BY <2>1, <1>5 DEF Published
<1> QED BY <1>3, <1>4, <1>5

LEMMA HeadPublished ==
  ASSUME IInv
  PROVE  Published(head) /\ (kind = "optimistic" => \A a \in Reached : Published(a))
<1>1. Published(head)
  BY AddressesFinite DEF IInv, ListTypeOK, Published, Owned, Own
<1>2. ASSUME kind = "optimistic"
      PROVE  \A a \in Reached : Published(a)
  <2> DEFINE S == {a \in Addresses : Published(a)}
  <2>1. next \in [Addresses -> Addresses] /\ Reached = ReachedBy(next)
    BY <1>2, ListFacts DEF Reached, IInv, ListTypeOK
  <2>2. From(S, next)
    BY <1>1, <1>2, <2>1, AddressesFinite DEF From, IInv, Optimistic
  <2> QED BY <2>1, <2>2, ReachedByLeast
<1> QED BY <1>1, <1>2

LEMMA LockCurrStep ==
  ASSUME IInv, NEW t \in Callers, LockCurr(t)
  PROVE  IInv'
<1>1. ListTypeOK'
  BY AddressesFinite DEF IInv, ListTypeOK, LockCurr, Move
<1>2. /\ Finished' = Finished /\ Reached' = Reached /\ Sorted' /\ Owned'
      /\ \A s \in Callers : Pending(s)' <=> Pending(s)
      /\ \A a : Published(a)' <=> Published(a)
  <2>1. lc[t] \in Before /\ lc'[t] \in Before
        /\ UNCHANGED <<kind, work, key, next, freed, op, node, retval>>
        /\ \A s \in Callers \ {t} : lc'[s] = lc[s] /\ curr'[s] = curr[s]
    BY DEF IInv, ListTypeOK, LockCurr, Move, Before
  <2> QED BY <1>1, <2>1, SearchStep
<1>3. Calls'
  BY DEF IInv, ListTypeOK, LockCurr, Move, Calls, Doomed
<1>4. Placed'
  BY <1>2 DEF IInv, ListTypeOK, LockCurr, Move, Placed, Before, Calls
<1>5. Locked'
  <2>1. /\ curr[t] \notin freed
        /\ \A s \in Callers : /\ Pending(s) \/ lc[s] = "link" => node[s] # curr[t]
                              /\ lc[s] = "free" => curr[s] # curr[t]
    <3>1. lc[t] = "lockCurr" /\ curr[t] \in Addresses /\ kind \in {"fine", "optimistic"}
          /\ (kind = "optimistic" => Published(curr[t]))
      BY DEF LockCurr, Move, IInv, ListTypeOK, Calls, Optimistic
    <3> QED BY <3>1, Lockable
  <2>2. kind # "coarse" /\ \A a \in Addresses : mutex'[a] = IF a = curr[t] THEN t ELSE mutex[a]
    BY DEF IInv, ListTypeOK, LockCurr, Move, Calls
  <2>3. /\ \A s \in Callers : node'[s] = node[s] /\ prev'[s] = prev[s] /\ curr'[s] = curr[s]
                              /\ node[s] \in Addresses /\ prev[s] \in Addresses /\ curr[s] \in Addresses
                              /\ (s # t => lc'[s] = lc[s]) /\ s # NULL
        /\ lc[t] = "lockCurr" /\ lc'[t] \in {"walk", "validate"} /\ mutex[curr[t]] = NULL
    BY ListAssumption DEF IInv, ListTypeOK, LockCurr, Move
  <2>4. ASSUME NEW s \in Callers
        PROVE  /\ Pending(s)' \/ lc'[s] = "link" => mutex'[node'[s]] = NULL
               /\ lc'[s] = "free" => mutex'[curr'[s]] = NULL
               /\ lc'[s] \in {"lockCurr", "walk", "validate", "decide", "link", "unlock"} => mutex'[prev'[s]] = s
               /\ lc'[s] \in {"walk", "validate", "decide", "link", "unlock"} => mutex'[curr'[s]] = s
    <3>1. /\ Pending(s) \/ lc[s] = "link" => mutex[node[s]] = NULL
          /\ lc[s] = "free" => mutex[curr[s]] = NULL
          /\ lc[s] \in {"lockCurr", "walk", "validate", "decide", "link", "unlock"} => mutex[prev[s]] = s
          /\ lc[s] \in {"walk", "validate", "decide", "link", "unlock"} => mutex[curr[s]] = s
      BY <2>2 DEF IInv, Locked
    <3>2. Pending(s)' => Pending(s)
      BY <1>2
    <3>3. Pending(s)' \/ lc'[s] = "link" => mutex'[node'[s]] = NULL
      BY <3>1, <3>2, <2>1, <2>2, <2>3
    <3>4. lc'[s] = "free" => mutex'[curr'[s]] = NULL
      BY <3>1, <2>1, <2>2, <2>3
    <3>5. lc'[s] \in {"lockCurr", "walk", "validate", "decide", "link", "unlock"} => mutex'[prev'[s]] = s
      BY <3>1, <2>2, <2>3
    <3>6. lc'[s] \in {"walk", "validate", "decide", "link", "unlock"} => mutex'[curr'[s]] = s
      BY <3>1, <2>2, <2>3
    <3> QED BY <3>3, <3>4, <3>5, <3>6
  <2>5. \A a \in freed' : mutex'[a] = NULL
    <3>1. freed' = freed /\ freed \subseteq Addresses
      BY AddressesFinite DEF IInv, ListTypeOK, LockCurr
    <3>2. \A a \in freed : mutex[a] = NULL
      BY DEF IInv, Locked
    <3> QED BY <2>1, <2>2, <3>1, <3>2
  <2> QED BY <2>2, <2>4, <2>5 DEF Locked, LockCurr, Move
<1>6. Optimistic'
  <2> SUFFICES ASSUME kind = "optimistic" PROVE Optimistic'
    BY DEF Optimistic, LockCurr, Move
  <2>1. From(Reached, next) /\ Reached \subseteq Addresses /\ head \in Reached
    BY ListFacts
  <2> QED BY <1>2, <2>1, HeadPublished DEF IInv, ListTypeOK, LockCurr, Move, Optimistic
<1> QED BY <1>1, <1>2, <1>3, <1>4, <1>5, <1>6 DEF IInv

LEMMA LockPrevStep ==
  ASSUME IInv, NEW t \in Callers, LockPrev(t)
  PROVE  IInv'
<1>1. ListTypeOK'
  BY AddressesFinite DEF IInv, ListTypeOK, LockPrev, Move
<1>2. /\ Finished' = Finished /\ Reached' = Reached /\ Sorted' /\ Owned'
      /\ \A s \in Callers : Pending(s)' <=> Pending(s)
      /\ \A a : Published(a)' <=> Published(a)
  <2>1. lc[t] \in Before /\ lc'[t] \in Before
        /\ UNCHANGED <<kind, work, key, next, freed, op, node, retval>>
        /\ \A s \in Callers \ {t} : lc'[s] = lc[s] /\ curr'[s] = curr[s]
    BY DEF IInv, ListTypeOK, LockPrev, Move, Before
  <2> QED BY <1>1, <2>1, SearchStep
<1>3. Calls'
  BY DEF IInv, ListTypeOK, LockPrev, Move, Calls, Doomed
<1>4. Placed'
  <2>1. prev[t] = head /\ kind = "fine" => prev[t] \in Reached
    BY ListFacts
  <2> QED BY <1>2, <2>1 DEF IInv, ListTypeOK, LockPrev, Move, Placed, Before, Calls
<1>5. Locked'
  <2>1. /\ prev[t] \notin freed
        /\ \A s \in Callers : /\ Pending(s) \/ lc[s] = "link" => node[s] # prev[t]
                              /\ lc[s] = "free" => curr[s] # prev[t]
    <3>1. prev[t] \in Addresses /\ kind \in {"fine", "optimistic"}
          /\ (kind = "fine" => prev[t] = head) /\ (kind = "optimistic" => Published(prev[t]))
      BY DEF LockPrev, Move, IInv, ListTypeOK, Calls, Optimistic
    <3> QED BY <3>1, Lockable
  <2>2. Calls /\ ListTypeOK /\ Locked
    BY DEF IInv
  <2> QED BY <1>2, <2>1, <2>2, ListAssumption, AddressesFinite DEF ListTypeOK, LockPrev, Move, Locked, Calls, Pending
<1>6. Optimistic'
  BY <1>2 DEF IInv, ListTypeOK, LockPrev, Move, Optimistic
<1> QED BY <1>1, <1>2, <1>3, <1>4, <1>5, <1>6 DEF IInv

LEMMA SeekStep ==
  ASSUME IInv, NEW t \in Callers, Seek(t)
  PROVE  IInv'
<1>1. ListTypeOK'
  BY AddressesFinite DEF IInv, ListTypeOK, Seek, Move
<1>2. /\ Finished' = Finished /\ Reached' = Reached /\ Sorted' /\ Owned'
      /\ \A s \in Callers : Pending(s)' <=> Pending(s)
      /\ \A a : Published(a)' <=> Published(a)
  <2>1. lc[t] \in Before /\ lc'[t] \in Before
        /\ UNCHANGED <<kind, work, key, next, freed, op, node, retval>>
        /\ \A s \in Callers \ {t} : lc'[s] = lc[s] /\ curr'[s] = curr[s]
    BY DEF IInv, ListTypeOK, Seek, Move, Before
  <2> QED BY <1>1, <2>1, SearchStep
<1>3. Calls'
  BY DEF IInv, ListTypeOK, Seek, Move, Calls, Doomed
<1>4. Placed'
  BY <1>2 DEF IInv, ListTypeOK, Seek, Move, Placed, Before, Calls
<1>5. Locked'
  BY <1>2 DEF IInv, ListTypeOK, Seek, Move, Locked, Calls
<1>6. Optimistic'
  BY <1>2 DEF IInv, ListTypeOK, Seek, Move, Optimistic
<1> QED BY <1>1, <1>2, <1>3, <1>4, <1>5, <1>6 DEF IInv

LEMMA WalkStep ==
  ASSUME IInv, NEW t \in Callers, Walk(t)
  PROVE  IInv'
<1>1. ListTypeOK'
  BY AddressesFinite DEF IInv, ListTypeOK, Walk, HandOverHand, Move
<1>2. /\ Finished' = Finished /\ Reached' = Reached /\ Sorted' /\ Owned'
      /\ \A s \in Callers : Pending(s)' <=> Pending(s)
      /\ \A a : Published(a)' <=> Published(a)
  <2>1. lc[t] \in Before /\ lc'[t] \in Before
        /\ UNCHANGED <<kind, work, key, next, freed, op, node, retval>>
        /\ \A s \in Callers \ {t} : lc'[s] = lc[s] /\ curr'[s] = curr[s]
    BY DEF IInv, ListTypeOK, Walk, Move, Before
  <2> QED BY <1>1, <2>1, SearchStep
<1>3. Calls'
  BY DEF IInv, ListTypeOK, Walk, Move, Calls, Doomed
<1>4. Placed'
  <2>1. curr[t] \in Reached
    <3>1. prev[t] \in Reached /\ next[prev[t]] = curr[t] /\ mutex[prev[t]] = t
      BY DEF IInv, Placed, Locked, Calls, ListTypeOK, Walk, Move
    <3>2. ~Linking(prev[t])
      BY <3>1, ListAssumption DEF Linking, IInv, Locked
    <3> QED BY <3>1, <3>2, ListFacts DEF FinishedIs
  <2> QED BY <1>2, <2>1 DEF IInv, ListTypeOK, Walk, Move, Placed, Before, Calls
<1>5. Locked'
  <2>1. prev[t] # curr[t]
    <3>1. /\ prev[t] \in Reached /\ next[prev[t]] = curr[t] /\ mutex[prev[t]] = t
          /\ key[prev[t]] < op[t].key /\ op[t].key \in Keys
      BY DEF IInv, Placed, Locked, Calls, ListTypeOK, Walk, Move, Operations, Before
    <3>2. ~Linking(prev[t])
      BY <3>1, ListAssumption DEF Linking, IInv, Locked
    <3>3. Finished[prev[t]] = curr[t]
      BY <3>1, <3>2, ListFacts DEF FinishedIs
    <3>4. prev[t] # tail
      <4>1. key[tail] = KEY_MAX /\ op[t].key < KEY_MAX /\ op[t].key \in Int /\ KEY_MAX \in Int
        BY <3>1, KeyBounds DEF IInv, Sorted
      <4> QED BY <4>1, <3>1
    <3>5. key[prev[t]] \in Int /\ key[prev[t]] < key[curr[t]]
      BY <3>1, <3>3, <3>4, ListFacts DEF IInv, Sorted, Ordered
    <3> QED BY <3>5
  <2>2. ListTypeOK /\ Locked /\ Calls /\ NULL \notin Callers
    BY ListAssumption DEF IInv
  <2>3. Walk(t)!1!1 => Locked'
    BY <1>2, <2>1, <2>2, AddressesFinite DEF ListTypeOK, Walk, HandOverHand, Move, Locked, Calls
  <2>4. Walk(t)!1!2 => Locked'
    BY <1>2, <2>2, AddressesFinite DEF ListTypeOK, Walk, Move, Locked, Calls
  <2> QED BY <2>3, <2>4 DEF Walk
<1>6. Optimistic'
  BY <1>2 DEF IInv, ListTypeOK, Walk, Move, Optimistic, Calls
<1> QED BY <1>1, <1>2, <1>3, <1>4, <1>5, <1>6 DEF IInv

LEMMA ValidateStep ==
  ASSUME IInv, NEW t \in Callers, Validate(t)
  PROVE  IInv'
<1>1. ListTypeOK'
  BY AddressesFinite DEF IInv, ListTypeOK, Validate, Unlocked, Move
<1>2. /\ Finished' = Finished /\ Reached' = Reached /\ Sorted' /\ Owned'
      /\ \A s \in Callers : Pending(s)' <=> Pending(s)
      /\ \A a : Published(a)' <=> Published(a)
  <2>1. lc[t] \in Before /\ lc'[t] \in Before
        /\ UNCHANGED <<kind, work, key, next, freed, op, node, retval>>
        /\ \A s \in Callers \ {t} : lc'[s] = lc[s] /\ curr'[s] = curr[s]
    BY DEF IInv, ListTypeOK, Validate, Move, Before
  <2> QED BY <1>1, <2>1, SearchStep
<1>3. Calls'
  BY DEF IInv, ListTypeOK, Validate, Move, Calls, Doomed
<1>4. Placed'
  <2>1. lc'[t] = "decide" => prev[t] \in Reached
    BY DEF IInv, ListTypeOK, Validate, Hit, Move, Optimistic, Calls
  <2>2. key[head] < op[t].key
    BY KeyBounds DEF IInv, Validate, Move, Calls, Operations, Sorted
  <2> QED BY <1>2, <2>1, <2>2 DEF IInv, ListTypeOK, Validate, Move, Placed, Before, Calls
<1>5. Locked'
  <2>1. ListTypeOK /\ Locked /\ Calls /\ NULL \notin Callers /\ kind = "optimistic"
    BY ListAssumption DEF IInv, Validate, Move, Calls, ListTypeOK
  <2>2. ASSUME mutex' = mutex, lc'[t] \in {"decide", "validate"}
        PROVE  Locked'
    BY <1>2, <2>1, <2>2, AddressesFinite DEF ListTypeOK, Validate, Move, Locked, Calls
  <2>3. ASSUME mutex' = [mutex EXCEPT ![prev[t]] = NULL, ![curr[t]] = NULL], lc'[t] = "seek"
        PROVE  Locked'
    BY <1>2, <2>1, <2>3, AddressesFinite DEF ListTypeOK, Validate, Move, Locked, Calls
  <2> QED BY <2>1, <2>2, <2>3 DEF Validate, Move, Unlocked, ListTypeOK
<1>6. Optimistic'
  BY <1>2, HeadPublished DEF IInv, ListTypeOK, Validate, Move, Optimistic, From, Hit
<1> QED BY <1>1, <1>2, <1>3, <1>4, <1>5, <1>6 DEF IInv

(* malloc finds a node for every add of the MaxWork operations. *)
LEMMA NodeThere ==
  ASSUME IInv, work < MaxWork
  PROVE  (CHOOSE a \in freed : \A b \in freed : a <= b) \in freed
<1> DEFINE R == {ss \in Nat \X Nat : ss[1] < ss[2]}
<1>1. freed \subseteq Nat /\ freed \subseteq Addresses /\ MaxWork \in Nat /\ work \in Nat
  BY ListAssumption DEF IInv, ListTypeOK, Heap, Addresses
<1>2. freed # {}
  <2>1. IsFiniteSet(freed)
    BY <1>1, AddressesFinite, FS_Subset
  <2>2. Cardinality(freed) # 0
    <3>1. Cardinality(freed) \in Nat /\ Cardinality(freed) >= MaxWork - work
      BY <2>1, FS_CardinalityType DEF IInv, Calls
    <3> QED BY <3>1, <1>1
  <2> QED BY <2>2, FS_EmptySet
<1>3. IsWellFoundedOn(R, Nat)
  BY NatLessThanWellFounded DEF OpToRel
<1>4. PICK x \in freed : \A y \in freed : ~(<<y, x>> \in R)
  <2> HIDE DEF R
  <2> QED BY <1>1, <1>2, <1>3, WFMin
<1>5. ASSUME NEW b \in freed
      PROVE  x <= b
  <2>1. b \in Nat /\ x \in Nat /\ ~(<<b, x>> \in R)
    BY <1>1, <1>4
  <2> QED BY <2>1
<1> QED BY <1>5

LEMMA CallStep ==
  ASSUME IInv, NEW t \in Callers, Call(t)
  PROVE  IInv'
<1>0. PICK a : a = CHOOSE c \in freed : \A b \in freed : c <= b
  OBVIOUS
<1>1. PICK o \in Operations :
        /\ op' = [op EXCEPT ![t] = o]
        /\ \/ o.type = "A" /\ node' = [node EXCEPT ![t] = a] /\ key' = [key EXCEPT ![a] = o.key]
              /\ freed' = freed \ {a}
           \/ o.type # "A" /\ UNCHANGED <<node, key, freed>>
  BY <1>0 DEF Call
<1>2. /\ lc[t] = "out" /\ work < MaxWork /\ work' = work + 1
      /\ lc' = [lc EXCEPT ![t] = lc'[t]] /\ lc'[t] \in {"whole", "lockPrev", "seek"}
      /\ (kind = "coarse" => lc'[t] = "whole") /\ (kind = "fine" => lc'[t] = "lockPrev")
      /\ (kind = "optimistic" => lc'[t] = "seek")
      /\ UNCHANGED <<kind, next, mutex, prev, curr, it, retval>>
  BY DEF Call, IInv, ListTypeOK
<1>3. o.key \in Keys /\ o.key \in Int /\ o \in Operations
  BY KeyBounds DEF Operations
<1>5. a \in freed /\ a \in Heap /\ a \in Addresses /\ a # head /\ a # tail
  BY <1>2, <1>0, NodeThere, AddressesFinite DEF IInv, ListTypeOK
<1>6. \/ o.type = "A" /\ node' = [node EXCEPT ![t] = a] /\ key' = [key EXCEPT ![a] = o.key]
         /\ freed' = freed \ {a}
      \/ o.type # "A" /\ UNCHANGED <<node, key, freed>>
  BY <1>1
<1>7. ListTypeOK'
  <2>1. work' \in 0..MaxWork
    BY <1>2, ListAssumption DEF IInv, ListTypeOK
  <2>2. lc' \in [Callers -> {"out", "whole", "seek", "lockPrev", "lockCurr", "walk", "validate",
                             "decide", "link", "unlock", "free"}]
    BY <1>2 DEF IInv, ListTypeOK
  <2> QED BY <1>1, <1>2, <1>3, <1>5, <1>6, <2>1, <2>2 DEF IInv, ListTypeOK
<1>8. Finished' = Finished /\ Reached' = Reached
  <2>1. UniqueLinks
    BY ListFacts
  <2>2. next' = next /\ lc[t] # "link" /\ lc'[t] # "link"
        /\ \A s \in Callers \ {t} : lc'[s] = lc[s] /\ node'[s] = node[s] /\ curr'[s] = curr[s]
    BY <1>2, <1>6 DEF IInv, ListTypeOK
  <2> QED BY <1>7, <2>1, <2>2, SameList DEF IInv
<1>9. a \notin Reached /\ \A s \in Callers : ~Own(s, a)
  BY <1>5 DEF IInv, Sorted, Owned
<1>10. \A s \in Callers \ {t} : /\ (Pending(s)' <=> Pending(s)) /\ (Doomed(s)' <=> Doomed(s))
                                /\ lc'[s] = lc[s] /\ op'[s] = op[s] /\ node'[s] = node[s]
  BY <1>1, <1>2, <1>6 DEF Pending, Doomed, IInv, ListTypeOK
<1>11. ~Doomed(t)' /\ ~Pending(t) /\ ~Doomed(t) /\ (Pending(t)' <=> o.type = "A") /\ op'[t] = o
  BY <1>1, <1>2 DEF Pending, Doomed, IInv, ListTypeOK, Before
<1>12. Calls'
  <2>1. Cardinality(freed') >= MaxWork - work'
    <3>1. IsFiniteSet(freed)
      BY AddressesFinite, FS_Subset DEF IInv, ListTypeOK
    <3>2. Cardinality(freed \ {a}) = Cardinality(freed) - 1 /\ Cardinality(freed) \in Nat
      BY <3>1, <1>5, FS_RemoveElement, FS_CardinalityType
    <3>3. Cardinality(freed) >= MaxWork - work /\ work \in Nat
      BY DEF IInv, Calls, ListTypeOK
    <3>4. MaxWork \in Nat
      BY ListAssumption
    <3>5. CASE freed' = freed
      BY <3>5, <1>2, <3>2, <3>3, <3>4
    <3>6. CASE freed' = freed \ {a}
      BY <3>6, <1>2, <3>2, <3>3, <3>4
    <3> QED BY <1>6, <3>5, <3>6
  <2> QED BY <1>2, <1>3, <1>10, <1>11, <2>1 DEF IInv, Calls
<1>13. Sorted'
  <2>1. \A b \in Reached : key'[b] = key[b] /\ b \in Addresses /\ Finished[b] \in Reached
    BY <1>6, <1>9, ListFacts DEF IInv, ListTypeOK
  <2>2. \A b \in Heap \ freed' : key'[b] \in Keys
    BY <1>3, <1>5, <1>6, AddressesFinite DEF IInv, ListTypeOK, Sorted
  <2>3. key'[head] = KEY_MIN /\ key'[tail] = KEY_MAX
    BY <1>5, <1>6, AddressesFinite DEF IInv, ListTypeOK, Sorted
  <2> QED BY <1>2, <1>6, <1>8, <2>1, <2>2, <2>3 DEF IInv, Sorted
<1>14. Owned'
  <2>1. ASSUME NEW s \in Callers, NEW b, Own(s, b)'
        PROVE  (s = t /\ b = a) \/ (s # t /\ Own(s, b) /\ b # a)
    <3>1. CASE s = t
      BY <3>1, <2>1, <1>6, <1>11 DEF Own, IInv, ListTypeOK
    <3>2. CASE s # t
      <4>1. Own(s, b)
        BY <3>2, <2>1, <1>2, <1>10 DEF Own
      <4> QED BY <3>2, <4>1, <1>9
    <3> QED BY <3>1, <3>2
  <2>2. ASSUME NEW s \in Callers, NEW b \in Addresses, Own(s, b)'
        PROVE  b \in Heap \ freed' /\ b \notin Reached' /\ \A u \in Callers : Own(u, b)' => u = s
    <3>1. b \in Heap \ freed' /\ b \notin Reached
      <4>1. CASE s = t
        BY <4>1, <2>1, <2>2, <1>5, <1>6, <1>9, <1>11 DEF Own
      <4>2. CASE s # t
        BY <4>2, <2>1, <2>2, <1>6 DEF IInv, Owned
      <4> QED BY <4>1, <4>2
    <3>2. ASSUME NEW u \in Callers, Own(u, b)'
          PROVE  u = s
      BY <3>2, <2>1, <2>2 DEF IInv, Owned
    <3> QED BY <3>1, <3>2, <1>8
  <2>3. ASSUME NEW s \in Callers, Pending(s)'
        PROVE  key'[node'[s]] = op'[s].key
    <3>1. CASE s = t
      BY <3>1, <2>3, <1>5, <1>6, <1>11 DEF IInv, ListTypeOK
    <3>2. CASE s # t
      <4>1. node[s] # a /\ Pending(s)
        BY <3>2, <2>3, <1>9, <1>10 DEF Own
      <4> QED BY <3>2, <4>1, <1>6, <1>10 DEF IInv, ListTypeOK, Owned
    <3> QED BY <3>1, <3>2
  <2> QED BY <2>2, <2>3 DEF Owned
<1>15. Locked'
  <2>1. ListTypeOK /\ Locked
    BY DEF IInv
  <2>2. \A b \in freed' : mutex'[b] = NULL
    BY <2>1, <1>2, <1>6 DEF Locked
  <2>3. Pending(t)' => mutex'[node'[t]] = NULL
    BY <2>1, <1>2, <1>5, <1>6, <1>11 DEF Locked, ListTypeOK
  <2> QED BY <2>1, <2>2, <2>3, <1>2, <1>10 DEF Locked, ListTypeOK
<1>16. Placed'
  <2>1. \A s \in Callers : /\ kind # "coarse" /\ lc[s] \in Before => prev[s] # a
                           /\ lc[s] = "decide" => curr[s] # a
                           /\ kind = "optimistic" => prev[s] # a /\ curr[s] # a
    BY <1>5, ListAssumption DEF IInv, Locked, Calls, Optimistic, Published, Before, ListTypeOK
  <2>2. prev[t] = head /\ curr[t] = head /\ KEY_MIN < o.key
    BY <1>2, <1>3, KeyBounds DEF IInv, Calls
  <2>3. \A b \in Addresses : b # a => key'[b] = key[b]
    BY <1>6 DEF IInv, ListTypeOK
  <2>4. key'[prev'[t]] < op'[t].key
    BY <2>2, <2>3, <1>2, <1>5, <1>11, AddressesFinite DEF IInv, Sorted
  <2>5. ListTypeOK /\ Placed
    BY DEF IInv
  <2> QED BY <2>1, <2>3, <2>4, <2>5, <1>2, <1>8, <1>10 DEF ListTypeOK, Placed
<1>17. Optimistic'
  <2> SUFFICES ASSUME kind = "optimistic" PROVE Optimistic'
    BY <1>2 DEF Optimistic
  <2>1. \A b : Published(b)' <=> Published(b)
    <3>1. CASE o.type = "A"
      <4>1. \A b : Published(b)' => Published(b)
        BY <3>1, <1>5, <1>6, <1>10, <1>11 DEF Published, IInv, ListTypeOK
      <4>2. \A b : Published(b) => Published(b)'
        BY <3>1, <1>5, <1>6, <1>10, <1>11 DEF Published, IInv, ListTypeOK
      <4> QED BY <4>1, <4>2
    <3>2. CASE o.type # "A"
      BY <3>2, <1>6, <1>10, <1>11 DEF Published
    <3> QED BY <3>1, <3>2
  <2>2. ~Published(a)
    BY <1>5 DEF Published
  <2>3. \A b \in Addresses : b = tail \/ key'[b] < key'[next'[b]]
    BY <2>2, <1>2, <1>3, <1>5, <1>6, KeyBounds DEF IInv, ListTypeOK, Optimistic, Sorted
  <2> QED BY <2>1, <2>3, <1>2, <1>8, <1>10 DEF IInv, ListTypeOK, Optimistic
<1> QED BY <1>7, <1>12, <1>13, <1>14, <1>15, <1>16, <1>17 DEF IInv

LEMMA UnlockStep ==
  ASSUME IInv, NEW t \in Callers, Unlock(t)
  PROVE  IInv'
<1>1. /\ lc[t] = "unlock" /\ lc' = [lc EXCEPT ![t] = lc'[t]] /\ UNCHANGED <<kind, work, key, next, freed>>
      /\ \/ lc'[t] = "free" /\ Doomed(t) /\ UNCHANGED <<op, retval, prev, curr, it, node>>
         \/ lc'[t] = "out" /\ ~Doomed(t) /\ Leave(t)
  BY DEF Unlock, Move, Doomed, IInv, ListTypeOK
<1>2. ListTypeOK'
  <2>1. mutex' \in [Addresses -> Callers \cup {NULL, "garbage"}]
    BY DEF Unlock, Unlocked, IInv, ListTypeOK
  <2>2. lc' \in [Callers -> {"out", "whole", "seek", "lockPrev", "lockCurr", "walk", "validate",
                             "decide", "link", "unlock", "free"}]
    BY <1>1 DEF IInv, ListTypeOK
  <2>3. CASE UNCHANGED <<op, retval, prev, curr, it, node>>
    BY <1>1, <2>1, <2>2, <2>3 DEF IInv, ListTypeOK
  <2>4. CASE Leave(t)
    BY <1>1, <2>1, <2>2, <2>4, AddressesFinite DEF IInv, ListTypeOK, Leave
  <2> QED BY <1>1, <2>3, <2>4
<1>3. \A s \in Callers \ {t} :
        /\ lc'[s] = lc[s] /\ op'[s] = op[s] /\ node'[s] = node[s] /\ retval'[s] = retval[s]
        /\ curr'[s] = curr[s] /\ prev'[s] = prev[s] /\ it'[s] = it[s]
  BY <1>1 DEF IInv, ListTypeOK, Leave
<1>4. Finished' = Finished /\ Reached' = Reached
  <2>1. next' = next /\ lc[t] # "link" /\ lc'[t] # "link" /\ UniqueLinks
    BY <1>1, ListFacts
  <2> QED BY <1>2, <1>3, <2>1, SameList DEF IInv
<1>5. \A s \in Callers \ {t} : (Pending(s)' <=> Pending(s)) /\ (Doomed(s)' <=> Doomed(s))
  BY <1>1, <1>3 DEF Pending, Doomed
<1>6. ~Pending(t) /\ ~Pending(t)' /\ (lc'[t] = "free" => Doomed(t) /\ Doomed(t)')
      /\ (lc'[t] = "out" => ~Doomed(t)')
  BY <1>1 DEF Pending, Doomed, Before
<1>7. ASSUME NEW s \in Callers, NEW a, Own(s, a)'
      PROVE  Own(s, a)
  <2>1. CASE s = t
    BY <2>1, <1>7, <1>1, <1>6 DEF Own
  <2>2. CASE s # t
    BY <2>2, <1>7, <1>3, <1>5 DEF Own
  <2> QED BY <2>1, <2>2
<1>8. Calls'
  <2>1. CASE lc'[t] = "free" /\ Doomed(t) /\ UNCHANGED <<op, retval, prev, curr, it, node>>
    BY <2>1, <1>1, <1>3, <1>5, <1>6 DEF IInv, Calls, Doomed
  <2>2. CASE lc'[t] = "out" /\ ~Doomed(t) /\ Leave(t)
    <3>1. prev'[t] = head /\ curr'[t] = head /\ it'[t] = head
      BY <2>2 DEF Leave, IInv, ListTypeOK
    <3> QED BY <2>2, <3>1, <1>1, <1>3, <1>5, <1>6 DEF IInv, Calls
  <2> QED BY <1>1, <2>1, <2>2
<1>9. Sorted'
  BY <1>1, <1>4 DEF IInv, Sorted
<1>10. Owned'
  <2>1. \A s \in Callers : Pending(s)' => key'[node'[s]] = op'[s].key
    BY <1>1, <1>3, <1>5, <1>6 DEF IInv, Owned
  <2> QED BY <1>1, <1>4, <1>7, <2>1 DEF IInv, Owned
<1>11. Placed'
  BY <1>1, <1>3, <1>4 DEF IInv, Placed, ListTypeOK, Before
<1>12. Locked'
  <2>1. ListTypeOK /\ Locked /\ NULL \notin Callers
    BY ListAssumption DEF IInv
  <2>2. CASE kind = "coarse"
    <3>1. Doomed(t) => curr[t] \in Heap
      BY DEF IInv, Owned, Own, ListTypeOK
    <3> QED BY <2>1, <2>2, <3>1, <1>1, <1>3, <1>5, <1>6 DEF Locked, ListTypeOK, Unlock, Unlocked
  <2>3. CASE kind # "coarse"
    <3>1. mutex' = [mutex EXCEPT ![prev[t]] = NULL, ![curr[t]] = NULL]
      BY <2>3 DEF Unlock, Unlocked
    <3>2. \A a \in Addresses : mutex'[a] = IF a = prev[t] \/ a = curr[t] THEN NULL ELSE mutex[a]
      BY <3>1, <2>1 DEF ListTypeOK
    <3>3. mutex[prev[t]] = t /\ mutex[curr[t]] = t
      BY <2>1, <2>3, <1>1 DEF Locked
    <3>4. \A a \in freed' : mutex'[a] = NULL
      BY <2>1, <3>2, <1>1, AddressesFinite DEF Locked, ListTypeOK
    <3> QED BY <2>1, <2>3, <3>2, <3>3, <3>4, <1>1, <1>3, <1>5, <1>6 DEF Locked, ListTypeOK
  <2> QED BY <2>2, <2>3
<1>13. Optimistic'
  <2> SUFFICES ASSUME kind = "optimistic" PROVE Optimistic'
    BY <1>1 DEF Optimistic
  <2>1. \A a : Published(a)' <=> Published(a)
    BY <1>1, <1>3, <1>5, <1>6 DEF Published
  <2>2. Published(head) /\ lc'[t] # "validate"
    BY <1>1, HeadPublished
  <2> QED BY <2>1, <2>2, <1>1, <1>3, <1>4 DEF IInv, ListTypeOK, Optimistic, Leave
<1> QED BY <1>2, <1>8, <1>9, <1>10, <1>11, <1>12, <1>13 DEF IInv

LEMMA FreeStep ==
  ASSUME IInv, NEW t \in Callers, Free(t)
  PROVE  IInv'
<1>1. /\ lc[t] = "free" /\ lc' = [lc EXCEPT ![t] = "out"] /\ freed' = freed \cup {curr[t]} /\ Leave(t)
      /\ UNCHANGED <<kind, work, key, next, mutex>>
  BY DEF Free, Move
<1>2. /\ Doomed(t) /\ curr[t] \in Heap /\ curr[t] \notin freed /\ curr[t] \notin Reached
      /\ \A s \in Callers : Own(s, curr[t]) => s = t
  BY <1>1 DEF IInv, Calls, Owned, Own, ListTypeOK
<1>3. ListTypeOK'
  BY <1>1, <1>2, AddressesFinite DEF IInv, ListTypeOK, Leave
<1>4. \A s \in Callers \ {t} :
        /\ lc'[s] = lc[s] /\ op'[s] = op[s] /\ node'[s] = node[s] /\ retval'[s] = retval[s]
        /\ curr'[s] = curr[s] /\ prev'[s] = prev[s] /\ it'[s] = it[s]
  BY <1>1 DEF IInv, ListTypeOK, Leave
<1>5. lc'[t] = "out" /\ prev'[t] = head /\ curr'[t] = head /\ it'[t] = head
  BY <1>1 DEF IInv, ListTypeOK, Leave
<1>6. Finished' = Finished /\ Reached' = Reached
  <2>1. next' = next /\ lc[t] # "link" /\ lc'[t] # "link" /\ UniqueLinks
    BY <1>1, <1>5, ListFacts
  <2> QED BY <1>3, <1>4, <2>1, SameList DEF IInv
<1>7. \A s \in Callers \ {t} : (Pending(s)' <=> Pending(s)) /\ (Doomed(s)' <=> Doomed(s))
  BY <1>1, <1>4 DEF Pending, Doomed
<1>8. ~Pending(t)' /\ ~Doomed(t)'
  BY <1>5 DEF Pending, Doomed, Before
<1>9. ASSUME NEW s \in Callers, NEW a, Own(s, a)'
      PROVE  Own(s, a) /\ a # curr[t]
  <2>1. s # t
    BY <1>8, <1>9 DEF Own
  <2>2. Own(s, a)
    BY <2>1, <1>9, <1>4, <1>7 DEF Own
  <2> QED BY <2>1, <2>2, <1>2
<1>10. Calls'
  <2>1. Cardinality(freed') >= MaxWork - work'
    <3>1. IsFiniteSet(freed)
      BY AddressesFinite, FS_Subset DEF IInv, ListTypeOK
    <3>2. Cardinality(freed') = Cardinality(freed) + 1 /\ Cardinality(freed) \in Nat
      BY <3>1, <1>1, <1>2, FS_AddElement, FS_CardinalityType
    <3>3. Cardinality(freed) >= MaxWork - work /\ work \in Nat /\ MaxWork \in Nat
      BY ListAssumption DEF IInv, Calls, ListTypeOK
    <3> QED BY <1>1, <3>2, <3>3
  <2> QED BY <1>1, <1>4, <1>5, <1>7, <2>1 DEF IInv, Calls
<1>11. Sorted'
  BY <1>1, <1>2, <1>6 DEF IInv, Sorted
<1>12. Owned'
  <2>1. \A s \in Callers : Pending(s)' => key'[node'[s]] = op'[s].key
    BY <1>1, <1>4, <1>7, <1>8 DEF IInv, Owned
  <2>2. ASSUME NEW s \in Callers, NEW a \in Addresses, Own(s, a)'
        PROVE  a \in Heap \ freed' /\ a \notin Reached' /\ \A u \in Callers : Own(u, a)' => u = s
    BY <2>2, <1>1, <1>6, <1>9 DEF IInv, Owned
  <2> QED BY <2>1, <2>2 DEF Owned
<1>13. Placed'
  BY <1>1, <1>4, <1>5, <1>6 DEF IInv, Placed, ListTypeOK, Before
<1>14. Locked'
  BY <1>1, <1>4, <1>5, <1>7, <1>8 DEF IInv, Locked
<1>15. Optimistic'
  BY <1>1, <1>2 DEF Doomed, Optimistic
<1> QED BY <1>3, <1>10, <1>11, <1>12, <1>13, <1>14, <1>15 DEF IInv

LEMMA LinkStep ==
  ASSUME IInv, NEW t \in Callers, Link(t)
  PROVE  IInv' /\ Finished' = Finished /\ Reached' = Reached
<1>1. /\ lc[t] = "link" /\ lc' = [lc EXCEPT ![t] = "unlock"]
      /\ next' = [next EXCEPT ![node[t]] = curr[t]]
      /\ UNCHANGED <<kind, work, key, mutex, freed, op, prev, curr, it, node, retval>>
  BY DEF Link, Move
<1>2. kind = "fine" /\ op[t].type = "A" /\ node[t] \in Heap /\ mutex[node[t]] = NULL
  BY <1>1 DEF IInv, ListTypeOK, Calls, Placed, Locked
<1>3. ListTypeOK'
  BY <1>1 DEF IInv, ListTypeOK
<1>4. lc'[t] = "unlock" /\ \A s \in Callers \ {t} : lc'[s] = lc[s]
  BY <1>1 DEF IInv, ListTypeOK
<1>5. UniqueLinks /\ UniqueLinks' /\ FinishedIs /\ FinishedIs'
  <2>1. UniqueLinks /\ FinishedIs
    BY ListFacts
  <2>2. UniqueLinks'
    BY <2>1, <1>1, <1>4 DEF UniqueLinks
  <2>3. (ListTypeOK /\ UniqueLinks => FinishedIs)'
    BY FinishedFacts, PTL
  <2> QED BY <2>1, <2>2, <2>3, <1>3
<1>6. Finished' = Finished /\ Reached' = Reached
  <2>1. ASSUME NEW a \in Addresses
        PROVE  Finished'[a] = Finished[a]
    <3>1. CASE a = node[t]
      <4>1. ~Linking(a)'
        BY <3>1, <1>1, <1>4, <1>5 DEF Linking, UniqueLinks
      <4>2. Finished'[a] = next'[a] /\ Finished[a] = curr[t]
        BY <4>1, <3>1, <1>1, <1>5 DEF FinishedIs
      <4> QED BY <4>2, <3>1, <1>1 DEF IInv, ListTypeOK
    <3>2. CASE a # node[t] /\ Linking(a)
      <4>1. PICK s \in Callers : lc[s] = "link" /\ node[s] = a
        BY <3>2 DEF Linking
      <4>2. lc'[s] = "link" /\ node'[s] = a /\ curr'[s] = curr[s]
        BY <3>2, <4>1, <1>1, <1>4
      <4> QED BY <4>1, <4>2, <1>5 DEF FinishedIs
    <3>3. CASE a # node[t] /\ ~Linking(a)
      <4>1. ~Linking(a)'
        BY <3>3, <1>1, <1>4 DEF Linking
      <4> QED BY <3>3, <4>1, <1>1, <1>5 DEF FinishedIs, IInv, ListTypeOK
    <3> QED BY <3>1, <3>2, <3>3
  <2>2. Finished' = Finished
    BY <2>1, <1>5 DEF FinishedIs
  <2> QED BY <2>2 DEF Reached
<1>7. \A s \in Callers : (Pending(s)' <=> Pending(s)) /\ (Doomed(s)' <=> Doomed(s))
  <2>1. ~Pending(t) /\ ~Pending(t)' /\ ~Doomed(t) /\ ~Doomed(t)'
    BY <1>1, <1>2, <1>4 DEF Pending, Doomed, Before
  <2>2. \A s \in Callers \ {t} : (Pending(s)' <=> Pending(s)) /\ (Doomed(s)' <=> Doomed(s))
    BY <1>1, <1>4 DEF Pending, Doomed
  <2> QED BY <2>1, <2>2
<1>8. Calls'
  BY <1>1, <1>2, <1>4, <1>7 DEF IInv, Calls
<1>9. Sorted'
  <2>1. next'[tail] = next[tail]
    BY <1>1, <1>2, AddressesFinite DEF IInv, ListTypeOK
  <2> QED BY <2>1, <1>1, <1>6 DEF IInv, Sorted
<1>10. Owned'
  <2>1. \A s \in Callers : \A a : Own(s, a)' <=> Own(s, a)
    BY <1>1, <1>7 DEF Own
  <2>2. \A s \in Callers : Pending(s)' => key'[node'[s]] = op'[s].key
    BY <1>1, <1>7 DEF IInv, Owned
  <2> QED BY <2>1, <2>2, <1>1, <1>6 DEF IInv, Owned
<1>11. Locked'
  BY <1>1, <1>4, <1>7 DEF IInv, Locked
<1>12. Placed'
  <2>1. ASSUME NEW s \in Callers, s # t, lc[s] \in {"lockCurr", "walk", "decide", "link"}
        PROVE  next'[prev'[s]] = next[prev[s]]
    <3>1. mutex[prev[s]] = s /\ s # NULL
      BY <2>1, <1>2, ListAssumption DEF IInv, Locked
    <3> QED BY <3>1, <1>1, <1>2 DEF IInv, ListTypeOK
  <2>2. ListTypeOK /\ Placed
    BY DEF IInv
  <2> QED BY <2>1, <2>2, <1>1, <1>2, <1>4, <1>6 DEF Placed, Before
<1>13. Optimistic'
  BY <1>1, <1>2 DEF Optimistic
<1> QED BY <1>3, <1>6, <1>8, <1>9, <1>10, <1>11, <1>12, <1>13 DEF IInv

-----------------------------------------------------------------------------
(* The step at which an operation takes effect *)

(* It is between two neighbours that only t can change, and they are the   *)
(* place of its key.                                                       *)
Takes(t, p, c) ==
  /\ lc[t] \in {"whole", "decide"} /\ (lc[t] = "whole" <=> kind = "coarse")
  /\ p \in Reached /\ c = next[p] /\ ~Linking(p) /\ ~Linking(c)
  /\ key[p] < op[t].key /\ op[t].key <= key[c]
  /\ kind # "coarse" => mutex[p] = t /\ mutex[c] = t
  /\ Effect(t, p, c) /\ prev' = [prev EXCEPT ![t] = p] /\ curr' = [curr EXCEPT ![t] = c]
  /\ UNCHANGED <<kind, work, key, mutex, freed, op, it, node>>

LEMMA KeyFacts ==
  ASSUME IInv
  PROVE  /\ \A a \in Addresses : key[a] \in Int
         /\ \A t \in Callers : lc[t] # "out" =>
              /\ op[t].key \in Keys /\ op[t].key \in Int
              /\ key[head] < op[t].key /\ op[t].key < key[tail]
<1>1. \A a \in Addresses : key[a] \in Int
  BY KeyBounds DEF IInv, ListTypeOK
<1>2. ASSUME NEW t \in Callers, lc[t] # "out"
      PROVE  op[t].key \in Keys
  BY <1>2 DEF IInv, Calls, Operations
<1> QED BY <1>1, <1>2, KeyBounds DEF IInv, Sorted

LEMMA DecideTakes ==
  ASSUME IInv, NEW t \in Callers, Decide(t)
  PROVE  Takes(t, prev[t], curr[t])
<1>1. kind # "coarse" /\ lc[t] = "decide"
  BY DEF Decide, IInv, Calls
<1>2. /\ prev[t] \in Reached /\ curr[t] = next[prev[t]] /\ mutex[prev[t]] = t /\ mutex[curr[t]] = t
      /\ key[prev[t]] < op[t].key /\ op[t].key <= key[curr[t]]
  <2>1. key[curr[t]] >= op[t].key /\ key[curr[t]] \in Int /\ op[t].key \in Int
    BY <1>1, KeyFacts DEF IInv, ListTypeOK, Placed
  <2> QED BY <2>1, <1>1 DEF IInv, Placed, Locked, Before
<1>3. ~Linking(prev[t]) /\ ~Linking(curr[t])
  BY <1>2, ListAssumption DEF Linking, IInv, Locked
<1>4. prev' = [prev EXCEPT ![t] = prev[t]] /\ curr' = [curr EXCEPT ![t] = curr[t]]
  BY DEF Decide, IInv, ListTypeOK
<1> QED BY <1>1, <1>2, <1>3, <1>4 DEF Takes, Decide

LEMMA WholeTakes ==
  ASSUME IInv, NEW t \in Callers, Whole(t)
  PROVE  Takes(t, Place(t), next[Place(t)])
<1>1. kind = "coarse" /\ lc[t] = "whole" /\ op[t].key \in Keys
  BY DEF Whole, IInv, ListTypeOK, Calls, Operations
<1>2. Finished = next /\ \A a : ~Linking(a)
  BY <1>1, ListFacts DEF Linking
<1>3. PICK x : x = op[t].key
  OBVIOUS
<1>4. x \in Int /\ key[head] < x /\ tail \in Reached /\ x <= key[tail]
  BY <1>1, <1>3, KeyBounds DEF IInv, Sorted
<1>5. PICK q \in Reached : key[q] < x /\ \A b \in Reached : key[b] < x => key[b] <= key[q]
  BY <1>4, ListFacts, OrderedPlace DEF Reached
<1>6. PICK p : p = Place(t)
  OBVIOUS
<1>7. p \in Reached /\ key[p] < x /\ \A b \in Reached : key[b] < x => key[b] <= key[p]
  BY <1>3, <1>5, <1>6 DEF Place
<1>8. x <= key[next[p]]
  <2>1. p # tail
    BY <1>1, <1>3, <1>7, KeyFacts, AddressesFinite
  <2>2. key[p] \in Int /\ next[p] \in Reached /\ key[next[p]] \in Int /\ key[p] < key[next[p]]
    BY <1>2, <1>7, <2>1, ListFacts DEF Ordered, IInv, Sorted
  <2> QED BY <2>2, <1>4, <1>7
<1>9. prev'[t] = p /\ curr'[t] = next[p]
  BY <1>6 DEF Whole, IInv, ListTypeOK
<1> QED BY <1>1, <1>2, <1>3, <1>6, <1>7, <1>8, <1>9 DEF Takes, Whole

LEMMA TakesTypeOK ==
  ASSUME IInv, NEW t \in Callers, NEW p, NEW c, Takes(t, p, c)
  PROVE  /\ ListTypeOK' /\ p \in Addresses /\ c \in Addresses /\ c \in Reached
         /\ p # tail /\ p # c /\ Finished[p] = c /\ Finished[c] = next[c]
         /\ op[t] \in Operations /\ op[t].key \in Keys /\ key[p] \in Int /\ key[c] \in Int
         /\ op[t].type = "A" => Pending(t) /\ node[t] \in Heap \ freed /\ node[t] \notin Reached
<1>1. p \in Addresses /\ c \in Addresses /\ Finished[p] = c /\ c \in Reached /\ Finished[c] = next[c]
  BY ListFacts DEF Takes, FinishedIs, IInv, ListTypeOK
<1>2. op[t] \in Operations /\ op[t].key \in Keys
  BY DEF IInv, Calls, Takes, Operations
<1>3. key[p] \in Int /\ key[c] \in Int /\ p # tail
  <2>1. key[p] < op[t].key /\ lc[t] # "out"
    BY DEF Takes
  <2> QED BY <2>1, <1>1, KeyFacts, AddressesFinite
<1>4. p # c
  <2>1. key[p] < op[t].key /\ op[t].key <= key[c] /\ op[t].key \in Int
    BY KeyFacts DEF Takes
  <2> QED BY <2>1, <1>3
<1>5. op[t].type = "A" => Pending(t) /\ node[t] \in Heap \ freed /\ node[t] \notin Reached
  BY DEF Pending, Before, Takes, IInv, Owned, Own, ListTypeOK
<1>6. next' \in [Addresses -> Addresses] /\ retval' \in [Callers -> BOOLEAN]
      /\ lc' \in [Callers -> {"out", "whole", "seek", "lockPrev", "lockCurr", "walk", "validate",
                              "decide", "link", "unlock", "free"}]
  BY <1>1 DEF Takes, Effect, IInv, ListTypeOK
<1> QED BY <1>1, <1>2, <1>3, <1>4, <1>5, <1>6 DEF Takes, IInv, ListTypeOK

(* What it does to the list, once a new node is linked. *)
LEMMA TakesList ==
  ASSUME IInv, NEW t \in Callers, NEW p, NEW c, Takes(t, p, c)
  PROVE  /\ UniqueLinks'
         /\ op[t].type = "A" /\ key[c] # op[t].key =>
              /\ Finished' = [Finished EXCEPT ![p] = node[t], ![node[t]] = c]
              /\ Reached' = Reached \cup {node[t]}
         /\ op[t].type = "R" /\ key[c] = op[t].key =>
              /\ Finished' = [Finished EXCEPT ![p] = Finished[c]]
              /\ Reached' = Reached \ {c} /\ c \in Heap \ freed
         /\ ~(op[t].type = "A" /\ key[c] # op[t].key) /\ ~(op[t].type = "R" /\ key[c] = op[t].key) =>
              Finished' = Finished /\ Reached' = Reached /\ next' = next
<1>0. PICK n : n = node[t]
  OBVIOUS
<1> DEFINE adds == op[t].type = "A" /\ key[c] # op[t].key
           removes == op[t].type = "R" /\ key[c] = op[t].key
<1>1. /\ ListTypeOK' /\ p \in Addresses /\ c \in Addresses /\ c \in Reached
      /\ p # tail /\ p # c /\ Finished[p] = c /\ Finished[c] = next[c]
      /\ op[t] \in Operations /\ op[t].key \in Keys /\ key[p] \in Int /\ key[c] \in Int
      /\ (op[t].type = "A" => Pending(t) /\ n \in Heap \ freed /\ n \notin Reached)
  BY <1>0, TakesTypeOK
<1>2. UniqueLinks /\ FinishedIs /\ Ordered(Finished, key) /\ p \in Reached
      /\ (kind # "fine" => \A s \in Callers : lc[s] # "link")
  BY ListFacts DEF Takes
<1>3. /\ lc'[t] = (IF adds /\ kind = "fine" THEN "link" ELSE "unlock") /\ lc[t] # "link"
      /\ \A s \in Callers \ {t} : lc'[s] = lc[s] /\ curr'[s] = curr[s]
      /\ node' = node /\ curr'[t] = c
  BY DEF Takes, Effect, IInv, ListTypeOK
<1>4. \A s \in Callers : lc[s] = "link" => node[s] \in Reached /\ node[s] # p /\ node[s] # c
  BY DEF IInv, Placed, Takes, Linking
<1>5. UniqueLinks'
  BY <1>0, <1>1, <1>2, <1>3, <1>4 DEF UniqueLinks
<1>6. FinishedIs'
  <2>1. (ListTypeOK /\ UniqueLinks => FinishedIs)'
    BY FinishedFacts, PTL
  <2> QED BY <1>1, <1>5, <2>1
<1>7. \A a \in Addresses : a # n => (Linking(a)' <=> Linking(a))
  BY <1>0, <1>3 DEF Linking
<1>8. /\ adds => n \in Addresses /\ n # p /\ n # c /\ next'[p] = n /\ (kind # "fine" => next'[n] = c)
                 /\ \A a \in Addresses : a # p /\ a # n => next'[a] = next[a]
      /\ removes => next'[p] = next[c] /\ \A a \in Addresses : a # p => next'[a] = next[a]
      /\ ~adds /\ ~removes => next' = next
  <2>1. n \in Addresses /\ (adds => n # p /\ n # c)
    BY <1>0, <1>1, <1>2 DEF IInv, ListTypeOK
  <2> QED BY <1>0, <1>1, <2>1 DEF Takes, Effect, IInv, ListTypeOK
<1>9. ASSUME NEW a \in Addresses, a # n \/ ~adds
      PROVE  Finished'[a] = IF Linking(a) THEN Finished[a] ELSE next'[a]
  <2>1. CASE Linking(a)
    <3>1. PICK s \in Callers : lc[s] = "link" /\ node[s] = a
      BY <2>1 DEF Linking
    <3>2. lc'[s] = "link" /\ node'[s] = a /\ curr'[s] = curr[s]
      BY <3>1, <1>3
    <3> QED BY <2>1, <3>1, <3>2, <1>2, <1>6 DEF FinishedIs
  <2>2. CASE ~Linking(a)
    <3>1. ~Linking(a)'
      BY <2>2, <1>0, <1>3, <1>9 DEF Linking
    <3> QED BY <2>2, <3>1, <1>6 DEF FinishedIs
  <2> QED BY <2>1, <2>2
<1>10. ASSUME adds
       PROVE  Finished' = [Finished EXCEPT ![p] = n, ![n] = c] /\ Reached' = Reached \cup {n}
  <2>1. Finished'[n] = c
    <3>1. CASE kind = "fine"
      BY <3>1, <1>0, <1>3, <1>6, <1>10 DEF FinishedIs
    <3>2. CASE kind # "fine"
      <4>1. ~Linking(n)'
        BY <3>2, <1>2, <1>3 DEF Linking
      <4>2. next'[n] = c /\ n \in Addresses
        BY <3>2, <1>8, <1>10
      <4>3. Finished'[n] = next'[n]
        BY <4>1, <4>2, <1>6 DEF FinishedIs
      <4> QED BY <4>2, <4>3
    <3> QED BY <3>1, <3>2
  <2>2. ~Linking(p)
    BY DEF Takes
  <2>3. \A a \in Addresses : a # p /\ a # n => Finished'[a] = Finished[a]
    BY <1>2, <1>8, <1>9, <1>10 DEF FinishedIs
  <2>4. Finished' = [Finished EXCEPT ![p] = n, ![n] = c]
    BY <2>1, <2>2, <2>3, <1>1, <1>2, <1>6, <1>8, <1>9, <1>10 DEF FinishedIs
  <2>5. ReachedBy(Finished') = ReachedBy(Finished) \cup {n}
    <3>1. /\ Finished \in [Addresses -> Addresses] /\ Finished' \in [Addresses -> Addresses]
          /\ p \in ReachedBy(Finished) /\ n \in Addresses /\ n \notin ReachedBy(Finished)
          /\ Finished'[p] = n /\ Finished'[n] = Finished[p]
          /\ \A a \in Addresses : a # p /\ a # n => Finished'[a] = Finished[a]
      BY <2>1, <2>2, <2>3, <1>1, <1>2, <1>6, <1>8, <1>9, <1>10 DEF FinishedIs, Reached
    <3>2. PICK f, g : f = Finished /\ g = Finished'
      OBVIOUS
    <3>3. /\ f \in [Addresses -> Addresses] /\ g \in [Addresses -> Addresses]
          /\ p \in ReachedBy(f) /\ n \in Addresses /\ n \notin ReachedBy(f)
          /\ g[p] = n /\ g[n] = f[p] /\ \A a \in Addresses : a # p /\ a # n => g[a] = f[a]
      BY <3>1, <3>2
    <3>4. ReachedBy(g) = ReachedBy(f) \cup {n}
      BY <3>3, ReachedAdd
    <3> QED BY <3>2, <3>4
  <2> QED BY <2>4, <2>5 DEF Reached
<1>11. ASSUME removes
       PROVE  /\ Finished' = [Finished EXCEPT ![p] = Finished[c]]
              /\ Reached' = Reached \ {c} /\ c \in Heap \ freed
  <2>1. c # head /\ c # tail /\ c \in Heap \ freed
    BY <1>1, <1>11, KeyBounds, AddressesFinite DEF IInv, Sorted
  <2>2. ~Linking(p) /\ ~adds
    BY <1>11 DEF Takes
  <2>3. \A a \in Addresses : a # p => Finished'[a] = Finished[a]
    BY <2>2, <1>2, <1>8, <1>9, <1>11 DEF FinishedIs
  <2>4. Finished' = [Finished EXCEPT ![p] = Finished[c]]
    BY <2>2, <2>3, <1>1, <1>2, <1>6, <1>8, <1>9, <1>11 DEF FinishedIs
  <2>5. ReachedBy(Finished') = ReachedBy(Finished) \ {c}
    <3>1. /\ Finished' \in [Addresses -> Addresses] /\ p \in ReachedBy(Finished) /\ p # tail
          /\ Finished[p] # tail /\ Finished[p] # head
          /\ Finished' = [Finished EXCEPT ![p] = Finished[Finished[p]]]
      BY <2>1, <2>4, <1>1, <1>2, <1>6 DEF FinishedIs, Reached
    <3> QED BY <3>1, <1>1, <1>2, ReachedRemove
  <2> QED BY <2>1, <2>4, <2>5 DEF Reached
<1>12. ASSUME ~adds, ~removes
       PROVE  Finished' = Finished /\ Reached' = Reached
  <2>1. \A a \in Addresses : Finished'[a] = Finished[a]
    BY <1>2, <1>8, <1>9, <1>12 DEF FinishedIs
  <2>2. Finished' = Finished
    BY <2>1, <1>2, <1>6 DEF FinishedIs
  <2> QED BY <2>2 DEF Reached
<1> QED BY <1>0, <1>5, <1>8, <1>10, <1>11, <1>12

LEMMA TakesStep ==
  ASSUME IInv, NEW t \in Callers, NEW p, NEW c, Takes(t, p, c)
  PROVE  IInv'
<1>0. PICK n : n = node[t]
  OBVIOUS
<1> DEFINE adds == op[t].type = "A" /\ key[c] # op[t].key
           removes == op[t].type = "R" /\ key[c] = op[t].key
<1>1. /\ ListTypeOK' /\ p \in Addresses /\ c \in Addresses /\ c \in Reached
      /\ p # tail /\ p # c /\ Finished[p] = c /\ Finished[c] = next[c]
      /\ op[t] \in Operations /\ op[t].key \in Keys /\ key[p] \in Int /\ key[c] \in Int
      /\ (op[t].type = "A" => Pending(t) /\ n \in Heap \ freed /\ n \notin Reached)
  BY <1>0, TakesTypeOK
<1>2. /\ UniqueLinks'
      /\ adds => Finished' = [Finished EXCEPT ![p] = n, ![n] = c] /\ Reached' = Reached \cup {n}
      /\ removes => /\ Finished' = [Finished EXCEPT ![p] = Finished[c]]
                    /\ Reached' = Reached \ {c} /\ c \in Heap \ freed
      /\ ~adds /\ ~removes => Finished' = Finished /\ Reached' = Reached /\ next' = next
  BY <1>0, TakesList
<1>3. /\ p \in Reached /\ key[p] < op[t].key /\ op[t].key <= key[c] /\ c = next[p]
      /\ op[t].key \in Int /\ lc[t] \in {"whole", "decide"}
      /\ (kind # "coarse" => mutex[p] = t /\ mutex[c] = t /\ lc[t] = "decide")
      /\ ~Linking(p) /\ ~Linking(c) /\ UNCHANGED <<kind, work, key, mutex, freed, op, it, node>>
  BY KeyFacts DEF Takes
<1>4. /\ lc'[t] = (IF adds /\ kind = "fine" THEN "link" ELSE "unlock")
      /\ prev'[t] = p /\ curr'[t] = c
      /\ \A s \in Callers \ {t} : /\ lc'[s] = lc[s] /\ curr'[s] = curr[s] /\ prev'[s] = prev[s]
                                  /\ retval'[s] = retval[s]
  BY DEF Takes, Effect, IInv, ListTypeOK
<1>5. ~Doomed(t) /\ ~Pending(t)' /\ (Doomed(t)' => removes /\ kind # "optimistic")
  <2>1. op[t].type = "R" => retval'[t] = (key[c] = op[t].key)
    BY DEF Takes, Effect, IInv, ListTypeOK
  <2> QED BY <2>1, <1>3, <1>4 DEF Doomed, Pending, Before
<1>6. \A s \in Callers \ {t} : (Pending(s)' <=> Pending(s)) /\ (Doomed(s)' <=> Doomed(s))
  BY <1>3, <1>4 DEF Pending, Doomed
<1>7. /\ adds => /\ n \in Addresses /\ n # p /\ n # c /\ n # tail /\ next'[p] = n
                 /\ (kind # "fine" => next'[n] = c) /\ key[n] = op[t].key
                 /\ \A a \in Addresses : a # p /\ a # n => next'[a] = next[a]
      /\ removes => next'[p] = next[c] /\ \A a \in Addresses : a # p => next'[a] = next[a]
  <2>1. adds => n \in Addresses /\ n # p /\ n # c /\ n # tail
    BY <1>0, <1>1, <1>3, AddressesFinite DEF IInv, ListTypeOK
  <2>2. adds => key[n] = op[t].key
    BY <1>0, <1>1 DEF IInv, Owned
  <2> QED BY <1>0, <1>1, <2>1, <2>2 DEF Takes, Effect, IInv, ListTypeOK
<1>8. Calls'
  <2>1. lc'[t] \in {"link", "unlock"} /\ (lc'[t] = "link" => kind = "fine" /\ op'[t].type = "A")
    BY <1>3, <1>4
  <2>2. lc[t] # "out" /\ (lc[t] = "whole" <=> kind = "coarse")
    BY DEF Takes
  <2> QED BY <1>3, <1>4, <1>6, <2>1, <2>2 DEF IInv, Calls
<1>9. removes => c # tail
  BY <1>2, AddressesFinite
<1>10. Sorted'
  <2>1. next'[tail] = tail
    BY <1>1, <1>2, <1>7, AddressesFinite DEF IInv, ListTypeOK, Sorted
  <2>2. tail \in Reached' /\ Reached' \cap freed' = {}
    BY <1>1, <1>2, <1>3, <1>9 DEF IInv, Sorted
  <2>3. \A a \in Reached' \ {tail} : key'[a] < key'[Finished'[a]]
    <3>1. Finished \in [Addresses -> Addresses] /\ Reached \subseteq Addresses
          /\ \A a \in Addresses : key[a] \in Int
      BY ListFacts, KeyFacts DEF FinishedIs
    <3>2. \A a \in Reached \ {tail} : key[a] < key[Finished[a]]
      BY DEF IInv, Sorted
    <3>3. CASE adds
      BY <3>1, <3>2, <3>3, <1>1, <1>2, <1>3, <1>7
    <3>4. CASE removes
      <4>1. key[c] < key[Finished[c]] /\ Finished[c] \in Addresses
        BY <3>1, <3>2, <3>4, <1>1, <1>9
      <4>2. key[p] < key[Finished[c]]
        BY <4>1, <3>1, <1>1, <1>3
      <4> QED BY <4>2, <3>1, <3>2, <3>4, <1>1, <1>2, <1>3
    <3>5. CASE ~adds /\ ~removes
      BY <3>2, <3>5, <1>2, <1>3
    <3> QED BY <3>3, <3>4, <3>5
  <2> QED BY <2>1, <2>2, <2>3, <1>3 DEF IInv, Sorted
<1>11. Owned'
  <2>1. ASSUME NEW s \in Callers, NEW a, Own(s, a)'
        PROVE  (s = t /\ removes /\ a = c) \/ (s # t /\ Own(s, a))
    <3>1. CASE s = t
      BY <3>1, <2>1, <1>4, <1>5 DEF Own
    <3>2. CASE s # t
      BY <3>2, <2>1, <1>3, <1>4, <1>6 DEF Own
    <3> QED BY <3>1, <3>2
  <2>2. ASSUME NEW s \in Callers, NEW a \in Addresses, Own(s, a)'
        PROVE  a \in Heap \ freed' /\ a \notin Reached' /\ \A u \in Callers : Own(u, a)' => u = s
    <3>1. CASE s = t /\ removes /\ a = c
      <4>1. \A u \in Callers : ~Own(u, a)
        BY <3>1, <1>1 DEF IInv, Owned
      <4> QED BY <3>1, <4>1, <2>1, <1>2, <1>3
    <3>2. CASE s # t /\ Own(s, a)
      <4>1. a \in Heap \ freed /\ a \notin Reached /\ \A u \in Callers : Own(u, a) => u = s
        BY <3>2 DEF IInv, Owned
      <4>2. adds => a # n
        BY <3>2, <4>1, <1>0, <1>1 DEF Own
      <4>3. a \notin Reached'
        BY <4>1, <4>2, <1>2
      <4>4. ASSUME NEW u \in Callers, Own(u, a)'
            PROVE  u = s
        BY <4>1, <4>4, <2>1, <1>1
      <4> QED BY <4>1, <4>3, <4>4, <1>3
    <3> QED BY <2>1, <2>2, <3>1, <3>2
  <2>3. \A s \in Callers : Pending(s)' => key'[node'[s]] = op'[s].key
    BY <1>3, <1>5, <1>6 DEF IInv, Owned
  <2> QED BY <2>2, <2>3 DEF Owned
<1>12. Locked'
  <2>1. lc'[t] = "link" => mutex[n] = NULL
    BY <1>0, <1>1, <1>4 DEF IInv, Locked
  <2> QED BY <2>1, <1>0, <1>3, <1>4, <1>5, <1>6 DEF IInv, Locked
<1>13. \A s \in Callers \ {t} : /\ mutex[prev[s]] = s /\ kind # "coarse" => prev[s] # p /\ prev[s] # c
                                /\ mutex[prev[s]] = s /\ adds => prev[s] # n
  <2>1. adds => mutex[n] = NULL
    BY <1>0, <1>1 DEF IInv, Locked
  <2> QED BY <2>1, <1>3, ListAssumption
<1>14. Placed'
  <2>1. \A s \in Callers \ {t} :
          /\ lc[s] = "decide" \/ (kind = "fine" /\ lc[s] \in {"lockCurr", "walk"}) =>
               prev'[s] \in Reached' /\ next'[prev'[s]] = curr'[s]
          /\ lc[s] = "link" => prev'[s] \in Reached' /\ next'[prev'[s]] = node'[s]
    <3>1. \A s \in Callers \ {t} :
            lc[s] = "decide" \/ lc[s] = "link" \/ (kind = "fine" /\ lc[s] \in {"lockCurr", "walk"}) =>
               kind # "coarse" /\ mutex[prev[s]] = s /\ prev[s] \in Reached
      BY DEF IInv, Locked, Placed, Calls
    <3>2. \A s \in Callers \ {t} :
            lc[s] = "decide" \/ lc[s] = "link" \/ (kind = "fine" /\ lc[s] \in {"lockCurr", "walk"}) =>
               prev[s] \in Reached' /\ next'[prev[s]] = next[prev[s]]
      <4>1. ASSUME NEW a \in Reached, a # p, a # c, adds => a # n
            PROVE  a \in Reached' /\ next'[a] = next[a]
        <5>1. a \in Addresses
          BY ListFacts
        <5>2. CASE adds
          BY <5>1, <5>2, <4>1, <1>2, <1>7
        <5>3. CASE removes
          BY <5>1, <5>3, <4>1, <1>2, <1>7
        <5>4. CASE ~adds /\ ~removes
          BY <5>4, <1>2
        <5> QED BY <5>2, <5>3, <5>4
      <4>2. \A a \in Reached : a # p /\ a # c /\ (adds => a # n) => a \in Reached' /\ next'[a] = next[a]
        BY <4>1
      <4>3. ASSUME NEW s \in Callers \ {t}, kind # "coarse", mutex[prev[s]] = s, prev[s] \in Reached
            PROVE  prev[s] \in Reached' /\ next'[prev[s]] = next[prev[s]]
        <5>1. PICK a : a = prev[s]
          OBVIOUS
        <5>2. a \in Reached /\ a # p /\ a # c /\ (adds => a # n)
          BY <4>3, <5>1, <1>13
        <5> HIDE DEF adds
        <5> QED BY <4>2, <5>1, <5>2
      <4> QED BY <3>1, <4>3
    <3> QED BY <3>2, <1>3, <1>4 DEF IInv, Placed
  <2>2. \A s \in Callers \ {t} : lc[s] = "link" => node[s] \in Reached' \cap Heap /\ (adds => node[s] # n)
    BY <1>1, <1>2, <1>3 DEF IInv, Placed, Linking
  <2>3. lc'[t] = "link" => n \in Reached' \cap Heap /\ p \in Reached' /\ next'[p] = n
    BY <1>1, <1>2, <1>3, <1>4, <1>7
  <2>4. lc'[t] \in {"link", "unlock"} /\ (lc'[t] = "link" => adds)
    BY <1>4
  <2> QED BY <2>1, <2>2, <2>3, <2>4, <1>0, <1>2, <1>3, <1>4 DEF IInv, Placed, UniqueLinks, Before
<1>15. Optimistic'
  <2> SUFFICES ASSUME kind = "optimistic" PROVE Optimistic'
    BY <1>3 DEF Optimistic
  <2>1. \A a : Published(a)' <=> Published(a) \/ (op[t].type = "A" /\ a = n)
    <3>1. \A a : Published(a)' => Published(a) \/ (op[t].type = "A" /\ a = n)
      BY <1>0, <1>3, <1>6 DEF Published, Pending
    <3>2. \A a : Published(a) => Published(a)'
      BY <1>3, <1>5, <1>6 DEF Published
    <3>3. op[t].type = "A" => Published(n)'
      <4>1. \A s \in Callers \ {t} : op[t].type = "A" /\ Pending(s) => node[s] # n
        BY <1>0, <1>1 DEF IInv, Owned, Own, ListTypeOK
      <4> QED BY <4>1, <1>1, <1>3, <1>5, <1>6 DEF Published
    <3> QED BY <3>1, <3>2, <3>3
  <2>2. Published(p) /\ Published(c) /\ (op[t].type = "A" => ~Published(n))
    BY <1>0, <1>1, <1>3, HeadPublished DEF Published
  <2>3. next \in [Addresses -> Addresses] /\ \A a \in Addresses : key[a] \in Int
    BY KeyFacts DEF IInv, ListTypeOK
  <2>4. \A a \in Addresses : Published(next[a]) /\ (Published(a) \/ next[a] = tail)
                             /\ (a = tail \/ key[a] < key[next[a]])
    BY DEF IInv, Optimistic
  <2>5. ASSUME NEW a \in Addresses
        PROVE  Published(next[a])' /\ (Published(a)' \/ next'[a] = tail)
    <3>1. PICK b : b = next'[a]
      OBVIOUS
    <3>2. \/ b = next[a] /\ (adds => a # n)
          \/ a = p /\ adds /\ b = n
          \/ a = n /\ adds /\ b = c
          \/ a = p /\ removes /\ b = next[c]
      BY <3>1, <1>2, <1>7
    <3>3. Published(b)' /\ (Published(a)' \/ b = tail)
      BY <3>2, <2>1, <2>2, <2>4, <1>1
    <3>4. Published(next[a])'
      BY <3>1, <3>3 DEF Published
    <3> QED BY <3>1, <3>3, <3>4
  <2>6. \A a \in Addresses : a = tail \/ key'[a] < key'[next'[a]]
    BY <2>3, <2>4, <1>1, <1>2, <1>3, <1>7, <1>9
  <2>7. ASSUME NEW s \in Callers
        PROVE  Published(prev[s])' /\ Published(curr[s])' /\ Published(it[s])'
    <3>1. PICK x, y, z : x = prev'[s] /\ y = curr'[s] /\ z = it'[s]
      OBVIOUS
    <3>2. Published(x) /\ Published(y) /\ Published(z)
      BY <3>1, <2>2, <1>3, <1>4 DEF IInv, Optimistic
    <3>3. Published(x)' /\ Published(y)' /\ Published(z)'
      BY <3>2, <2>1
    <3> QED BY <3>1, <3>3 DEF Published
  <2>8. ASSUME NEW s \in Callers, lc'[s] = "validate"
        PROVE  prev'[s] \in Reached'
               \/ \E S \in SUBSET Addresses : From(S, next') /\ it'[s] \in S /\ prev'[s] \notin S
    <3>1. s # t /\ lc[s] = "validate" /\ prev'[s] = prev[s] /\ it'[s] = it[s] /\ mutex[prev[s]] = s
          /\ prev[s] # p /\ prev[s] # c /\ (adds => prev[s] # n)
      BY <2>8, <1>3, <1>4, <1>13 DEF IInv, Locked
    <3>2. CASE prev[s] \in Reached
      BY <3>1, <3>2, <1>2
    <3>3. CASE prev[s] \notin Reached
      <4>1. PICK S \in SUBSET Addresses : From(S, next) /\ it[s] \in S /\ prev[s] \notin S
        BY <3>1, <3>3 DEF IInv, Optimistic
      <4>2. p \in S
        <5>1. Reached = ReachedBy(next)
          BY ListFacts DEF Reached
        <5> QED BY <4>1, <5>1, <2>3, <1>3, ReachedByLeast
      <4>3. CASE adds
        <5>1. From(S \cup {n}, next') /\ S \cup {n} \in SUBSET Addresses
          BY <4>1, <4>2, <4>3, <1>3, <1>7 DEF From
        <5> QED BY <5>1, <4>1, <4>3, <3>1
      <4>4. CASE ~adds
        <5>1. From(S, next')
          BY <4>1, <4>2, <4>4, <1>2, <1>3, <1>7 DEF From
        <5> QED BY <5>1, <4>1, <3>1
      <4> QED BY <4>3, <4>4
    <3> QED BY <3>2, <3>3
  <2> QED BY <2>5, <2>6, <2>7, <2>8 DEF Optimistic
<1> QED BY <1>1, <1>8, <1>10, <1>11, <1>12, <1>14, <1>15 DEF IInv

-----------------------------------------------------------------------------
(* The theorems *)

LEMMA InitIInv == ListInit => IInv
<1> SUFFICES ASSUME ListInit PROVE IInv
  OBVIOUS
<1>1. ListTypeOK
  BY KeyBounds, AddressesFinite, ListAssumption DEF ListInit, ListTypeOK
<1>2. \A t \in Callers : lc[t] = "out" /\ ~Pending(t) /\ ~Doomed(t)
                         /\ prev[t] = head /\ curr[t] = head /\ it[t] = head
  BY DEF ListInit, Pending, Doomed, Before
<1>3. \A a \in Addresses : next[a] = tail /\ Finished[a] = tail
  BY <1>2, AddressesFinite DEF ListInit, Finished
<1>4. Finished \in [Addresses -> Addresses]
  <2>1. Finished = [a \in Addresses |-> Finished[a]]
    BY DEF Finished
  <2> QED BY <2>1, <1>3, AddressesFinite
<1>5. Reached = {head, tail}
  <2>1. PICK f : f = Finished
    OBVIOUS
  <2>2. f \in [Addresses -> Addresses] /\ \A a \in Addresses : f[a] = tail
    BY <2>1, <1>3, <1>4
  <2>3. From(ReachedBy(f), f) /\ \A S : From(S, f) => ReachedBy(f) \subseteq S
    BY <2>2, ReachedByLeast
  <2>4. From({head, tail}, f)
    BY <2>2, AddressesFinite DEF From
  <2>5. head \in ReachedBy(f) /\ tail \in ReachedBy(f)
    BY <2>2, <2>3, AddressesFinite DEF From
  <2>6. ReachedBy(f) = {head, tail}
    BY <2>3, <2>4, <2>5
  <2> QED BY <2>1, <2>6 DEF Reached
<1>6. Calls
  <2>1. Cardinality(Heap) = MaxWork /\ MaxWork \in Nat
    BY FS_Interval, ListAssumption DEF Heap
  <2> QED BY <2>1, <1>2 DEF ListInit, Calls
<1>7. Sorted
  BY <1>3, <1>5, KeyBounds, AddressesFinite DEF ListInit, Sorted
<1>8. Owned
  BY <1>2 DEF Owned, Own
<1>9. Locked
  BY <1>2, AddressesFinite DEF ListInit, Locked
<1>10. Placed
  BY <1>2 DEF Placed, Before
<1>11. Optimistic
  <2>1. Published(head) /\ Published(tail)
    BY <1>2, AddressesFinite DEF Published, ListInit
  <2>2. \A a \in Addresses : a = tail \/ key[a] < key[next[a]]
    BY <1>3, KeyBounds, AddressesFinite DEF ListInit
  <2> QED BY <2>1, <2>2, <1>2, <1>3 DEF Optimistic
<1> QED BY <1>1, <1>6, <1>7, <1>8, <1>9, <1>10, <1>11 DEF IInv

LEMMA NextIInv == IInv /\ [ListNext]_listVars => IInv'
<1> SUFFICES ASSUME IInv, [ListNext]_listVars PROVE IInv'
  OBVIOUS
<1>1. CASE UNCHANGED listVars
  <2>1. Finished' = Finished
    BY <1>1 DEF listVars, Finished
  <2>2. Reached' = Reached
    BY <2>1 DEF Reached
  <2>3. \A t \in Callers : (Pending(t)' <=> Pending(t)) /\ (Doomed(t)' <=> Doomed(t))
    BY <1>1 DEF listVars, Pending, Doomed
  <2>4. \A t \in Callers : \A a : Own(t, a)' <=> Own(t, a)
    BY <1>1, <2>3 DEF listVars, Own
  <2>5. ListTypeOK' /\ Sorted' /\ Calls' /\ Placed' /\ Locked'
    <3>1. ListTypeOK' /\ Sorted'
      BY <1>1, <2>1, <2>2 DEF listVars, IInv, ListTypeOK, Sorted
    <3>2. Calls' /\ Placed' /\ Locked'
      BY <1>1, <2>2, <2>3 DEF listVars, IInv, Calls, Placed, Locked
    <3> QED BY <3>1, <3>2
  <2>6. Owned'
    <3>1. \A t \in Callers : Pending(t)' => key'[node'[t]] = op'[t].key
      BY <1>1, <2>3 DEF listVars, IInv, Owned
    <3> QED BY <1>1, <2>2, <2>4, <3>1 DEF listVars, IInv, Owned
  <2>7. Optimistic'
    <3>1. \A a : Published(a)' <=> Published(a)
      BY <1>1, <2>3 DEF listVars, Published
    <3> QED BY <1>1, <2>2, <3>1 DEF listVars, IInv, Optimistic
  <2> QED BY <2>5, <2>6, <2>7 DEF IInv
<1>2. ASSUME NEW t \in Callers, Call(t) \/ Step(t)
      PROVE  IInv'
  BY <1>2, CallStep, SeekStep, LockPrevStep, LockCurrStep, WalkStep, ValidateStep, WholeTakes,
     DecideTakes, TakesStep, LinkStep, UnlockStep, FreeStep DEF Step
<1> QED BY <1>1, <1>2 DEF ListNext

(* The invariant holds of all three programs. *)
THEOREM ListsInvariant == ListSpec => []IInv
BY InitIInv, NextIInv, PTL DEF ListSpec

(* Lab11's type invariant. *)
THEOREM ListsTypeCorrect == ListSpec => []ListTypeOK
<1>1. IInv => ListTypeOK
  BY DEF IInv
<1> QED BY <1>1, ListsInvariant, PTL

(* No thread of any of the three programs reads, writes or frees a node    *)
(* that has been freed, or meets a node that its add has not linked yet,   *)
(* and the list stays sorted and ends at tail: NodesSafe, for any number   *)
(* of threads, keys and operations.                                        *)
THEOREM ListNodesSafe == ListSpec => []NodesSafe
<1>1. ASSUME IInv PROVE NodesSafe
  <2>1. head \notin freed /\ head \notin Heap /\ \A t \in Callers : t # NULL
    BY <1>1, AddressesFinite, ListAssumption DEF IInv, ListTypeOK
  <2>2. ASSUME NEW t \in Callers, NEW a \in InUse(t)
        PROVE  a \notin freed /\ \A s \in Callers : lc[s] = "link" /\ s # t => node[s] # a
    <3>1. CASE lc[t] = "free"
      <4>1. a = curr[t]
        BY <3>1, <2>2 DEF InUse
      <4>2. Own(t, a) /\ a \in Addresses
        BY <3>1, <4>1, <1>1 DEF Own, IInv, Calls, ListTypeOK
      <4> QED BY <4>2, <1>1 DEF IInv, Owned, Placed
    <3>2. CASE lc[t] # "free"
      <4>1. lc[t] # "out" /\ kind # "coarse" /\ a \in {prev[t], curr[t], it[t]}
        BY <3>2, <2>2 DEF InUse
      <4>2. CASE kind = "optimistic"
        <5>1. Published(a) /\ \A s \in Callers : lc[s] # "link"
          BY <4>1, <4>2, <1>1 DEF IInv, Optimistic, Calls
        <5> QED BY <5>1 DEF Published
      <4>3. CASE kind = "fine"
        <5>1. \A s \in Callers : lc[s] = "link" => node[s] \in Heap /\ mutex[node[s]] = NULL
          BY <1>1 DEF IInv, Placed, Locked
        <5>2. \A b \in freed : mutex[b] = NULL
          BY <1>1 DEF IInv, Locked
        <5>3. a = head \/ mutex[a] = t \/ (lc[t] = "lockCurr" /\ a = curr[t])
          BY <4>1, <4>3, <3>2, <1>1 DEF IInv, ListTypeOK, Calls, Locked
        <5>4. CASE a = head
          BY <5>1, <5>4, <2>1
        <5>5. CASE mutex[a] = t
          BY <5>1, <5>2, <5>5, <2>1
        <5>6. CASE lc[t] = "lockCurr" /\ a = curr[t]
          <6>1. a \in Addresses
            BY <5>6, <1>1 DEF IInv, ListTypeOK
          <6> QED BY <6>1, <5>6, <4>3, <1>1, Lockable
        <5> QED BY <5>3, <5>4, <5>5, <5>6
      <4> QED BY <4>1, <4>2, <4>3, <1>1 DEF IInv, ListTypeOK
    <3> QED BY <3>1, <3>2
  <2>3. (\A a \in Reached \ {tail} : key[a] < key[Finished[a]]) /\ tail \in Reached
    BY <1>1 DEF IInv, Sorted
  <2> QED BY <2>2, <2>3 DEF NodesSafe
<1> QED BY <1>1, ListsInvariant, PTL

-----------------------------------------------------------------------------
(* The lists implement a set *)

Phase(t) ==
  IF lc[t] = "out" THEN [phase |-> "idle"]
  ELSE IF lc[t] \in {"link", "unlock", "free"}
    THEN [phase |-> "applied", result |-> retval[t]] ELSE [phase |-> "called", op |-> op[t]]

(* A step that leaves the keys of the list alone leaves the set alone. *)
LEMMA SameContents ==
  ASSUME Reached' = Reached, \A a \in Reached : key'[a] = key[a]
  PROVE  Contents' = Contents
BY DEF Contents

LEMMA TakesApplies ==
  ASSUME IInv, NEW t \in Callers, NEW p, NEW c, Takes(t, p, c)
  PROVE  LET present == op[t].key \in Contents
         IN  /\ retval'[t] = IF op[t].type = "A" THEN ~present ELSE present
             /\ op[t].type = "A" => Contents' = Contents \cup {op[t].key}
             /\ op[t].type = "R" => Contents' = Contents \ {op[t].key}
             /\ op[t].type = "C" => Contents' = Contents
<1>0. PICK n, x : n = node[t] /\ x = op[t].key
  OBVIOUS
<1>1. /\ p \in Addresses /\ c \in Addresses /\ c \in Reached /\ p # tail /\ Finished[p] = c
      /\ x \in Keys /\ key[p] \in Int /\ key[c] \in Int
      /\ (op[t].type = "A" => n \notin Reached /\ key[n] = x)
  <2>1. op[t].type = "A" => n \notin Reached /\ Pending(t)
    BY <1>0, TakesTypeOK
  <2> QED BY <1>0, <2>1, TakesTypeOK DEF IInv, Owned
<1>2. p \in Reached /\ key[p] < x /\ x <= key[c] /\ x \in Int /\ key' = key
  BY <1>0, KeyFacts DEF Takes
<1>3. x # KEY_MIN /\ x # KEY_MAX
  BY <1>1, KeyBounds
<1>4. \A a, b \in Reached : (key[a] = key[b] => a = b) /\ (key[b] < key[a] => key[Finished[b]] <= key[a])
  BY ListFacts, OrderedChain DEF Reached
<1>5. x \in Contents <=> key[c] = x
  <2>1. ASSUME NEW b \in Reached, key[b] = x
        PROVE  key[c] = x
    <3>1. key[c] <= key[b]
      BY <2>1, <1>1, <1>2, <1>4
    <3> QED BY <2>1, <3>1, <1>1, <1>2
  <2> QED BY <2>1, <1>1, <1>3 DEF Contents
<1>6. retval'[t] = IF op[t].type = "A" THEN ~(key[c] = x) ELSE key[c] = x
  BY <1>0 DEF Takes, Effect, IInv, ListTypeOK
<1>7. /\ op[t].type = "A" /\ key[c] # x => Reached' = Reached \cup {n}
      /\ op[t].type = "R" /\ key[c] = x => Reached' = Reached \ {c}
      /\ ~(op[t].type = "A" /\ key[c] # x) /\ ~(op[t].type = "R" /\ key[c] = x) => Reached' = Reached
  BY <1>0, TakesList
<1>8. Contents' = {key[a] : a \in Reached'} \ {KEY_MIN, KEY_MAX}
  BY <1>2 DEF Contents
<1>9. CASE op[t].type = "A" /\ key[c] # x
  <2>1. Contents' = Contents \cup {x}
    BY <1>1, <1>3, <1>7, <1>8, <1>9 DEF Contents
  <2> QED BY <2>1, <1>0, <1>5, <1>6, <1>9
<1>10. CASE op[t].type = "R" /\ key[c] = x
  <2>1. Contents' = Contents \ {x}
    BY <1>1, <1>4, <1>7, <1>8, <1>10 DEF Contents
  <2> QED BY <2>1, <1>0, <1>5, <1>6, <1>10
<1>11. CASE ~(op[t].type = "A" /\ key[c] # x) /\ ~(op[t].type = "R" /\ key[c] = x)
  <2>1. Contents' = Contents
    BY <1>7, <1>8, <1>11 DEF Contents
  <2>2. (op[t].type = "A" => Contents' = Contents \cup {x})
        /\ (op[t].type = "R" => Contents' = Contents \ {x})
    BY <2>1, <1>5, <1>11
  <2> QED BY <2>1, <2>2, <1>0, <1>5, <1>6, <1>11
<1> QED BY <1>9, <1>10, <1>11

(* What the threads' calls and the set become in one step. *)
LEMMA StepApplies ==
  ASSUME IInv, NEW t \in Callers, Call(t) \/ Step(t)
  PROVE  /\ \A s \in Callers \ {t} : Phase(s)' = Phase(s)
         /\ \/ /\ lc[t] = "out" /\ Contents' = Contents
               /\ \E o \in Operations : Phase(t)' = [phase |-> "called", op |-> o]
            \/ Phase(t)' = Phase(t) /\ Contents' = Contents
            \/ /\ lc[t] \in {"link", "unlock", "free"} /\ lc'[t] = "out" /\ Contents' = Contents
            \/ /\ lc[t] \in Before /\ lc'[t] \in {"link", "unlock", "free"}
               /\ LET present == op[t].key \in Contents
                  IN  /\ retval'[t] = IF op[t].type = "A" THEN ~present ELSE present
                      /\ op[t].type = "A" => Contents' = Contents \cup {op[t].key}
                      /\ op[t].type = "R" => Contents' = Contents \ {op[t].key}
                      /\ op[t].type = "C" => Contents' = Contents
<1>1. CASE Call(t)
  <2>1. /\ lc[t] = "out" /\ next' = next /\ lc'[t] \in {"whole", "lockPrev", "seek"} /\ retval' = retval
        /\ \A s \in Callers \ {t} : /\ lc'[s] = lc[s] /\ op'[s] = op[s]
                                    /\ node'[s] = node[s] /\ curr'[s] = curr[s]
        /\ \E o \in Operations : op'[t] = o
    BY <1>1 DEF Call, IInv, ListTypeOK
  <2>2. IInv'
    BY <1>1, CallStep
  <2>3. Reached' = Reached
    <3>1. UniqueLinks /\ ListTypeOK /\ ListTypeOK'
      BY <2>2, ListFacts DEF IInv
    <3> QED BY <2>1, <3>1, SameList
  <2>4. \A a \in Reached : key'[a] = key[a]
    <3>1. PICK a : a = CHOOSE c \in freed : \A b \in freed : c <= b
      OBVIOUS
    <3>2. a \notin Reached
      <4>1. a \in freed
        BY <3>1, <1>1, NodeThere DEF Call
      <4> QED BY <4>1 DEF IInv, Sorted
    <3>3. key' = key \/ \E o \in Operations : key' = [key EXCEPT ![a] = o.key]
      BY <1>1, <3>1 DEF Call
    <3> QED BY <3>2, <3>3, ListFacts DEF IInv, ListTypeOK
  <2>5. Contents' = Contents
    BY <2>3, <2>4, SameContents
  <2> QED BY <2>1, <2>5 DEF Phase
<1>2. CASE Seek(t) \/ LockPrev(t) \/ LockCurr(t) \/ Walk(t) \/ Validate(t)
  <2>1. /\ lc[t] \in Before /\ lc'[t] \in Before
        /\ UNCHANGED <<kind, work, key, next, freed, op, node, retval>>
        /\ \A s \in Callers \ {t} : lc'[s] = lc[s] /\ curr'[s] = curr[s]
    BY <1>2 DEF Seek, LockPrev, LockCurr, Walk, Validate, Move, Before, IInv, ListTypeOK
  <2>2. ListTypeOK'
    BY <1>2, SeekStep, LockPrevStep, LockCurrStep, WalkStep, ValidateStep DEF IInv
  <2>3. Reached' = Reached
    BY <2>1, <2>2, SearchStep
  <2>4. Contents' = Contents
    BY <2>1, <2>3, SameContents
  <2> QED BY <2>1, <2>4 DEF Phase, Before
<1>3. CASE Whole(t) \/ Decide(t)
  <2>1. PICK p, c : Takes(t, p, c)
    BY <1>3, WholeTakes, DecideTakes
  <2>2. /\ lc[t] \in Before /\ lc'[t] \in {"link", "unlock", "free"} /\ op' = op
        /\ \A s \in Callers \ {t} : lc'[s] = lc[s] /\ retval'[s] = retval[s]
    BY <2>1 DEF Takes, Effect, Before, IInv, ListTypeOK
  <2>3. \A s \in Callers \ {t} : Phase(s)' = Phase(s)
    BY <2>2 DEF Phase
  <2> QED BY <2>1, <2>2, <2>3, TakesApplies
<1>4. CASE Link(t)
  <2>1. Reached' = Reached
    BY <1>4, LinkStep
  <2>2. /\ lc[t] = "link" /\ lc'[t] = "unlock" /\ UNCHANGED <<key, op, retval>>
        /\ \A s \in Callers \ {t} : lc'[s] = lc[s]
    BY <1>4 DEF Link, Move, IInv, ListTypeOK
  <2>3. Contents' = Contents
    BY <2>1, <2>2, SameContents
  <2> QED BY <2>2, <2>3 DEF Phase
<1>5. CASE Unlock(t) \/ Free(t)
  <2>1. /\ lc[t] \in {"unlock", "free"} /\ lc'[t] \in {"free", "out"} /\ next' = next /\ key' = key
        /\ (lc'[t] = "free" => UNCHANGED <<op, retval>>)
        /\ \A s \in Callers \ {t} : /\ lc'[s] = lc[s] /\ op'[s] = op[s] /\ retval'[s] = retval[s]
                                    /\ node'[s] = node[s] /\ curr'[s] = curr[s]
    BY <1>5 DEF Unlock, Free, Leave, Move, IInv, ListTypeOK
  <2>2. ListTypeOK /\ ListTypeOK' /\ UniqueLinks
    BY <1>5, UnlockStep, FreeStep, ListFacts DEF IInv
  <2>3. Reached' = Reached
    BY <2>1, <2>2, SameList
  <2>4. Contents' = Contents
    BY <2>1, <2>3, SameContents
  <2> QED BY <2>1, <2>4 DEF Phase
<1> QED BY <1>1, <1>2, <1>3, <1>4, <1>5 DEF Step

(* Linearizability: every behaviour of each of the three lists is one of   *)
(* SetObject, where an operation changes the set and settles its answer in *)
(* a single step between its call and its return.                          *)
THEOREM ListsAreLinearizable == ListSpec => ListsImplementSet
<1> DEFINE calls == [t \in Callers |->
             IF lc[t] = "out" THEN [phase |-> "idle"]
             ELSE IF lc[t] \in {"link", "unlock", "free"}
               THEN [phase |-> "applied", result |-> retval[t]]
               ELSE [phase |-> "called", op |-> op[t]]]
<1>1. ListInit => Set!Init
  <2> SUFFICES ASSUME ListInit PROVE Set!Init
    OBVIOUS
  <2>1. IInv
    BY InitIInv
  <2>2. \A a \in Addresses : key[a] \in {KEY_MIN, KEY_MAX}
    BY DEF ListInit
  <2>3. Contents = {}
    BY <2>1, <2>2, ListFacts DEF Contents
  <2>4. calls = [t \in Callers |-> [phase |-> "idle"]]
    BY DEF ListInit
  <2> QED BY <2>3, <2>4 DEF Set!Init, Set!Idle
<1>2. IInv /\ [ListNext]_listVars => [Set!Next]_(Set!vars)
  <2> SUFFICES ASSUME IInv, [ListNext]_listVars PROVE [Set!Next]_(Set!vars)
    OBVIOUS
  <2>1. CASE UNCHANGED listVars
    <3>1. calls' = calls
      BY <2>1 DEF listVars
    <3>2. Contents' = Contents
      <4>1. Finished' = Finished
        BY <2>1 DEF listVars, Finished
      <4>2. Reached' = Reached /\ key' = key
        BY <2>1, <4>1 DEF listVars, Reached
      <4> QED BY <4>2, SameContents
    <3> QED BY <3>1, <3>2 DEF Set!vars
  <2>2. ASSUME NEW t \in Callers, Call(t) \/ Step(t)
        PROVE  [Set!Next]_(Set!vars)
    <3>1. calls = [s \in Callers |-> Phase(s)] /\ calls' = [s \in Callers |-> Phase(s)']
      BY DEF Phase
    <3>2. calls' = [calls EXCEPT ![t] = Phase(t)']
      <4>1. \A s \in Callers \ {t} : Phase(s)' = Phase(s)
        BY <2>2, StepApplies
      <4>2. \A s \in Callers : calls'[s] = IF s = t THEN Phase(t)' ELSE calls[s]
        BY <3>1, <4>1
      <4> HIDE DEF calls
      <4> QED BY <3>1, <4>2
    <3>3. CASE /\ lc[t] = "out" /\ Contents' = Contents
               /\ \E o \in Operations : Phase(t)' = [phase |-> "called", op |-> o]
      <4>1. calls[t] = [phase |-> "idle"]
        BY <3>3
      <4>2. Set!Call(t)
        BY <3>2, <3>3, <4>1 DEF Set!Call, Set!Idle
      <4> QED BY <4>2 DEF Set!Next
    <3>4. CASE Phase(t)' = Phase(t) /\ Contents' = Contents
      <4>1. calls' = calls
        <5> HIDE DEF calls
        <5> QED BY <3>1, <3>2, <3>4
      <4> QED BY <4>1, <3>4 DEF Set!vars
    <3>5. CASE lc[t] \in {"link", "unlock", "free"} /\ lc'[t] = "out" /\ Contents' = Contents
      <4>1. calls[t].phase = "applied" /\ Phase(t)' = [phase |-> "idle"]
        BY <3>5 DEF Phase
      <4>2. Set!Return(t)
        BY <3>2, <3>5, <4>1 DEF Set!Return, Set!Idle
      <4> QED BY <4>2 DEF Set!Next
    <3>6. CASE /\ lc[t] \in Before /\ lc'[t] \in {"link", "unlock", "free"}
               /\ LET present == op[t].key \in Contents
                  IN  /\ retval'[t] = IF op[t].type = "A" THEN ~present ELSE present
                      /\ op[t].type = "A" => Contents' = Contents \cup {op[t].key}
                      /\ op[t].type = "R" => Contents' = Contents \ {op[t].key}
                      /\ op[t].type = "C" => Contents' = Contents
      <4>1. calls[t] = [phase |-> "called", op |-> op[t]]
        BY <3>6 DEF Before
      <4>2. Phase(t)' = [phase |-> "applied",
                         result |-> IF op[t].type = "A" THEN ~(op[t].key \in Contents)
                                                        ELSE op[t].key \in Contents]
        BY <3>6 DEF Phase
      <4>3. op[t].type \in {"A", "R", "C"}
        BY <3>6 DEF IInv, Calls, Operations, Before
      <4>4. Set!Apply(t)
        BY <3>2, <3>6, <4>1, <4>2, <4>3 DEF Set!Apply
      <4> QED BY <4>4 DEF Set!Next
    <3> QED BY <2>2, <3>3, <3>4, <3>5, <3>6, StepApplies
  <2> QED BY <2>1, <2>2 DEF ListNext
<1> QED BY <1>1, <1>2, ListsInvariant, PTL DEF ListSpec, ListsImplementSet, Set!Spec
=============================================================================
