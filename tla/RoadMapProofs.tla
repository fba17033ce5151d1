--------------------------- MODULE RoadMapProofs ---------------------------
(***************************************************************************)
(* Facts about every road map: what the lists of neighbours hold, and that *)
(* the reference distances are distances along roads.  The proofs about    *)
(* Project1's two searches rest on them.                                   *)
(***************************************************************************)
EXTENDS RoadMap, FiniteSetTheorems, SequenceTheorems, NaturalsInduction,
        WellFoundedInduction, TLAPS

-----------------------------------------------------------------------------
(* Induction and recursion over the naturals *)

LEMMA LeastElement ==
  ASSUME NEW S \in SUBSET Nat, S # {}
  PROVE  \E x \in S : \A y \in S : x <= y
<1> DEFINE R == {ss \in Nat \X Nat : ss[1] < ss[2]}
<1>1. IsWellFoundedOn(R, Nat)
  BY NatLessThanWellFounded DEF OpToRel
<1>2. PICK x \in S : \A y \in S : ~(<<y, x>> \in R)
  <2> HIDE DEF R
  <2> QED BY <1>1, WFMin
<1>3. ASSUME NEW y \in S
      PROVE  x <= y
  <2>1. y < x => <<y, x>> \in R
    OBVIOUS
  <2>2. QED
    BY <1>2, <2>1
<1>4. QED
  BY <1>3

LEMMA FromZeroUp ==
  ASSUME NEW S \in SUBSET Nat, 0 \in S, \A n \in S : n + 1 \in S
  PROVE  S = Nat
<1>1. SUFFICES ASSUME Nat \ S # {} PROVE FALSE
  OBVIOUS
<1>2. PICK x \in Nat \ S : \A y \in Nat \ S : x <= y
  BY <1>1, LeastElement
<1>3. x # 0
  OBVIOUS
<1>4. x - 1 \in Nat /\ x = (x - 1) + 1
  BY <1>3
<1>5. x - 1 \notin S
  BY <1>4
<1> QED BY <1>2, <1>4, <1>5

(* A sequence of values of X is built step by step. *)
Iterates(g, a, F, N) == g[0] = a /\ \A n \in 1..N : g[n] = F[n][g[n - 1]]

LEMMA RecursionExists ==
  ASSUME NEW X, NEW a \in X, NEW N \in Nat,
         NEW F, \A n \in Nat : \A x \in X : F[n][x] \in X
  PROVE  \E g \in [0..N -> X] : Iterates(g, a, F, N)
<1> DEFINE Upto(m) == \E g \in [0..m -> X] : g[0] = a /\ \A n \in 1..m : g[n] = F[n][g[n - 1]]
           T == {m \in Nat : Upto(m)}
<1>1. 0 \in T
  <2> DEFINE h == [n \in 0..0 |-> a]
  <2>1. h \in [0..0 -> X] /\ h[0] = a /\ \A n \in 1..0 : h[n] = F[n][h[n - 1]]
    OBVIOUS
  <2> QED BY <2>1
<1>2. ASSUME NEW m \in T
      PROVE  m + 1 \in T
  <2>1. PICK g \in [0..m -> X] : g[0] = a /\ \A n \in 1..m : g[n] = F[n][g[n - 1]]
    OBVIOUS
  <2> DEFINE h == [n \in 0..m + 1 |-> IF n <= m THEN g[n] ELSE F[m + 1][g[m]]]
  <2>2. F[m + 1][g[m]] \in X /\ m \in Nat
    <3>1. m + 1 \in Nat /\ g[m] \in X
      OBVIOUS
    <3> QED BY <3>1
  <2>3. h \in [0..m + 1 -> X]
    BY <2>2
  <2>4. h[m + 1] = F[m + 1][g[m]] /\ (m + 1) - 1 = m /\ \A n \in 0..m : h[n] = g[n]
    BY <2>2
  <2>5. h[0] = a /\ \A n \in 1..m + 1 : h[n] = F[n][h[n - 1]]
    <3>1. \A n \in 1..m + 1 : n - 1 \in 0..m /\ (n \in 1..m \/ n = m + 1)
      BY <2>2
    <3>2. 0 \in 0..m /\ m \in 0..m /\ \A n \in 1..m : n \in 0..m
      BY <2>2
    <3> HIDE DEF h
    <3> QED BY <2>1, <2>4, <3>1, <3>2
  <2>6. Upto(m + 1)
    <3> HIDE DEF h
    <3> QED BY <2>3, <2>5
  <2> HIDE DEF Upto
  <2> QED BY <2>6, <2>2
<1>3. N \in T
  <2>1. T \in SUBSET Nat
    OBVIOUS
  <2> HIDE DEF T
  <2> QED BY <1>1, <1>2, <2>1, FromZeroUp
<1> QED BY <1>3 DEF Iterates

-----------------------------------------------------------------------------
(* Distances *)

LEMMA HousesAreVertices == Houses \subseteq Vertices /\ num_vertices \in Nat
  BY MapAssumption DEF Houses, ToSet

LEMMA RoadsBothWays == \A u, v : Adjacent(u, v) <=> Adjacent(v, u)
  BY DEF Adjacent

LEMMA Balls ==
  ASSUME NEW s \in Vertices
  PROVE  /\ Within(s) \in [0..num_vertices -> SUBSET Vertices]
         /\ Within(s)[0] = {s}
         /\ \A d \in Nat : d < num_vertices =>
              Within(s)[d + 1] = Within(s)[d] \cup
                                 {v \in Vertices : \E u \in Within(s)[d] : Adjacent(u, v)}
<1> DEFINE N == num_vertices
           X == SUBSET Vertices
           Wider(B) == B \cup {v \in Vertices : \E u \in B : Adjacent(u, v)}
           F == [n \in Nat |-> [B \in X |-> Wider(B)]]
           Is(g) == g = [d \in 0..N |-> IF d = 0 THEN {s} ELSE Wider(g[d - 1])]
<1>1. N \in Nat
  BY MapAssumption
<1>2. F \in [Nat -> [X -> X]] /\ {s} \in X
  OBVIOUS
<1>3. PICK g \in [0..N -> X] : g[0] = {s} /\ \A n \in 1..N : g[n] = F[n][g[n - 1]]
  <2> DEFINE z == {s}
  <2>1. z \in X
    OBVIOUS
  <2>2. \A n \in Nat : \A x \in X : F[n][x] \in X
    BY <1>2
  <2> HIDE DEF F, X, N, z
  <2>3. \E g \in [0..N -> X] : Iterates(g, z, F, N)
    BY <1>1, <2>1, <2>2, RecursionExists
  <2> QED BY <2>3 DEF z, Iterates
<1>4. Is(g)
  <2>1. \A n \in 1..N : g[n] = Wider(g[n - 1])
    <3> SUFFICES ASSUME NEW n \in 1..N PROVE F[n][g[n - 1]] = Wider(g[n - 1])
      BY <1>3
    <3>1. n \in Nat /\ g[n - 1] \in X
      BY <1>1
    <3> HIDE DEF Wider, X
    <3> QED BY <3>1
  <2>2. g = [n \in 0..N |-> g[n]] /\ \A n \in 0..N : n = 0 \/ n \in 1..N
    BY <1>1
  <2> HIDE DEF Wider, F, X, N
  <2> QED BY <2>1, <2>2, <1>3
<1>5. PICK w : w = CHOOSE b : Is(b)
  OBVIOUS
<1>6. Is(w)
  BY <1>4, <1>5
<1>7. Within(s) = w
  BY <1>5 DEF Within
<1>8. w[0] = {s} /\ \A d \in Nat : d < N => w[d + 1] = Wider(w[d])
  <2>1. 0 \in 0..N
    BY <1>1
  <2>2. ASSUME NEW d \in Nat, d < N PROVE w[d + 1] = Wider(w[d])
    <3>1. d + 1 \in 0..N /\ d + 1 # 0 /\ (d + 1) - 1 = d
      BY <1>1, <2>2
    <3> HIDE DEF Wider
    <3> QED BY <1>6, <3>1
  <2> HIDE DEF Wider
  <2> QED BY <1>6, <2>1, <2>2
<1>9. w \in [0..N -> X]
  <2> DEFINE T == {d \in Nat : d <= N => w[d] \in X}
  <2>1. 0 \in T
    BY <1>8
  <2>2. \A d \in T : d + 1 \in T
    <3> SUFFICES ASSUME NEW d \in T, d + 1 <= N PROVE w[d + 1] \in X
      OBVIOUS
    <3>1. d \in Nat /\ d < N /\ w[d] \in X
      BY <1>1
    <3> QED BY <3>1, <1>8
  <2>3. T \in SUBSET Nat
    OBVIOUS
  <2>4. \A d \in 0..N : w[d] \in X
    <3>1. T = Nat
      <4> HIDE DEF T
      <4> QED BY <2>1, <2>2, <2>3, FromZeroUp
    <3> HIDE DEF X
    <3> QED BY <3>1, <1>1
  <2>5. w = [d \in 0..N |-> w[d]]
    <3> HIDE DEF Wider
    <3> QED BY <1>6
  <2> HIDE DEF X, Is
  <2> QED BY <2>4, <2>5
<1> QED BY <1>7, <1>8, <1>9

LEMMA DistanceIs ==
  ASSUME NEW s \in Vertices, NEW v \in Vertices
  PROVE  /\ Distance[s][v] \in 0..num_vertices
         /\ Distance[s][v] # num_vertices => v \in Within(s)[Distance[s][v]]
         /\ \A d \in 0..num_vertices - 1 : v \in Within(s)[d] => Distance[s][v] <= d
<1> DEFINE at == {d \in 0..num_vertices - 1 : v \in Within(s)[d]}
<1>1. Distance[s][v] = IF at = {} THEN num_vertices ELSE Min(at)
  BY DEF Distance, Unreachable
<1>2. num_vertices \in Nat
  BY HousesAreVertices
<1>3. CASE at = {}
  BY <1>1, <1>2, <1>3
<1>4. CASE at # {}
  <2>1. at \in SUBSET Nat
    BY <1>2
  <2>2. Min(at) \in at /\ \A d \in at : Min(at) <= d
    <3>1. \E x \in at : \A y \in at : x <= y
      <4> HIDE DEF at
      <4> QED BY <1>4, <2>1, LeastElement
    <3> HIDE DEF at
    <3> QED BY <3>1 DEF Min
  <2>3. PICK m : m = Min(at)
    OBVIOUS
  <2> QED BY <1>1, <1>2, <1>4, <2>2, <2>3
<1> QED BY <1>3, <1>4

(* In num_vertices - 1 roads one gets wherever one can get. *)
LEMMA BallsEnd ==
  ASSUME NEW s \in Vertices, NEW u \in Within(s)[num_vertices - 1], NEW v \in Vertices, Adjacent(u, v)
  PROVE  v \in Within(s)[num_vertices - 1]
<1>1. PICK B : B = Within(s)
  OBVIOUS
<1>2. PICK N : N = num_vertices
  OBVIOUS
<1>3. N \in Nat /\ N - 1 \in Nat /\ IsFiniteSet(Vertices) /\ Cardinality(Vertices) = N
  <2>1. N \in Nat /\ N > 0
    BY <1>2, HousesAreVertices DEF Vertices
  <2> QED BY <1>2, <2>1, FS_Interval DEF Vertices
<1>4. /\ B \in [0..N -> SUBSET Vertices] /\ B[0] = {s}
      /\ \A d \in Nat : d < N => B[d + 1] = B[d] \cup {w \in Vertices : \E x \in B[d] : Adjacent(x, w)}
  BY <1>1, <1>2, Balls
<1> DEFINE Ends(d) == \A x \in B[d] : \A w \in Vertices : Adjacent(x, w) => w \in B[d]
           Good == {d \in Nat : d < N => Ends(d) \/ Cardinality(B[d]) >= d + 1}
<1>5. 0 \in Good
  <2>1. Cardinality(B[0]) = 1
    BY <1>4, FS_Singleton
  <2> HIDE DEF Ends
  <2> QED BY <2>1
<1>6. ASSUME NEW d \in Good
      PROVE  d + 1 \in Good
  <2> SUFFICES ASSUME d + 1 < N
               PROVE  Ends(d + 1) \/ Cardinality(B[d + 1]) >= (d + 1) + 1
    OBVIOUS
  <2>1. d \in Nat /\ d < N /\ d \in 0..N /\ d + 1 \in 0..N
    BY <1>3
  <2>2. Ends(d) \/ Cardinality(B[d]) >= d + 1
    BY <2>1
  <2>3. B[d + 1] = B[d] \cup {w \in Vertices : \E x \in B[d] : Adjacent(x, w)}
    BY <2>1, <1>4
  <2>4. CASE Ends(d)
    <3>1. B[d + 1] = B[d]
      BY <2>3, <2>4
    <3> QED BY <3>1, <2>4
  <2>5. CASE ~Ends(d)
    <3>1. B[d + 1] \in SUBSET Vertices /\ B[d] \in SUBSET B[d + 1] /\ B[d] # B[d + 1]
      BY <2>1, <2>3, <2>5, <1>4
    <3>2. IsFiniteSet(B[d + 1])
      BY <3>1, <1>3, FS_Subset
    <3>3. Cardinality(B[d]) <= Cardinality(B[d + 1]) /\ Cardinality(B[d]) # Cardinality(B[d + 1])
          /\ IsFiniteSet(B[d])
      BY <3>1, <3>2, FS_Subset
    <3>4. Cardinality(B[d]) \in Nat /\ Cardinality(B[d + 1]) \in Nat
      BY <3>2, <3>3, FS_CardinalityType
    <3>5. Cardinality(B[d]) >= d + 1
      BY <2>2, <2>5
    <3> HIDE DEF Ends
    <3> QED BY <2>1, <3>3, <3>4, <3>5
  <2> QED BY <2>4, <2>5
<1>7. Ends(N - 1)
  <2>1. N - 1 \in Good
    <3>1. Good \in SUBSET Nat
      OBVIOUS
    <3> HIDE DEF Good
    <3> QED BY <1>3, <1>5, <1>6, <3>1, FromZeroUp
  <2>2. N - 1 < N /\ (N - 1) + 1 = N /\ N - 1 \in 0..N
    BY <1>3
  <2>3. CASE Cardinality(B[N - 1]) >= N
    <3>1. B[N - 1] \in SUBSET Vertices
      BY <1>4, <2>2
    <3>2. Cardinality(B[N - 1]) <= N /\ IsFiniteSet(B[N - 1])
          /\ (N = Cardinality(B[N - 1]) => Vertices = B[N - 1])
      BY <3>1, <1>3, FS_Subset
    <3>3. Cardinality(B[N - 1]) \in Nat
      BY <3>2, FS_CardinalityType
    <3>4. B[N - 1] = Vertices
      BY <2>3, <3>2, <3>3, <1>3
    <3> QED BY <3>4
  <2>4. Ends(N - 1) \/ Cardinality(B[N - 1]) >= N
    <3> HIDE DEF Ends
    <3> QED BY <2>1, <2>2
  <2> QED BY <2>3, <2>4
<1> QED BY <1>1, <1>2, <1>7

(* Distances from s: zero only at s, one more at most across a road, and   *)
(* every vertex but s has a neighbour that is nearer.                      *)
LEMMA DistanceFacts ==
  ASSUME NEW s \in Vertices
  PROVE  /\ s \in Vertices
         /\ \A v \in Vertices : /\ Distance[s][v] \in 0..num_vertices
                                /\ Distance[s][v] = 0 <=> v = s
         /\ \A u, v \in Vertices : Adjacent(u, v) /\ Distance[s][u] # Unreachable =>
              Distance[s][v] # Unreachable /\ Distance[s][v] <= Distance[s][u] + 1
         /\ \A v \in Vertices : Distance[s][v] \notin {0, Unreachable} =>
              \E u \in Vertices : Adjacent(u, v) /\ Distance[s][u] = Distance[s][v] - 1
<1>1. PICK B : B = Within(s)
  OBVIOUS
<1>2. PICK D : D = Distance[s]
  OBVIOUS
<1>3. PICK N : N = num_vertices
  OBVIOUS
<1>4. s \in Vertices /\ N \in Nat /\ N > 0
  BY <1>3, HousesAreVertices DEF Vertices
<1>5. /\ B \in [0..N -> SUBSET Vertices] /\ B[0] = {s}
      /\ \A d \in Nat : d < N => B[d + 1] = B[d] \cup {w \in Vertices : \E x \in B[d] : Adjacent(x, w)}
  BY <1>1, <1>3, <1>4, Balls
<1>6. \A v \in Vertices : /\ D[v] \in 0..N /\ (D[v] # N => v \in B[D[v]])
                          /\ \A d \in 0..N - 1 : v \in B[d] => D[v] <= d
  BY <1>1, <1>2, <1>3, DistanceIs
<1>7. ASSUME NEW v \in Vertices
      PROVE  D[v] = 0 <=> v = s
  <2>1. D[v] = 0 => v \in B[0]
    BY <1>4, <1>6
  <2>2. v \in B[0] => D[v] <= 0 /\ D[v] \in 0..N
    BY <1>4, <1>6
  <2> QED BY <1>4, <1>5, <2>1, <2>2
<1>8. ASSUME NEW u \in Vertices, NEW v \in Vertices, Adjacent(u, v), D[u] # N
      PROVE  D[v] # N /\ D[v] <= D[u] + 1
  <2>1. D[u] \in Nat /\ D[u] < N /\ u \in B[D[u]] /\ D[u] \in 0..N - 1
    BY <1>4, <1>6, <1>8
  <2>2. CASE D[u] = N - 1
    <3>1. v \in B[N - 1]
      BY <1>1, <1>3, <1>4, <1>8, <2>1, <2>2, BallsEnd
    <3> QED BY <3>1, <2>1, <2>2, <1>4, <1>6
  <2>3. CASE D[u] # N - 1
    <3>1. D[u] + 1 \in 0..N - 1
      BY <2>1, <2>3, <1>4
    <3>2. v \in B[D[u] + 1]
      BY <1>5, <1>8, <2>1
    <3> QED BY <3>1, <3>2, <1>4, <1>6
  <2> QED BY <2>2, <2>3
<1>9. ASSUME NEW v \in Vertices, D[v] \notin {0, N}
      PROVE  \E u \in Vertices : Adjacent(u, v) /\ D[u] = D[v] - 1
  <2>1. D[v] - 1 \in Nat /\ D[v] - 1 < N /\ (D[v] - 1) + 1 = D[v] /\ v \in B[D[v]]
        /\ D[v] - 1 \in 0..N - 1 /\ D[v] - 1 \in 0..N
    BY <1>4, <1>6, <1>9
  <2>2. v \notin B[D[v] - 1]
    BY <1>6, <2>1
  <2>3. PICK u \in B[D[v] - 1] : Adjacent(u, v)
    BY <1>5, <2>1, <2>2
  <2>4. u \in Vertices
    BY <1>5, <2>1
  <2>5. D[u] <= D[v] - 1 /\ D[u] # N /\ D[u] \in Nat
    BY <1>4, <1>6, <2>1, <2>4
  <2>6. D[v] <= D[u] + 1
    BY <1>8, <2>3, <2>4, <2>5
  <2> QED BY <2>1, <2>3, <2>4, <2>5, <2>6
<1> QED BY <1>2, <1>3, <1>4, <1>6, <1>7, <1>8, <1>9 DEF Unreachable

(* Vertices are as far from each other as the other way round. *)
LEMMA DistanceSymmetric ==
  ASSUME NEW g \in Vertices, NEW h \in Vertices
  PROVE  Distance[g][h] = Distance[h][g]
<1>1. PICK N : N = num_vertices
  OBVIOUS
<1>2. N \in Nat /\ g \in Vertices /\ h \in Vertices
  BY <1>1, HousesAreVertices
<1>3. PICK B : B = [s \in Vertices |-> Within(s)]
  OBVIOUS
<1>4. ASSUME NEW s \in Vertices
      PROVE  /\ B[s] = Within(s) /\ B[s][0] = {s}
             /\ \A d \in 0..N : B[s][d] \subseteq Vertices
             /\ \A d \in Nat : d < N =>
                  B[s][d + 1] = B[s][d] \cup {w \in Vertices : \E x \in B[s][d] : Adjacent(x, w)}
  <2>1. B[s] = Within(s)
    BY <1>3
  <2>2. /\ Within(s) \in [0..N -> SUBSET Vertices] /\ Within(s)[0] = {s}
        /\ \A d \in Nat : d < N => Within(s)[d + 1] =
             Within(s)[d] \cup {w \in Vertices : \E x \in Within(s)[d] : Adjacent(x, w)}
    BY <1>1, Balls
  <2>3. \A d \in 0..N : Within(s)[d] \subseteq Vertices
    BY <2>2
  <2> QED BY <2>1, <2>2, <2>3
<1> DEFINE Ahead == {d \in Nat : d < N => \A s, u \in Vertices : Adjacent(s, u) =>
                                            B[u][d] \subseteq B[s][d + 1]}
           Back == {d \in Nat : d <= N => \A s, v \in Vertices : v \in B[s][d] => s \in B[v][d]}
<1>5. Ahead = Nat
  <2>1. 0 \in Ahead
    <3> SUFFICES ASSUME 0 < N, NEW s \in Vertices, NEW u \in Vertices, Adjacent(s, u)
                 PROVE  B[u][0] \subseteq B[s][0 + 1]
      OBVIOUS
    <3>1. B[u][0] = {u} /\ B[s][0] = {s}
      BY <1>4
    <3>2. B[s][0 + 1] = B[s][0] \cup {w \in Vertices : \E x \in B[s][0] : Adjacent(x, w)}
      BY <1>4
    <3> QED BY <3>1, <3>2
  <2>2. ASSUME NEW d \in Ahead PROVE d + 1 \in Ahead
    <3> SUFFICES ASSUME d + 1 < N, NEW s \in Vertices, NEW u \in Vertices, Adjacent(s, u),
                        NEW v \in B[u][d + 1]
                 PROVE  v \in B[s][(d + 1) + 1]
      OBVIOUS
    <3>1. d \in Nat /\ d < N /\ d + 1 \in Nat
      BY <1>2
    <3>2. B[u][d] \subseteq B[s][d + 1]
      BY <3>1
    <3>3. B[s][(d + 1) + 1] = B[s][d + 1] \cup {w \in Vertices : \E x \in B[s][d + 1] : Adjacent(x, w)}
      BY <3>1, <1>4
    <3>4. B[u][d + 1] = B[u][d] \cup {w \in Vertices : \E x \in B[u][d] : Adjacent(x, w)}
      BY <3>1, <1>4
    <3> HIDE DEF Ahead
    <3> QED BY <3>2, <3>3, <3>4
  <2>3. Ahead \in SUBSET Nat
    OBVIOUS
  <2> HIDE DEF Ahead
  <2> QED BY <2>1, <2>2, <2>3, FromZeroUp
<1>6. Back = Nat
  <2>1. 0 \in Back
    <3> SUFFICES ASSUME NEW s \in Vertices, NEW v \in Vertices, v \in B[s][0]
                 PROVE  s \in B[v][0]
      OBVIOUS
    <3> QED BY <1>4
  <2>2. ASSUME NEW d \in Back PROVE d + 1 \in Back
    <3> SUFFICES ASSUME d + 1 <= N, NEW s \in Vertices, NEW v \in Vertices, v \in B[s][d + 1]
                 PROVE  s \in B[v][d + 1]
      OBVIOUS
    <3>1. d \in Nat /\ d < N /\ d <= N /\ d \in 0..N
      BY <1>2
    <3>2. \A x, y \in Vertices : y \in B[x][d] => x \in B[y][d]
      BY <3>1
    <3>3. B[s][d + 1] = B[s][d] \cup {w \in Vertices : \E x \in B[s][d] : Adjacent(x, w)}
      BY <3>1, <1>4
    <3>4. CASE v \in B[s][d]
      <4>1. s \in B[v][d]
        BY <3>2, <3>4
      <4>2. B[v][d + 1] = B[v][d] \cup {w \in Vertices : \E x \in B[v][d] : Adjacent(x, w)}
        BY <3>1, <1>4
      <4> HIDE DEF Back
      <4> QED BY <4>1, <4>2
    <3>5. CASE v \notin B[s][d]
      <4>1. PICK u \in B[s][d] : Adjacent(u, v)
        BY <3>3, <3>5
      <4>2. u \in Vertices
        BY <3>1, <1>4
      <4>3. s \in B[u][d] /\ Adjacent(v, u)
        BY <3>2, <4>1, <4>2, RoadsBothWays
      <4>4. d \in Ahead
        BY <3>1, <1>5
      <4> QED BY <3>1, <4>2, <4>3, <4>4
    <3> QED BY <3>4, <3>5
  <2>3. Back \in SUBSET Nat
    OBVIOUS
  <2> HIDE DEF Back
  <2> QED BY <2>1, <2>2, <2>3, FromZeroUp
<1>7. \A d \in 0..N : \A s, v \in Vertices : v \in B[s][d] => s \in B[v][d]
  <2>1. \A d \in Nat : d \in Back
    BY <1>6
  <2> QED BY <2>1, <1>2
<1>8. \A s \in Vertices : \A v \in Vertices :
        /\ Distance[s][v] \in 0..N /\ (Distance[s][v] # N => v \in B[s][Distance[s][v]])
        /\ \A d \in 0..N - 1 : v \in B[s][d] => Distance[s][v] <= d
  BY <1>1, <1>4, DistanceIs, HousesAreVertices
<1>9. ASSUME NEW s \in Vertices, NEW v \in Vertices
      PROVE  Distance[v][s] <= Distance[s][v]
  <2>1. s \in Vertices /\ v \in Vertices
    BY HousesAreVertices
  <2>2. PICK a, b : a = Distance[s][v] /\ b = Distance[v][s]
    OBVIOUS
  <2>3. a \in 0..N /\ (a # N => v \in B[s][a])
    BY <2>1, <2>2, <1>8
  <2>4. b \in 0..N /\ \A d \in 0..N - 1 : s \in B[v][d] => b <= d
    BY <2>1, <2>2, <1>8
  <2>5. CASE a = N
    BY <2>2, <2>3, <2>4, <2>5, <1>2
  <2>6. CASE a # N
    <3>1. s \in B[v][a] /\ a \in 0..N - 1
      BY <2>1, <2>3, <2>6, <1>2, <1>7
    <3> QED BY <2>2, <2>4, <3>1
  <2> QED BY <2>5, <2>6
<1>10. Distance[g][h] \in Int /\ Distance[h][g] \in Int
  BY <1>2, <1>8
<1> QED BY <1>9, <1>10

-----------------------------------------------------------------------------
(* Neighbours *)

Holds(s, v) == \E k \in 1..Len(s) : s[k] = v

LEMMA AppendHolds ==
  ASSUME NEW S, NEW s \in Seq(S), NEW v \in S
  PROVE  Append(s, v) \in Seq(S) /\ \A w : Holds(Append(s, v), w) <=> Holds(s, w) \/ w = v
<1> DEFINE t == Append(s, v)
<1>1. /\ t \in Seq(S) /\ Len(t) = Len(s) + 1 /\ Len(s) \in Nat
      /\ \A k \in 1..Len(s) : t[k] = s[k]
      /\ t[Len(s) + 1] = v
  BY AppendProperties
<1> HIDE DEF t
<1>2. \A k : k \in 1..Len(t) <=> k \in 1..Len(s) \/ k = Len(s) + 1
  BY <1>1
<1>3. \A w : Holds(t, w) <=> Holds(s, w) \/ w = v
  BY <1>1, <1>2 DEF Holds
<1> QED BY <1>1, <1>3 DEF t

LEMMA TailHolds ==
  ASSUME NEW S, NEW s \in Seq(S), s # <<>>
  PROVE  /\ Head(s) \in S /\ Tail(s) \in Seq(S)
         /\ \A v : Holds(s, v) <=> v = Head(s) \/ Holds(Tail(s), v)
<1>1. PICK t, h, n : t = Tail(s) /\ h = Head(s) /\ n = Len(s)
  OBVIOUS
<1>2. /\ t \in Seq(S) /\ h \in S /\ h = s[1] /\ n \in Nat /\ n > 0 /\ Len(t) = n - 1
      /\ \A k \in 1..Len(t) : t[k] = s[k + 1]
  BY <1>1, HeadTailProperties, LenProperties
<1>3. \A k \in 1..n : k = 1 \/ (k - 1 \in 1..Len(t) /\ t[k - 1] = s[k])
  BY <1>2
<1>4. 1 \in 1..n /\ \A k \in 1..Len(t) : k + 1 \in 1..n /\ s[k + 1] = t[k]
  BY <1>2
<1>5. \A v : Holds(s, v) <=> v = h \/ Holds(t, v)
  BY <1>1, <1>2, <1>3, <1>4 DEF Holds
<1> QED BY <1>1, <1>2, <1>5

LEMMA FewHolds ==
  /\ \A v : ~Holds(<<>>, v)
  /\ \A h, v : Holds(<<h>>, v) <=> v = h
<1>1. \A v : ~Holds(<<>>, v)
  BY DEF Holds
<1>2. ASSUME NEW h, NEW v PROVE Holds(<<h>>, v) <=> v = h
  <2>1. Len(<<h>>) = 1 /\ <<h>>[1] = h /\ \A k : k \in 1..1 <=> k = 1
    OBVIOUS
  <2> QED BY <2>1 DEF Holds
<1> QED BY <1>1, <1>2

LEMMA HoldsElements ==
  ASSUME NEW S, NEW s \in Seq(S), NEW v, Holds(s, v)
  PROVE  v \in S
  BY ElementOfSeq DEF Holds

LEMMA PushHolds ==
  ASSUME NEW f \in [Vertices -> Seq(Vertices)], NEW a \in Vertices, NEW b \in Vertices
  PROVE  /\ Push(f, a, b) \in [Vertices -> Seq(Vertices)]
         /\ \A u \in Vertices : \A v : Holds(Push(f, a, b)[u], v) <=> Holds(f[u], v) \/ (u = a /\ v = b)
<1>1. PICK s : s = Append(f[a], b)
  OBVIOUS
<1>2. s \in Seq(Vertices) /\ \A v : Holds(s, v) <=> Holds(f[a], v) \/ v = b
  BY <1>1, AppendHolds
<1>3. PICK g : g = Push(f, a, b)
  OBVIOUS
<1>4. g = [f EXCEPT ![a] = s]
  BY <1>1, <1>3 DEF Push
<1>5. g \in [Vertices -> Seq(Vertices)] /\ g[a] = s /\ \A u \in Vertices : u # a => g[u] = f[u]
  BY <1>2, <1>4
<1>6. \A u \in Vertices : \A v : Holds(g[u], v) <=> Holds(f[u], v) \/ (u = a /\ v = b)
  BY <1>2, <1>5
<1> QED BY <1>3, <1>5, <1>6

LEMMA AdjlistIs ==
  /\ adjlist \in [Vertices -> Seq(Vertices)]
  /\ \A u \in Vertices : \A v : Holds(adjlist[u], v) <=> Adjacent(u, v)
<1> DEFINE N == Len(roads)
           X == [Vertices -> Seq(Vertices)]
           z == [v \in Vertices |-> <<>>]
           Both(f, n) == Push(Push(f, roads[n][1], roads[n][2]), roads[n][2], roads[n][1])
           F == [n \in Nat |-> [f \in X |-> IF n \in 1..N THEN Both(f, n) ELSE f]]
           Is(g) == g = [n \in 0..N |-> IF n = 0 THEN z ELSE Both(g[n - 1], n)]
<1>1. N \in Nat /\ \A n \in 1..N : /\ roads[n][1] \in Vertices /\ roads[n][2] \in Vertices
                                   /\ roads[n] = <<roads[n][1], roads[n][2]>>
  <2>1. roads \in Seq(Vertices \X Vertices)
    BY MapAssumption
  <2>2. N \in Nat
    BY <2>1, LenProperties
  <2>3. \A n \in 1..N : roads[n] \in Vertices \X Vertices
    BY <2>1, ElementOfSeq
  <2> QED BY <2>2, <2>3
<1>2. z \in X
  <2>1. <<>> \in Seq(Vertices)
    BY EmptySeq
  <2> QED BY <2>1
<1>3. ASSUME NEW f \in X, NEW n \in 1..N
      PROVE  /\ Both(f, n) \in X
             /\ \A u \in Vertices : \A v :
                  Holds(Both(f, n)[u], v) <=> Holds(f[u], v) \/ roads[n] \in {<<u, v>>, <<v, u>>}
  <2>1. PICK a, b : a = roads[n][1] /\ b = roads[n][2]
    OBVIOUS
  <2>2. a \in Vertices /\ b \in Vertices /\ roads[n] = <<a, b>>
    BY <1>1, <2>1
  <2>3. PICK h : h = Push(f, a, b)
    OBVIOUS
  <2>4. h \in X /\ \A u \in Vertices : \A v : Holds(h[u], v) <=> Holds(f[u], v) \/ (u = a /\ v = b)
    BY <2>2, <2>3, PushHolds
  <2>5. PICK g : g = Push(h, b, a)
    OBVIOUS
  <2>6. g \in X /\ \A u \in Vertices : \A v : Holds(g[u], v) <=> Holds(h[u], v) \/ (u = b /\ v = a)
    BY <2>2, <2>4, <2>5, PushHolds
  <2>7. Both(f, n) = g
    BY <2>1, <2>3, <2>5
  <2>8. \A u, v : roads[n] \in {<<u, v>>, <<v, u>>} <=> (u = a /\ v = b) \/ (u = b /\ v = a)
    BY <2>2
  <2> HIDE DEF Both, X
  <2> QED BY <2>4, <2>6, <2>7, <2>8
<1> HIDE DEF Both
<1>4. \A n \in Nat : \A f \in X : F[n][f] = IF n \in 1..N THEN Both(f, n) ELSE f
  <2> HIDE DEF X, N
  <2> QED OBVIOUS
<1>5. \A n \in Nat : \A f \in X : F[n][f] \in X
  <2> HIDE DEF F, X, N
  <2> QED BY <1>3, <1>4
<1>6. PICK g \in [0..N -> X] : Iterates(g, z, F, N)
  <2> HIDE DEF F, X, N, z
  <2> QED BY <1>1, <1>2, <1>5, RecursionExists
<1>7. Is(g)
  <2>1. \A n \in 1..N : n \in Nat /\ g[n - 1] \in X
    <3> HIDE DEF X
    <3> QED BY <1>1
  <2>2. \A n \in 1..N : g[n] = Both(g[n - 1], n)
    <3> HIDE DEF X, N, F, z
    <3> QED BY <2>1, <1>4, <1>6 DEF Iterates
  <2>3. g = [n \in 0..N |-> g[n]] /\ \A n \in 0..N : n = 0 \/ n \in 1..N
    <3> HIDE DEF X
    <3> QED BY <1>1
  <2>4. g[0] = z
    <3> HIDE DEF z, F, N, X
    <3> QED BY <1>6 DEF Iterates
  <2> HIDE DEF F, X, N, z
  <2> QED BY <2>2, <2>3, <2>4
<1>8. PICK w : w = CHOOSE b : Is(b)
  OBVIOUS
<1>9. Is(w)
  BY <1>7, <1>8
<1>10. adjlist = w[N]
  BY <1>8 DEF adjlist, Both
<1>11. w[0] = z /\ \A n \in Nat : n < N => w[n + 1] = Both(w[n], n + 1)
  <2>1. 0 \in 0..N /\ \A n \in Nat : n < N => n + 1 \in 0..N /\ n + 1 # 0 /\ (n + 1) - 1 = n
    BY <1>1
  <2> HIDE DEF N, z
  <2> QED BY <1>9, <2>1
<1> DEFINE Known(n, u, v) == \E k \in 1..n : roads[k] \in {<<u, v>>, <<v, u>>}
           T == {n \in Nat : n <= N =>
                   w[n] \in X /\ \A u \in Vertices : \A v : Holds(w[n][u], v) <=> Known(n, u, v)}
<1>12. 0 \in T
  <2>1. \A u \in Vertices : w[0][u] = <<>>
    BY <1>11
  <2>2. \A u \in Vertices : \A v : ~Holds(w[0][u], v)
    BY <2>1 DEF Holds
  <2>3. w[0] \in X
    BY <1>11, <1>2
  <2>4. \A u, v : ~Known(0, u, v)
    <3>1. 1..0 = {}
      OBVIOUS
    <3> QED BY <3>1
  <2> HIDE DEF Known, X
  <2> QED BY <2>2, <2>3, <2>4
<1>13. ASSUME NEW n \in T PROVE n + 1 \in T
  <2> HIDE DEF X, Known, N
  <2> SUFFICES ASSUME n + 1 <= N
               PROVE  /\ w[n + 1] \in X
                      /\ \A u \in Vertices : \A v : Holds(w[n + 1][u], v) <=> Known(n + 1, u, v)
    OBVIOUS
  <2>1. n \in Nat /\ n <= N /\ n < N /\ n + 1 \in 1..N
    BY <1>1
  <2>2. w[n] \in X /\ \A u \in Vertices : \A v : Holds(w[n][u], v) <=> Known(n, u, v)
    BY <2>1
  <2>3. w[n + 1] = Both(w[n], n + 1)
    BY <2>1, <1>11
  <2>4. \A u, v : Known(n + 1, u, v) <=> Known(n, u, v) \/ roads[n + 1] \in {<<u, v>>, <<v, u>>}
    <3>1. \A k : k \in 1..n + 1 <=> k \in 1..n \/ k = n + 1
      BY <2>1
    <3> QED BY <3>1 DEF Known
  <2> QED BY <2>1, <2>2, <2>3, <2>4, <1>3
<1>14. N \in T
  <2>1. T \in SUBSET Nat
    OBVIOUS
  <2> HIDE DEF T
  <2> QED BY <1>1, <1>12, <1>13, <2>1, FromZeroUp
<1>15. w[N] \in X /\ \A u \in Vertices : \A v : Holds(w[N][u], v) <=> Known(N, u, v)
  BY <1>1, <1>14
<1> QED BY <1>10, <1>15 DEF Adjacent

LEMMA ConcatHolds ==
  ASSUME NEW S, NEW s \in Seq(S), NEW t \in Seq(S)
  PROVE  s \o t \in Seq(S) /\ \A v : Holds(s \o t, v) <=> Holds(s, v) \/ Holds(t, v)
<1>1. PICK c : c = s \o t
  OBVIOUS
<1>2. c \in Seq(S) /\ Len(c) = Len(s) + Len(t) /\ Len(s) \in Nat /\ Len(t) \in Nat
      /\ \A k \in 1..Len(s) + Len(t) : c[k] = IF k <= Len(s) THEN s[k] ELSE t[k - Len(s)]
  BY <1>1, ConcatProperties, LenProperties
<1>3. \A k \in 1..Len(c) : \/ k \in 1..Len(s) /\ c[k] = s[k]
                           \/ k - Len(s) \in 1..Len(t) /\ c[k] = t[k - Len(s)]
  BY <1>2
<1>4. \A k \in 1..Len(s) : k \in 1..Len(c) /\ c[k] = s[k]
  BY <1>2
<1>5. \A k \in 1..Len(t) : k + Len(s) \in 1..Len(c) /\ c[k + Len(s)] = t[k]
  BY <1>2
<1>6. \A v : Holds(c, v) <=> Holds(s, v) \/ Holds(t, v)
  BY <1>3, <1>4, <1>5 DEF Holds
<1> QED BY <1>1, <1>2, <1>6

LEMMA ReverseHolds ==
  ASSUME NEW S, NEW s \in Seq(S)
  PROVE  Reverse(s) \in Seq(S) /\ \A v : Holds(Reverse(s), v) <=> Holds(s, v)
<1>1. PICK r : r = Reverse(s)
  OBVIOUS
<1>2. PICK n : n = Len(s)
  OBVIOUS
<1>3. n \in Nat /\ \A k \in 1..n : s[k] \in S
  BY <1>2, LenProperties, ElementOfSeq
<1>4. r = [k \in 1..n |-> s[(n - k) + 1]]
  BY <1>1, <1>2 DEF Reverse
<1>5. \A k \in 1..n : (n - k) + 1 \in 1..n /\ (n - ((n - k) + 1)) + 1 = k
  BY <1>3
<1>6. r \in Seq(S) /\ Len(r) = n
  <2>1. \A k \in 1..n : s[(n - k) + 1] \in S
    BY <1>3, <1>5
  <2> QED BY <1>3, <1>4, <2>1, IsASeq
<1>7. \A v : Holds(r, v) <=> Holds(s, v)
  <2>1. \A k \in 1..n : r[k] = s[(n - k) + 1] /\ s[k] = r[(n - k) + 1]
    BY <1>4, <1>5
  <2> QED BY <1>2, <1>5, <1>6, <2>1 DEF Holds
<1> QED BY <1>1, <1>6, <1>7

LEMMA FlattenHolds ==
  ASSUME NEW S, NEW N \in Nat, NEW ss, ss \in [1..N -> Seq(S)], Len(ss) = N
  PROVE  FlattenSeq(ss) \in Seq(S) /\ \A v : Holds(FlattenSeq(ss), v) <=> \E k \in 1..N : Holds(ss[k], v)
<1>1. CASE N = 0
  <2>1. ss = <<>> /\ 1..N = {}
    BY <1>1
  <2>2. FlattenSeq(ss) = <<>>
    BY <1>1, <2>1 DEF FlattenSeq
  <2>3. <<>> \in Seq(S) /\ \A v : ~Holds(<<>>, v)
    BY EmptySeq DEF Holds
  <2> QED BY <2>1, <2>2, <2>3
<1>2. CASE N # 0
  <2> DEFINE X == Seq(S)
             F == [n \in Nat |-> [s \in X |-> IF n + 1 \in 1..N THEN s \o ss[n + 1] ELSE s]]
             M == N - 1
             Is(g) == g = [k \in 1..N |-> IF k = 1 THEN ss[k] ELSE g[k - 1] \o ss[k]]
  <2>1. M \in Nat /\ \A k \in 1..N : ss[k] \in X
    BY <1>2
  <2>2. \A n \in Nat : \A s \in X : F[n][s] = IF n + 1 \in 1..N THEN s \o ss[n + 1] ELSE s
    <3> HIDE DEF X
    <3> QED OBVIOUS
  <2>3. \A n \in Nat : \A s \in X : F[n][s] \in X
    <3>1. \A n \in Nat : \A s \in X : n + 1 \in 1..N => s \o ss[n + 1] \in X
      BY <2>1, ConcatHolds
    <3> HIDE DEF F, X
    <3> QED BY <2>2, <3>1
  <2>4. ss[1] \in X
    BY <2>1
  <2>5. PICK h \in [0..M -> X] : Iterates(h, ss[1], F, M)
    <3>1. PICK z : z = ss[1]
      OBVIOUS
    <3> HIDE DEF F, X, M
    <3> QED BY <2>1, <2>3, <2>4, <3>1, RecursionExists
  <2>6. PICK g : g = [k \in 1..N |-> h[k - 1]]
    OBVIOUS
  <2>7. \A k \in 1..N : k - 1 \in 0..M /\ g[k] = h[k - 1] /\ h[k - 1] \in X
    <3> HIDE DEF X
    <3> QED BY <2>1, <2>6
  <2>8. ASSUME NEW k \in 1..N, k # 1 PROVE g[k] = g[k - 1] \o ss[k]
    <3>1. k - 1 \in 1..M /\ k - 1 \in Nat /\ (k - 1) + 1 = k /\ k - 1 \in 1..N
      BY <2>1, <2>8
    <3>2. h[k - 1] = F[k - 1][h[(k - 1) - 1]]
      <4> HIDE DEF F, M, X
      <4> QED BY <3>1, <2>5 DEF Iterates
    <3>3. g[k] = F[k - 1][g[k - 1]] /\ g[k - 1] \in X
      <4> HIDE DEF F, X
      <4> QED BY <3>1, <3>2, <2>7
    <3> HIDE DEF F, X
    <3> QED BY <3>1, <3>3, <2>2
  <2>9. Is(g)
    <3>1. g[1] = ss[1] /\ g = [k \in 1..N |-> g[k]]
      <4>1. g[1] = h[0]
        BY <2>1, <2>7
      <4> HIDE DEF F, X
      <4> QED BY <4>1, <2>5, <2>6 DEF Iterates
    <3> HIDE DEF F, X, M
    <3> QED BY <3>1, <2>8
  <2>10. PICK w : w = CHOOSE b : Is(b)
    OBVIOUS
  <2>11. Is(w)
    BY <2>9, <2>10
  <2>12. FlattenSeq(ss) = w[N]
    BY <1>2, <2>10 DEF FlattenSeq
  <2> DEFINE Upto(k, v) == \E j \in 1..k : Holds(ss[j], v)
             T == {n \in Nat : n < N => w[n + 1] \in X /\ \A v : Holds(w[n + 1], v) <=> Upto(n + 1, v)}
  <2>13. 0 \in T
    <3>1. w[0 + 1] = ss[1]
      BY <2>1, <2>11
    <3>2. \A v : Upto(0 + 1, v) <=> Holds(ss[1], v)
      <4>1. \A j : j \in 1..0 + 1 <=> j = 1
        OBVIOUS
      <4> QED BY <4>1
    <3> HIDE DEF Upto, X, Is
    <3> QED BY <2>4, <3>1, <3>2
  <2>14. ASSUME NEW n \in T PROVE n + 1 \in T
    <3> HIDE DEF Upto, X, Is
    <3> SUFFICES ASSUME n + 1 < N
                 PROVE  /\ w[(n + 1) + 1] \in X
                        /\ \A v : Holds(w[(n + 1) + 1], v) <=> Upto((n + 1) + 1, v)
      OBVIOUS
    <3>1. n \in Nat /\ n < N /\ (n + 1) + 1 \in 1..N /\ (n + 1) + 1 # 1 /\ ((n + 1) + 1) - 1 = n + 1
      OBVIOUS
    <3>2. w[n + 1] \in X /\ \A v : Holds(w[n + 1], v) <=> Upto(n + 1, v)
      BY <3>1
    <3>3. w[(n + 1) + 1] = w[n + 1] \o ss[(n + 1) + 1]
      BY <3>1, <2>11 DEF Is
    <3>4. \A v : Upto((n + 1) + 1, v) <=> Upto(n + 1, v) \/ Holds(ss[(n + 1) + 1], v)
      <4>1. \A j : j \in 1..(n + 1) + 1 <=> j \in 1..n + 1 \/ j = (n + 1) + 1
        BY <3>1
      <4> QED BY <4>1 DEF Upto
    <3>5. ss[(n + 1) + 1] \in X
      BY <2>1, <3>1
    <3>6. /\ w[(n + 1) + 1] \in X
          /\ \A v : Holds(w[(n + 1) + 1], v) <=> Holds(w[n + 1], v) \/ Holds(ss[(n + 1) + 1], v)
      BY <3>2, <3>3, <3>5, ConcatHolds DEF X
    <3> QED BY <3>2, <3>4, <3>6
  <2>15. M \in T
    <3>1. T \in SUBSET Nat
      OBVIOUS
    <3> HIDE DEF T, M
    <3> QED BY <2>1, <2>13, <2>14, <3>1, FromZeroUp
  <2>16. w[N] \in X /\ \A v : Holds(w[N], v) <=> Upto(N, v)
    <3>1. M + 1 = N /\ M < N
      BY <2>1
    <3> HIDE DEF X, Upto, M
    <3> QED BY <2>1, <2>15, <3>1
  <2> QED BY <2>12, <2>16
<1> QED BY <1>1, <1>2

(* NeighborsOf(vs) holds the neighbours of the vertices of vs, and no      *)
(* other vertex.                                                           *)
LEMMA NeighborsOfHolds ==
  ASSUME NEW vs \in Seq(Vertices)
  PROVE  /\ NeighborsOf(vs) \in Seq(Vertices)
         /\ \A v : Holds(NeighborsOf(vs), v) <=> \E k \in 1..Len(vs) : Adjacent(vs[k], v)
<1>1. PICK n : n = Len(vs)
  OBVIOUS
<1>2. n \in Nat /\ \A k \in 1..n : vs[k] \in Vertices
  BY <1>1, LenProperties, ElementOfSeq
<1>3. PICK ss : ss = [k \in 1..n |-> Reverse(adjlist[vs[k]])]
  OBVIOUS
<1>4. ASSUME NEW k \in 1..n
      PROVE  ss[k] \in Seq(Vertices) /\ \A v : Holds(ss[k], v) <=> Adjacent(vs[k], v)
  <2>1. adjlist[vs[k]] \in Seq(Vertices) /\ \A v : Holds(adjlist[vs[k]], v) <=> Adjacent(vs[k], v)
    BY <1>2, AdjlistIs
  <2>2. ss[k] = Reverse(adjlist[vs[k]])
    BY <1>3
  <2> QED BY <2>1, <2>2, ReverseHolds
<1>5. ss \in [1..n -> Seq(Vertices)]
  <2>1. ss = [k \in 1..n |-> ss[k]]
    BY <1>3
  <2> QED BY <1>4, <2>1
<1>6. Len(ss) = n
  BY <1>2, <1>5
<1>7. NeighborsOf(vs) = FlattenSeq(ss)
  BY <1>1, <1>3 DEF NeighborsOf
<1>8. /\ FlattenSeq(ss) \in Seq(Vertices)
      /\ \A v : Holds(FlattenSeq(ss), v) <=> \E k \in 1..n : Holds(ss[k], v)
  BY <1>2, <1>5, <1>6, FlattenHolds
<1> QED BY <1>1, <1>4, <1>7, <1>8

-----------------------------------------------------------------------------
(* The levels of a search from s: what lies d roads away, and up to d.     *)
Sphere(s, d) == {v \in Vertices : Distance[s][v] = d /\ d # Unreachable}
Ball(s, d) == {v \in Vertices : Distance[s][v] <= d /\ Distance[s][v] # Unreachable}

LEMMA FirstLevel ==
  ASSUME NEW s \in Vertices
  PROVE  Ball(s, 0) = {s} /\ Sphere(s, 0) = {s}
<1>1. num_vertices \in Nat /\ num_vertices # 0 /\ s \in Vertices
  BY HousesAreVertices DEF Vertices
<1>2. \A v \in Vertices : Distance[s][v] \in 0..num_vertices /\ (Distance[s][v] = 0 <=> v = s)
  BY DistanceFacts
<1>3. \A v \in Vertices : Distance[s][v] <= 0 <=> Distance[s][v] = 0
  BY <1>1, <1>2
<1> QED BY <1>1, <1>2, <1>3 DEF Ball, Sphere, Unreachable

(* The next level is what is one road from this one and was not found yet. *)
LEMMA NextLevel ==
  ASSUME NEW s \in Vertices, NEW d \in Nat
  PROVE  /\ Ball(s, d + 1) = Ball(s, d) \cup Sphere(s, d + 1)
         /\ Ball(s, d) \cap Sphere(s, d + 1) = {}
         /\ Sphere(s, d) \subseteq Ball(s, d) /\ Ball(s, d) \subseteq Vertices
         /\ \A u \in Sphere(s, d) : \A v \in Vertices : Adjacent(u, v) => v \in Ball(s, d + 1)
         /\ \A v \in Sphere(s, d + 1) : \E u \in Sphere(s, d) : Adjacent(u, v)
<1>1. PICK N, D : N = num_vertices /\ D = Distance[s]
  OBVIOUS
<1>2. N \in Nat /\ \A v \in Vertices : D[v] \in 0..N
  BY <1>1, HousesAreVertices, DistanceFacts
<1>3. \A u, v \in Vertices : Adjacent(u, v) /\ D[u] # N => D[v] # N /\ D[v] <= D[u] + 1
  BY <1>1, DistanceFacts DEF Unreachable
<1>4. \A v \in Vertices : D[v] \notin {0, N} => \E u \in Vertices : Adjacent(u, v) /\ D[u] = D[v] - 1
  BY <1>1, DistanceFacts DEF Unreachable
<1>5. /\ \A e : \A v : v \in Sphere(s, e) <=> v \in Vertices /\ D[v] = e /\ e # N
      /\ \A e : \A v : v \in Ball(s, e) <=> v \in Vertices /\ D[v] <= e /\ D[v] # N
  BY <1>1 DEF Sphere, Ball, Unreachable
<1>6. \A v \in Vertices : D[v] <= d + 1 <=> D[v] <= d \/ D[v] = d + 1
  BY <1>2
<1>7. Ball(s, d + 1) = Ball(s, d) \cup Sphere(s, d + 1)
  BY <1>5, <1>6
<1>8. Ball(s, d) \cap Sphere(s, d + 1) = {}
  BY <1>5, <1>2
<1>9. Sphere(s, d) \subseteq Ball(s, d) /\ Ball(s, d) \subseteq Vertices
  BY <1>5, <1>2
<1>10. \A u \in Sphere(s, d) : \A v \in Vertices : Adjacent(u, v) => v \in Ball(s, d + 1)
  BY <1>3, <1>5
<1>11. ASSUME NEW v \in Sphere(s, d + 1)
       PROVE  \E u \in Sphere(s, d) : Adjacent(u, v)
  <2>1. v \in Vertices /\ D[v] = d + 1 /\ D[v] # N /\ D[v] # 0 /\ D[v] - 1 = d
    BY <1>5
  <2>2. PICK u \in Vertices : Adjacent(u, v) /\ D[u] = d
    BY <2>1, <1>4
  <2>3. d # N
    BY <1>2, <2>1
  <2> QED BY <2>2, <2>3, <1>5
<1> QED BY <1>7, <1>8, <1>9, <1>10, <1>11

(* When a level is empty, everything that can be reached was found before. *)
LEMMA LastLevel ==
  ASSUME NEW s \in Vertices, NEW d \in Nat, Sphere(s, d) = {}
  PROVE  \A v \in Vertices : Distance[s][v] # Unreachable => v \in Ball(s, d)
<1> DEFINE T == {k \in Nat : Sphere(s, d + k) = {}}
<1>1. 0 \in T
  OBVIOUS
<1>2. ASSUME NEW k \in T PROVE k + 1 \in T
  <2>1. k \in Nat /\ d + k \in Nat /\ d + (k + 1) = (d + k) + 1 /\ Sphere(s, d + k) = {}
    OBVIOUS
  <2>2. \A v \in Sphere(s, (d + k) + 1) : \E u \in Sphere(s, d + k) : Adjacent(u, v)
    BY <2>1, NextLevel
  <2> QED BY <2>1, <2>2
<1>3. T = Nat
  <2>1. T \in SUBSET Nat
    OBVIOUS
  <2> HIDE DEF T
  <2> QED BY <1>1, <1>2, <2>1, FromZeroUp
<1>4. ASSUME NEW v \in Vertices, Distance[s][v] # Unreachable
      PROVE  v \in Ball(s, d)
  <2>1. PICK e : e = Distance[s][v]
    OBVIOUS
  <2>2. e \in Nat
    BY <2>1, DistanceFacts, HousesAreVertices
  <2>3. v \in Sphere(s, e)
    BY <2>1, <1>4 DEF Sphere
  <2>4. CASE e <= d
    BY <2>1, <2>4, <1>4 DEF Ball
  <2>5. CASE ~(e <= d)
    <3>1. e - d \in Nat /\ d + (e - d) = e
      BY <2>2, <2>5
    <3>2. Sphere(s, d + (e - d)) = {}
      BY <1>3, <3>1
    <3> QED BY <2>3, <3>1, <3>2
  <2> QED BY <2>4, <2>5
<1> QED BY <1>4

-----------------------------------------------------------------------------
(* Ways between two vertices *)

(* Going from s to v and on to u is a way from s to u. *)
LEMMA Triangle ==
  ASSUME NEW s \in Vertices, NEW u \in Vertices, NEW v \in Vertices,
         Distance[s][v] # Unreachable, Distance[u][v] # Unreachable
  PROVE  Distance[s][u] # Unreachable /\ Distance[s][u] <= Distance[s][v] + Distance[u][v]
<1>1. PICK N, S, U : N = num_vertices /\ S = Distance[s] /\ U = Distance[u]
  OBVIOUS
<1>2. N \in Nat /\ Unreachable = N /\ \A w \in Vertices : S[w] \in 0..N /\ U[w] \in 0..N /\ (U[w] = 0 <=> w = u)
  BY <1>1, HousesAreVertices, DistanceFacts DEF Unreachable
<1>3. \A x, w \in Vertices : Adjacent(x, w) /\ S[x] # N => S[w] # N /\ S[w] <= S[x] + 1
  BY <1>1, DistanceFacts DEF Unreachable
<1>4. \A w \in Vertices : U[w] \notin {0, N} => \E x \in Vertices : Adjacent(x, w) /\ U[x] = U[w] - 1
  BY <1>1, DistanceFacts DEF Unreachable
<1> DEFINE T == {k \in Nat : \A w \in Vertices : U[w] = k /\ k # N /\ S[w] # N =>
                               S[u] # N /\ S[u] <= S[w] + k}
<1>5. 0 \in T
  BY <1>2
<1>6. ASSUME NEW k \in T
      PROVE  k + 1 \in T
  <2> SUFFICES ASSUME NEW w \in Vertices, U[w] = k + 1, k + 1 # N, S[w] # N
               PROVE  S[u] # N /\ S[u] <= S[w] + (k + 1)
    OBVIOUS
  <2>1. k \in Nat /\ U[w] \notin {0, N} /\ U[w] - 1 = k /\ k # N
    BY <1>2
  <2>2. PICK x \in Vertices : Adjacent(x, w) /\ U[x] = k
    BY <2>1, <1>4
  <2>3. S[x] # N /\ S[x] <= S[w] + 1
    BY <2>2, <1>3, RoadsBothWays
  <2>4. S[u] # N /\ S[u] <= S[x] + k
    BY <2>1, <2>2, <2>3
  <2>5. S[u] \in Nat /\ S[x] \in Nat /\ S[w] \in Nat
    BY <1>2
  <2> HIDE DEF T
  <2> QED BY <2>1, <2>3, <2>4, <2>5
<1>7. T = Nat
  <2>1. T \in SUBSET Nat
    OBVIOUS
  <2> HIDE DEF T
  <2> QED BY <1>5, <1>6, <2>1, FromZeroUp
<1>8. U[v] \in Nat /\ U[v] # N /\ S[v] # N
  BY <1>1, <1>2
<1>9. PICK k \in T : k = U[v]
  BY <1>7, <1>8
<1> QED BY <1>1, <1>2, <1>8, <1>9

(* A shortest way has a vertex at every distance from its ends. *)
LEMMA Halfway ==
  ASSUME NEW s \in Vertices, NEW u \in Vertices, Distance[s][u] # Unreachable,
         NEW i \in 0..Distance[s][u]
  PROVE  \E v \in Vertices : Distance[s][v] = i /\ Distance[u][v] = Distance[s][u] - i
<1>1. PICK N, S, U, D : N = num_vertices /\ S = Distance[s] /\ U = Distance[u] /\ D = Distance[s][u]
  OBVIOUS
<1>2. N \in Nat /\ Unreachable = N /\ D = S[u]
      /\ \A w \in Vertices : S[w] \in 0..N /\ U[w] \in 0..N /\ (U[w] = 0 <=> w = u)
  BY <1>1, HousesAreVertices, DistanceFacts DEF Unreachable
<1>3. \A x, w \in Vertices : Adjacent(x, w) /\ U[x] # N => U[w] # N /\ U[w] <= U[x] + 1
  BY <1>1, DistanceFacts DEF Unreachable
<1>4. \A w \in Vertices : S[w] \notin {0, N} => \E x \in Vertices : Adjacent(x, w) /\ S[x] = S[w] - 1
  BY <1>1, DistanceFacts DEF Unreachable
<1>5. D \in Nat /\ D < N /\ i \in 0..D
  BY <1>1, <1>2
<1> DEFINE T == {k \in Nat : k <= D => \E w \in Vertices : S[w] = D - k /\ U[w] = k}
<1>6. 0 \in T
  BY <1>2, <1>5
<1>7. ASSUME NEW k \in T
      PROVE  k + 1 \in T
  <2> SUFFICES ASSUME k + 1 <= D
               PROVE  \E w \in Vertices : S[w] = D - (k + 1) /\ U[w] = k + 1
    OBVIOUS
  <2>1. k \in Nat /\ k <= D
    BY <1>5
  <2>2. PICK w \in Vertices : S[w] = D - k /\ U[w] = k
    BY <2>1
  <2>3. S[w] \notin {0, N} /\ U[w] # N
    BY <2>1, <2>2, <1>5, <1>2
  <2>4. PICK x \in Vertices : Adjacent(x, w) /\ S[x] = S[w] - 1
    BY <2>3, <1>4
  <2>5. U[x] # N /\ U[x] <= k + 1
    BY <2>2, <2>3, <2>4, <1>3, RoadsBothWays
  <2>6. S[x] # N
    BY <2>1, <2>2, <2>4, <1>5
  <2>7. S[u] <= S[x] + U[x]
    BY <2>5, <2>6, <1>1, <1>2, Triangle
  <2>8. S[x] = D - (k + 1) /\ U[x] = k + 1
    BY <2>1, <2>2, <2>4, <2>5, <2>7, <1>2, <1>5
  <2> HIDE DEF T
  <2> QED BY <2>8
<1>8. T = Nat
  <2>1. T \in SUBSET Nat
    OBVIOUS
  <2> HIDE DEF T
  <2> QED BY <1>6, <1>7, <2>1, FromZeroUp
<1>9. PICK k \in T : k = D - i
  <2>1. D - i \in Nat
    BY <1>5
  <2> HIDE DEF T
  <2> QED BY <1>8, <2>1
<1>10. k <= D /\ D - k = i
  BY <1>5, <1>9
<1> QED BY <1>1, <1>9, <1>10
=============================================================================
