---------------------------- MODULE FAT32Proofs ----------------------------
(***************************************************************************)
(* Proofs about the file system driver (module FAT32).                     *)
(***************************************************************************)
EXTENDS FAT32, TLAPS, FiniteSetTheorems, SequenceTheorems, WellFoundedInduction

-----------------------------------------------------------------------------
(* Least elements and induction up to a bound *)

(***************************************************************************)
(* A non-empty set of naturals has a least element, and Min names it: the  *)
(* first entry with a name, the first entry that is not used.              *)
(***************************************************************************)
LEMMA MinProperty ==
  ASSUME NEW S, S \subseteq Nat, S # {}
  PROVE  Min(S) \in S /\ \A y \in S : Min(S) <= y
<1> DEFINE Less == {ss \in Nat \X Nat : ss[1] < ss[2]}
<1>1. IsWellFoundedOn(Less, Nat)
  BY NatLessThanWellFounded DEF OpToRel
<1>2. \E x \in S : \A y \in S : ~(<<y, x>> \in Less)
  <2> HIDE DEF Less
  <2> QED
    BY <1>1, WFMin
<1>3. \E x \in S : \A y \in S : x <= y
  <2>1. PICK x \in S : \A y \in S : ~(<<y, x>> \in Less)
    BY <1>2
  <2>2. ASSUME NEW y \in S
        PROVE  x <= y
    <3>1. x \in Nat /\ y \in Nat
      OBVIOUS
    <3>2. ~(y < x)
      BY <2>1, <3>1
    <3> QED
      BY <3>1, <3>2
  <2> QED
    BY <2>2
<1> QED
  BY <1>3 DEF Min

(***************************************************************************)
(* Counting up from 0 within a set of numbers reaches every number.        *)
(***************************************************************************)
LEMMA CountingUp ==
  ASSUME NEW n \in Nat, NEW S,
         0 \in S,
         \A k \in 0 .. n : k < n /\ k \in S => k + 1 \in S
  PROVE  \A k \in 0 .. n : k \in S
<1> DEFINE Less == {ss \in Nat \X Nat : ss[1] < ss[2]}
           Missed == {k \in 0 .. n : k \notin S}
<1>1. IsWellFoundedOn(Less, Nat)
  BY NatLessThanWellFounded DEF OpToRel
<1> SUFFICES ASSUME Missed # {}
             PROVE  FALSE
  OBVIOUS
<1>2. Missed \subseteq Nat
  OBVIOUS
<1>3. \E x \in Missed : \A y \in Missed : ~(<<y, x>> \in Less)
  <2> HIDE DEF Less, Missed
  <2> QED
    BY <1>1, <1>2, WFMin
<1>4. PICK x \in Missed : \A y \in Missed : ~(<<y, x>> \in Less)
  BY <1>3
<1>5. x \in 0 .. n /\ x \notin S
  OBVIOUS
<1>6. x # 0
  BY <1>5
<1>7. x - 1 \in 0 .. n /\ x - 1 < n /\ x - 1 + 1 = x
  BY <1>5, <1>6
<1>8. x - 1 \in S
  <2>1. <<x - 1, x>> \in Less
    BY <1>5, <1>7
  <2>2. x - 1 \notin Missed
    BY <2>1, <1>4
  <2> QED
    BY <2>2, <1>7
<1> QED
  BY <1>8, <1>7, <1>5

-----------------------------------------------------------------------------
(* Clusters and their allocation *)

(***************************************************************************)
(* The FAT has more than the three entries that formatting fills.          *)
(***************************************************************************)
LEMMA SizeFacts ==
  /\ CLUSTER_MAP_SIZE \in Nat /\ CLUSTER_MAP_SIZE > 3
  /\ {0, 1, 2} \subseteq Clusters
  /\ Clusters \subseteq Nat
  /\ TableSize \in Nat /\ TableSize > 1 /\ Positions \subseteq Nat /\ 0 \in Positions
BY MapSizeAssumption, TableSizeAssumption DEF Clusters, Positions

(***************************************************************************)
(* Free clusters lie above the root directory; there are finitely many.    *)
(***************************************************************************)
LEMMA FreeFacts ==
  ASSUME NEW map
  PROVE  /\ FreeClusters(map) \subseteq Clusters
         /\ \A c \in FreeClusters(map) : c >= ROOT_CLUSTER_NUMBER /\ map[c] = FAT32_FAT_EMPTY_ENTRY
         /\ IsFiniteSet(FreeClusters(map))
         /\ Cardinality(FreeClusters(map)) \in Nat
<1>1. FreeClusters(map) \subseteq 2 .. CLUSTER_MAP_SIZE - 1
  BY DEF FreeClusters, ROOT_CLUSTER_NUMBER
<1>2. IsFiniteSet(2 .. CLUSTER_MAP_SIZE - 1)
  BY SizeFacts, FS_Interval
<1>3. IsFiniteSet(FreeClusters(map))
  BY <1>1, <1>2, FS_Subset
<1>4. Cardinality(FreeClusters(map)) \in Nat
  BY <1>3, FS_CardinalityType
<1> QED
  BY <1>3, <1>4, SizeFacts DEF FreeClusters, Clusters, ROOT_CLUSTER_NUMBER

(***************************************************************************)
(* While enough clusters are free, the search of write finds one for every *)
(* part of the file, and each of them once.                                *)
(***************************************************************************)
LEMMA AllocationFacts ==
  ASSUME NEW map, NEW n \in Nat, n <= Cardinality(FreeClusters(map))
  PROVE  /\ Allocation(map, n) \in Seq(Clusters) /\ Len(Allocation(map, n)) = n
         /\ \A k \in 1 .. n : Allocation(map, n)[k] \in FreeClusters(map)
         /\ \A j, k \in 1 .. n : Allocation(map, n)[j] = Allocation(map, n)[k] => j = k
<1> DEFINE free == FreeClusters(map)
           N == CLUSTER_MAP_SIZE
           below(m) == {b \in free : b < m}
           chain == Allocation(map, n)
<1>1. /\ free \subseteq Clusters /\ IsFiniteSet(free) /\ Cardinality(free) \in Nat
      /\ \A c \in free : c \in 2 .. N - 1
  BY FreeFacts DEF FreeClusters, ROOT_CLUSTER_NUMBER
<1>2. N \in Nat /\ N > 3
  BY SizeFacts
<1>3. n <= Cardinality(free)
  OBVIOUS
<1>4. chain = [k \in 1 .. n |-> CHOOSE c \in free : Cardinality(below(c)) = k - 1]
  BY DEF Allocation
<1> HIDE DEF free, N, chain
<1>5. \A m \in 0 .. N : IsFiniteSet(below(m)) /\ Cardinality(below(m)) \in Nat
  BY <1>1, FS_Subset, FS_CardinalityType
<1>6. ASSUME NEW k \in 1 .. n
      PROVE  \E c \in free : Cardinality(below(c)) = k - 1
  <2> DEFINE T == {m \in 0 .. N : k <= Cardinality(below(m))}
  <2>1. N \in T
    <3>1. below(N) = free
      BY <1>1, <1>2
    <3>2. k <= Cardinality(free)
      BY <1>1, <1>3
    <3>3. N \in 0 .. N
      BY <1>2
    <3> QED
      BY <3>1, <3>2, <3>3
  <2>2. PICK m \in T : \A i \in T : m <= i
    <3>1. T \subseteq 0 .. N
      OBVIOUS
    <3>2. T # {}
      BY <2>1
    <3> HIDE DEF T
    <3>3. T \subseteq Nat
      BY <3>1, <1>2
    <3>4. Min(T) \in T /\ \A i \in T : Min(T) <= i
      BY <3>2, <3>3, MinProperty
    <3> QED
      BY <3>4
  <2>3. m \in 0 .. N /\ k <= Cardinality(below(m))
    OBVIOUS
  <2>4. m # 0
    <3>1. below(0) = {}
      BY <1>1
    <3>2. Cardinality(below(0)) = 0
      BY <3>1, FS_EmptySet
    <3> QED
      BY <3>2, <2>3
  <2>5. PICK p \in 0 .. N : p = m - 1
    BY <2>3, <2>4, <1>2
  <2>6. Cardinality(below(p)) < k
    <3>1. p \notin T
      BY <2>2, <2>3, <2>5
    <3>2. ~(k <= Cardinality(below(p)))
      BY <3>1
    <3>3. Cardinality(below(p)) \in Nat
      BY <1>5
    <3> QED
      BY <3>2, <3>3
  <2>7. p \in free
    <3>1. SUFFICES ASSUME p \notin free
                   PROVE  FALSE
      OBVIOUS
    <3>2. below(m) = below(p)
      <4>1. \A b \in free : b < m <=> b < p
        BY <1>1, <1>2, <2>3, <2>5, <3>1
      <4> QED
        BY <4>1
    <3>3. Cardinality(below(m)) = Cardinality(below(p)) /\ Cardinality(below(p)) \in Nat
      BY <3>2, <1>5
    <3> QED
      BY <3>3, <2>3, <2>6
  <2>8. below(m) = below(p) \cup {p} /\ p \notin below(p)
    <3>1. \A b \in free : b < m <=> b < p \/ b = p
      BY <1>1, <1>2, <2>3, <2>5
    <3>2. ~(p < p)
      BY <2>5
    <3> QED
      BY <3>1, <3>2, <2>7
  <2>9. Cardinality(below(m)) = Cardinality(below(p)) + 1
    <3> DEFINE B == below(p)
    <3>1. IsFiniteSet(B) /\ p \notin B
      BY <1>5, <2>8
    <3>2. below(m) = B \cup {p}
      BY <2>8
    <3> HIDE DEF B
    <3>3. Cardinality(B \cup {p}) = Cardinality(B) + 1
      BY <3>1, FS_AddElement
    <3> QED
      BY <3>2, <3>3 DEF B
  <2>10. Cardinality(below(p)) = k - 1
    <3>1. Cardinality(below(p)) \in Nat
      BY <1>5
    <3> QED
      BY <3>1, <2>3, <2>6, <2>9
  <2> QED
    BY <2>7, <2>10
<1>7. \A k \in 1 .. n : chain[k] \in free /\ Cardinality(below(chain[k])) = k - 1
  BY <1>4, <1>6
<1>8. \A j, k \in 1 .. n : chain[j] = chain[k] => j = k
  <2>1. ASSUME NEW j \in 1 .. n, NEW k \in 1 .. n, chain[j] = chain[k]
        PROVE  j = k
    <3>1. Cardinality(below(chain[j])) = j - 1 /\ Cardinality(below(chain[k])) = k - 1
      BY <1>7
    <3>2. j - 1 = k - 1
      BY <3>1, <2>1
    <3> QED
      BY <3>2
  <2> QED
    BY <2>1
<1>9. chain \in [1 .. n -> Clusters]
  BY <1>1, <1>4, <1>7
<1>10. chain \in Seq(Clusters) /\ Len(chain) = n
  BY <1>9
<1> QED
  BY <1>7, <1>8, <1>10 DEF chain, free

-----------------------------------------------------------------------------
(* Chains *)

\* The walk along a chain, by the recursion that defines it.
ChainWalk(walk, map, first) ==
  [n \in 0 .. CLUSTER_MAP_SIZE |->
     IF n = 0 THEN <<first>>
     ELSE LET s == walk[n - 1] IN
          IF map[Last(s)] \in Clusters THEN Append(s, map[Last(s)]) ELSE s]

\* One more cluster of a chain, if it goes on.
Onward(map, s) == IF map[Last(s)] \in Clusters THEN Append(s, map[Last(s)]) ELSE s

(***************************************************************************)
(* The loop along a chain has a result after each round.                   *)
(***************************************************************************)
LEMMA WalkExists ==
  ASSUME NEW map, NEW first
  PROVE  \E f : f = ChainWalk(f, map, first)
<1> DEFINE N == CLUSTER_MAP_SIZE
           Upto(f, m) ==
             \A k \in 0 .. m : f[k] = IF k = 0 THEN <<first>> ELSE Onward(map, f[k - 1])
           S == {m \in 0 .. N : \E f : Upto(f, m)}
<1>0. N \in Nat
  BY SizeFacts
<1> HIDE DEF N
<1>1. 0 \in S
  <2>1. Upto([k \in {0} |-> <<first>>], 0)
    OBVIOUS
  <2>2. \E f : Upto(f, 0)
    BY <2>1
  <2> HIDE DEF Upto
  <2> QED
    BY <2>2, <1>0
<1>2. ASSUME NEW m \in 0 .. N, m < N, m \in S
      PROVE  m + 1 \in S
  <2>1. PICK f : Upto(f, m)
    BY <1>2
  <2> DEFINE g == [k \in 0 .. m + 1 |-> IF k <= m THEN f[k] ELSE Onward(map, f[m])]
  <2>2. \A k \in 0 .. m : g[k] = f[k]
    OBVIOUS
  <2>3. g[m + 1] = Onward(map, f[m])
    OBVIOUS
  <2>4. ASSUME NEW k \in 0 .. m + 1
        PROVE  g[k] = IF k = 0 THEN <<first>> ELSE Onward(map, g[k - 1])
    <3>1. CASE k = m + 1
      <4>1. k # 0 /\ k - 1 = m /\ m \in 0 .. m
        BY <3>1
      <4>2. g[k - 1] = f[m]
        BY <4>1, <2>2
      <4> HIDE DEF g
      <4> QED
        BY <4>1, <4>2, <2>3, <3>1
    <3>2. CASE k # m + 1
      <4>1. k \in 0 .. m /\ (k # 0 => k - 1 \in 0 .. m)
        BY <3>2
      <4>2. g[k] = f[k] /\ (k # 0 => g[k - 1] = f[k - 1])
        BY <4>1, <2>2
      <4>3. f[k] = IF k = 0 THEN <<first>> ELSE Onward(map, f[k - 1])
        BY <2>1, <4>1
      <4> HIDE DEF g
      <4> QED
        BY <4>2, <4>3
    <3> QED
      BY <3>1, <3>2
  <2>5. Upto(g, m + 1)
    BY <2>4
  <2>6. m + 1 \in 0 .. N
    BY <1>2, <1>0
  <2> HIDE DEF g
  <2> QED
    BY <2>5, <2>6
<1>3. \A m \in 0 .. N : m \in S
  <2> HIDE DEF S
  <2> QED
    BY <1>0, <1>1, <1>2, CountingUp
<1>4. PICK f : Upto(f, N)
  <2>1. N \in 0 .. N
    BY <1>0
  <2> QED
    BY <2>1, <1>3
<1> DEFINE h == [k \in 0 .. N |-> f[k]]
<1>5. h = ChainWalk(h, map, first)
  <2>1. ASSUME NEW k \in 0 .. N
        PROVE  h[k] = IF k = 0 THEN <<first>> ELSE Onward(map, h[k - 1])
    <3>1. k # 0 => k - 1 \in 0 .. N
      BY <1>0
    <3>2. h[k] = f[k] /\ (k # 0 => h[k - 1] = f[k - 1])
      BY <3>1
    <3>3. f[k] = IF k = 0 THEN <<first>> ELSE Onward(map, f[k - 1])
      BY <1>4
    <3> HIDE DEF h
    <3> QED
      BY <3>2, <3>3
  <2>2. h = [k \in 0 .. N |-> IF k = 0 THEN <<first>> ELSE Onward(map, h[k - 1])]
    BY <2>1
  <2> QED
    BY <2>2 DEF ChainWalk, Onward, N
<1> QED
  BY <1>5

\* A walk of clusters along the links of a map.
Walked(map, first, s) ==
  /\ s \in Seq(Clusters) /\ Len(s) > 0 /\ s[1] = first
  /\ \A i \in 1 .. Len(s) - 1 : s[i + 1] = map[s[i]]

(***************************************************************************)
(* One round of the loop.                                                  *)
(***************************************************************************)
LEMMA OnwardWalks ==
  ASSUME NEW map, NEW first, NEW s, Walked(map, first, s)
  PROVE  /\ Walked(map, first, Onward(map, s))
         /\ map[s[Len(s)]] \in Clusters => Len(Onward(map, s)) = Len(s) + 1
         /\ map[s[Len(s)]] \notin Clusters => Onward(map, s) = s
<1>1. s \in Seq(Clusters) /\ Last(s) = s[Len(s)]
  BY DEF Walked, Last
<1>2. PICK n \in Nat : n = Len(s)
  BY <1>1
<1>3. n > 0 /\ s[1] = first /\ \A i \in 1 .. n - 1 : s[i + 1] = map[s[i]]
  BY <1>2 DEF Walked
<1>4. CASE map[s[n]] \in Clusters
  <2> DEFINE c == map[s[n]]
             t == Append(s, c)
  <2>1. Onward(map, s) = t
    BY <1>1, <1>2, <1>4 DEF Onward
  <2> HIDE DEF c
  <2>2. c \in Clusters
    BY <1>4 DEF c
  <2>3. t \in Seq(Clusters) /\ Len(t) = n + 1 /\ t[n + 1] = c /\ \A i \in 1 .. n : t[i] = s[i]
    BY <2>2, <1>1, <1>2, AppendProperties
  <2> HIDE DEF t
  <2>4. t[1] = first
    <3>1. 1 \in 1 .. n
      BY <1>3
    <3> QED
      BY <3>1, <1>3, <2>3
  <2>5. ASSUME NEW i \in 1 .. n
        PROVE  t[i + 1] = map[t[i]]
    <3>1. CASE i = n
      BY <3>1, <2>3 DEF c
    <3>2. CASE i # n
      <4>1. i \in 1 .. n - 1 /\ i + 1 \in 1 .. n
        BY <3>2
      <4>2. t[i + 1] = s[i + 1] /\ t[i] = s[i]
        BY <4>1, <2>3
      <4> QED
        BY <4>1, <4>2, <1>3
    <3> QED
      BY <3>1, <3>2
  <2>6. Len(t) - 1 = n /\ Len(t) > 0
    BY <2>3
  <2>7. Walked(map, first, t)
    BY <2>3, <2>4, <2>5, <2>6 DEF Walked
  <2> QED
    BY <2>1, <2>3, <2>7, <1>2, <1>4
<1>5. CASE map[s[n]] \notin Clusters
  BY <1>5, <1>1, <1>2 DEF Onward
<1> QED
  BY <1>4, <1>5, <1>2

(***************************************************************************)
(* A chain starts at its first cluster and follows the map; it ends where  *)
(* the map names no cluster, or else is as long as the map.                *)
(***************************************************************************)
LEMMA ChainFacts ==
  ASSUME NEW map, NEW first \in Clusters
  PROVE  /\ Walked(map, first, Chain(map, first))
         /\ Len(Chain(map, first)) <= CLUSTER_MAP_SIZE
         /\ \/ map[Last(Chain(map, first))] \notin Clusters
            \/ Len(Chain(map, first)) = CLUSTER_MAP_SIZE
<1> DEFINE N == CLUSTER_MAP_SIZE
           walk == CHOOSE f : f = ChainWalk(f, map, first)
<1>0. N \in Nat /\ N > 3
  BY SizeFacts
<1>1. walk = ChainWalk(walk, map, first)
  BY WalkExists
<1>2. Chain(map, first) = walk[N - 1]
  BY DEF Chain, ChainWalk
<1> HIDE DEF walk
<1>3. \A k \in 0 .. N : walk[k] = IF k = 0 THEN <<first>> ELSE Onward(map, walk[k - 1])
  BY <1>1 DEF ChainWalk, Onward
<1> DEFINE Good(k) == /\ Walked(map, first, walk[k])
                      /\ \/ Len(walk[k]) = k + 1
                         \/ Len(walk[k]) <= k + 1 /\ map[walk[k][Len(walk[k])]] \notin Clusters
           S == {k \in 0 .. N : Good(k)}
<1> HIDE DEF N
<1>4. 0 \in S
  <2>1. walk[0] = <<first>>
    BY <1>0, <1>3
  <2>2. Walked(map, first, <<first>>)
    <3>1. <<first>> \in Seq(Clusters) /\ Len(<<first>>) = 1 /\ <<first>>[1] = first
      OBVIOUS
    <3>2. 1 .. Len(<<first>>) - 1 = {} /\ Len(<<first>>) > 0
      OBVIOUS
    <3> QED
      BY <3>1, <3>2, Zenon DEF Walked
  <2>3. Len(<<first>>) = 0 + 1
    OBVIOUS
  <2>4. Good(0)
    BY <2>1, <2>2, <2>3
  <2> HIDE DEF Good
  <2> QED
    BY <2>4, <1>0
<1>5. ASSUME NEW k \in 0 .. N, k < N, k \in S
      PROVE  k + 1 \in S
  <2>1. Good(k)
    BY <1>5
  <2>2. PICK s : s = walk[k]
    OBVIOUS
  <2>3. /\ Walked(map, first, s)
        /\ Len(s) = k + 1 \/ (Len(s) <= k + 1 /\ map[s[Len(s)]] \notin Clusters)
    BY <2>1, <2>2
  <2>4. k + 1 \in 0 .. N /\ k + 1 # 0 /\ k + 1 - 1 = k
    BY <1>5, <1>0
  <2>5. walk[k + 1] = Onward(map, s)
    BY <2>2, <2>4, <1>3
  <2>6. PICK n \in Nat : n = Len(s)
    BY <2>3 DEF Walked
  <2>7. CASE map[s[n]] \in Clusters
    <3>1. n = k + 1
      BY <2>3, <2>6, <2>7
    <3>2. Walked(map, first, Onward(map, s)) /\ Len(Onward(map, s)) = n + 1
      BY <2>3, <2>6, <2>7, OnwardWalks
    <3>3. Len(walk[k + 1]) = k + 1 + 1 /\ Walked(map, first, walk[k + 1])
      BY <3>1, <3>2, <2>5
    <3>4. Good(k + 1)
      BY <3>3
    <3> HIDE DEF Good
    <3> QED
      BY <3>4, <2>4
  <2>8. CASE map[s[n]] \notin Clusters
    <3>1. Onward(map, s) = s
      BY <2>3, <2>6, <2>8, OnwardWalks
    <3>2. n <= k + 1 + 1
      BY <2>3, <2>6
    <3>3. walk[k + 1] = s
      BY <3>1, <2>5
    <3>4. Good(k + 1)
      BY <3>2, <3>3, <2>3, <2>6, <2>8
    <3> HIDE DEF Good
    <3> QED
      BY <3>4, <2>4
  <2> QED
    BY <2>7, <2>8
<1>6. N - 1 \in S
  <2> HIDE DEF S
  <2>1. N - 1 \in 0 .. N
    BY <1>0
  <2> QED
    BY <1>0, <1>4, <1>5, <2>1, CountingUp
<1>7. PICK s : s = Chain(map, first)
  OBVIOUS
<1>8. /\ Walked(map, first, s)
      /\ Len(s) = N - 1 + 1 \/ (Len(s) <= N - 1 + 1 /\ map[s[Len(s)]] \notin Clusters)
  BY <1>6, <1>7, <1>2
<1>9. /\ Len(s) <= N
      /\ map[Last(s)] \notin Clusters \/ Len(s) = N
  <2>1. PICK n \in Nat : n = Len(s)
    BY <1>8 DEF Walked
  <2>2. Last(s) = s[n]
    BY <2>1 DEF Last
  <2> QED
    BY <2>1, <2>2, <1>8, <1>0
<1> QED
  BY <1>7, <1>8, <1>9 DEF N

-----------------------------------------------------------------------------
(* Paths *)

\* The directories entered along a path, by the recursion that defines them.
EnteredStep(f, d, path) ==
  [n \in 0 .. Len(path) |->
     IF n = 0 THEN ROOT_CLUSTER_NUMBER ELSE ChildCluster(d, f[n - 1], path[n])]

(***************************************************************************)
(* Entering one folder after the other has a result after each.            *)
(***************************************************************************)
LEMMA EnteredExists ==
  ASSUME NEW d, NEW path, NEW N \in Nat, N = Len(path)
  PROVE  \E f : f = EnteredStep(f, d, path)
<1> DEFINE Upto(f, m) ==
             \A k \in 0 .. m :
               f[k] = IF k = 0 THEN ROOT_CLUSTER_NUMBER ELSE ChildCluster(d, f[k - 1], path[k])
           S == {m \in 0 .. N : \E f : Upto(f, m)}
<1>1. 0 \in S
  <2>1. Upto([k \in {0} |-> ROOT_CLUSTER_NUMBER], 0)
    OBVIOUS
  <2>2. \E f : Upto(f, 0)
    BY <2>1
  <2> HIDE DEF Upto
  <2> QED
    BY <2>2
<1>2. ASSUME NEW m \in 0 .. N, m < N, m \in S
      PROVE  m + 1 \in S
  <2>1. PICK f : Upto(f, m)
    BY <1>2
  <2> DEFINE g == [k \in 0 .. m + 1 |->
                     IF k <= m THEN f[k] ELSE ChildCluster(d, f[m], path[m + 1])]
  <2>2. \A k \in 0 .. m : g[k] = f[k]
    OBVIOUS
  <2>3. g[m + 1] = ChildCluster(d, f[m], path[m + 1])
    OBVIOUS
  <2>4. ASSUME NEW k \in 0 .. m + 1
        PROVE  g[k] = IF k = 0 THEN ROOT_CLUSTER_NUMBER ELSE ChildCluster(d, g[k - 1], path[k])
    <3>1. CASE k = m + 1
      <4>1. k # 0 /\ k - 1 = m /\ m \in 0 .. m
        BY <3>1
      <4>2. g[k - 1] = f[m]
        BY <4>1, <2>2
      <4> HIDE DEF g
      <4> QED
        BY <4>1, <4>2, <2>3, <3>1
    <3>2. CASE k # m + 1
      <4>1. k \in 0 .. m /\ (k # 0 => k - 1 \in 0 .. m)
        BY <3>2
      <4>2. g[k] = f[k] /\ (k # 0 => g[k - 1] = f[k - 1])
        BY <4>1, <2>2
      <4>3. f[k] = IF k = 0 THEN ROOT_CLUSTER_NUMBER ELSE ChildCluster(d, f[k - 1], path[k])
        BY <2>1, <4>1
      <4> HIDE DEF g
      <4> QED
        BY <4>2, <4>3
    <3> QED
      BY <3>1, <3>2
  <2>5. Upto(g, m + 1)
    BY <2>4
  <2>6. m + 1 \in 0 .. N
    BY <1>2
  <2> HIDE DEF g
  <2> QED
    BY <2>5, <2>6
<1>3. \A m \in 0 .. N : m \in S
  <2> HIDE DEF S
  <2> QED
    BY <1>1, <1>2, CountingUp
<1>4. PICK f : Upto(f, N)
  <2>1. N \in 0 .. N
    OBVIOUS
  <2> QED
    BY <2>1, <1>3
<1> DEFINE h == [k \in 0 .. N |-> f[k]]
<1>5. h = EnteredStep(h, d, path)
  <2>1. ASSUME NEW k \in 0 .. N
        PROVE  h[k] = IF k = 0 THEN ROOT_CLUSTER_NUMBER ELSE ChildCluster(d, h[k - 1], path[k])
    <3>1. k # 0 => k - 1 \in 0 .. N
      OBVIOUS
    <3>2. h[k] = f[k] /\ (k # 0 => h[k - 1] = f[k - 1])
      BY <3>1
    <3>3. f[k] = IF k = 0 THEN ROOT_CLUSTER_NUMBER ELSE ChildCluster(d, f[k - 1], path[k])
      BY <1>4
    <3> HIDE DEF h
    <3> QED
      BY <3>2, <3>3
  <2>2. h = [k \in 0 .. N |->
               IF k = 0 THEN ROOT_CLUSTER_NUMBER ELSE ChildCluster(d, h[k - 1], path[k])]
    BY <2>1
  <2> QED
    BY <2>2 DEF EnteredStep
<1> QED
  BY <1>5

\* The clusters of the directories along the first N names of a path.
Trail(f, d, path, N) ==
  /\ f[0] = ROOT_CLUSTER_NUMBER
  /\ \A k \in 1 .. N : f[k] = ChildCluster(d, f[k - 1], path[k])

(***************************************************************************)
(* What the recursion says of a path.                                      *)
(***************************************************************************)
LEMMA Entered ==
  ASSUME NEW d, NEW path, Len(path) \in Nat
  PROVE  \E f : DirectoryCluster(d, path) = f[Len(path)] /\ Trail(f, d, path, Len(path))
<1> DEFINE N == Len(path)
<1>0. N \in Nat /\ N = Len(path)
  OBVIOUS
<1> HIDE DEF N
<1> DEFINE f == CHOOSE g : g = EnteredStep(g, d, path)
<1>1. f = EnteredStep(f, d, path)
  BY <1>0, EnteredExists
<1>2. DirectoryCluster(d, path) = f[N]
  BY <1>0 DEF DirectoryCluster, EnteredStep
<1> HIDE DEF f
<1>3. \A k \in 0 .. N :
        f[k] = IF k = 0 THEN ROOT_CLUSTER_NUMBER ELSE ChildCluster(d, f[k - 1], path[k])
  BY <1>0, <1>1 DEF EnteredStep
<1>4. f[0] = ROOT_CLUSTER_NUMBER
  BY <1>0, <1>3
<1>5. \A k \in 1 .. N : f[k] = ChildCluster(d, f[k - 1], path[k])
  BY <1>0, <1>3
<1> QED
  BY <1>2, <1>4, <1>5, Zenon DEF N, Trail

(***************************************************************************)
(* The directory at a path is entered from the one above it.               *)
(***************************************************************************)
LEMMA DirectoryStep ==
  /\ \A d : DirectoryCluster(d, <<>>) = ROOT_CLUSTER_NUMBER
  /\ \A d : \A path \in Seq(Names) :
       path # <<>> =>
         DirectoryCluster(d, path)
           = ChildCluster(d, DirectoryCluster(d, Front(path)), Last(path))
<1>1. ASSUME NEW d
      PROVE  DirectoryCluster(d, <<>>) = ROOT_CLUSTER_NUMBER
  <2>1. Len(<<>>) = 0 /\ 0 \in Nat
    OBVIOUS
  <2>2. PICK f : DirectoryCluster(d, <<>>) = f[0] /\ Trail(f, d, <<>>, 0)
    BY <2>1, Entered
  <2>3. f[0] = ROOT_CLUSTER_NUMBER
    BY <2>2, Zenon DEF Trail
  <2> QED
    BY <2>2, <2>3, Zenon
<1>2. ASSUME NEW d, NEW path \in Seq(Names), path # <<>>
      PROVE  DirectoryCluster(d, path)
               = ChildCluster(d, DirectoryCluster(d, Front(path)), Last(path))
  <2>1. PICK N \in Nat : N = Len(path)
    OBVIOUS
  <2>2. N > 0
    BY <2>1, <1>2, EmptySeq
  <2>3. PICK M \in Nat : M = N - 1
    BY <2>2
  <2>4. M = Len(Front(path)) /\ \A k \in 1 .. M : Front(path)[k] = path[k]
    BY <2>1, <2>2, <2>3 DEF Front
  <2>5. PICK f : DirectoryCluster(d, path) = f[N] /\ Trail(f, d, path, N)
    BY <2>1, Entered
  <2>6. PICK g : DirectoryCluster(d, Front(path)) = g[M] /\ Trail(g, d, Front(path), M)
    BY <2>4, Entered
  <2> DEFINE S == {k \in 0 .. M : f[k] = g[k]}
  <2>7. 0 \in S
    BY <2>5, <2>6 DEF Trail
  <2>8. ASSUME NEW k \in 0 .. M, k < M, k \in S
        PROVE  k + 1 \in S
    <3>1. k + 1 \in 1 .. M /\ k + 1 \in 1 .. N /\ k + 1 - 1 = k /\ k + 1 \in 0 .. M
      BY <2>3, <2>8
    <3>2. f[k + 1] = ChildCluster(d, f[k], path[k + 1])
      BY <3>1, <2>5 DEF Trail
    <3>3. g[k + 1] = ChildCluster(d, g[k], path[k + 1])
      BY <3>1, <2>4, <2>6 DEF Trail
    <3>4. f[k] = g[k]
      BY <2>8
    <3> QED
      BY <3>1, <3>2, <3>3, <3>4
  <2>9. M \in S
    <3> HIDE DEF S
    <3>1. M \in 0 .. M
      OBVIOUS
    <3> QED
      BY <2>7, <2>8, <3>1, CountingUp
  <2>10. N \in 1 .. N /\ N - 1 = M
    BY <2>2, <2>3
  <2>11. f[N] = ChildCluster(d, f[M], path[N])
    BY <2>10, <2>5 DEF Trail
  <2>12. Last(path) = path[N]
    BY <2>1 DEF Last
  <2>13. f[M] = g[M]
    BY <2>9
  <2> QED
    BY <2>5, <2>6, <2>11, <2>12, <2>13
<1> QED
  BY <1>1, <1>2

-----------------------------------------------------------------------------
(* What clusters hold *)

\* No entry points to the FAT's cluster.
OffFAT == Clusters \ {FAT_CLUSTER_NUMBER}
PointingOff == {e \in Entries : e.cluster \in OffFAT}
Tables == [Positions -> PointingOff]

\* Clusters and writes, and files made of the versions in V
HeldContents(V) ==
  {Blank, Signature} \cup {Data(v, k) : v \in V, k \in 1 .. CLUSTER_MAP_SIZE}
    \cup {FATImage(m) : m \in FATs} \cup {Table(t) : t \in Tables}
Writes(V) == [cluster : Clusters, content : HeldContents(V)]
Disks(V) == [Clusters -> HeldContents(V)]

(***************************************************************************)
(* The FAT's cluster is one of the disk's, and none of the others; an      *)
(* empty entry points to cluster 0.                                        *)
(***************************************************************************)
LEMMA EmptyTyped ==
  /\ 0 \in OffFAT /\ ROOT_CLUSTER_NUMBER \in OffFAT /\ OffFAT \subseteq Clusters
  /\ FAT_CLUSTER_NUMBER \in Clusters /\ FAT_CLUSTER_NUMBER \notin OffFAT
  /\ \A map : FreeClusters(map) \subseteq OffFAT
  /\ EmptyEntry \in PointingOff
<1>1. /\ 0 \in OffFAT /\ ROOT_CLUSTER_NUMBER \in OffFAT /\ OffFAT \subseteq Clusters
      /\ FAT_CLUSTER_NUMBER \in Clusters /\ FAT_CLUSTER_NUMBER \notin OffFAT
  BY SizeFacts DEF OffFAT, FAT_CLUSTER_NUMBER, ROOT_CLUSTER_NUMBER
<1>2. ASSUME NEW map
      PROVE  FreeClusters(map) \subseteq OffFAT
  <2>1. FreeClusters(map) \subseteq Clusters /\ \A c \in FreeClusters(map) : c >= 2
    BY FreeFacts DEF ROOT_CLUSTER_NUMBER
  <2> QED
    BY <2>1, SizeFacts DEF OffFAT, FAT_CLUSTER_NUMBER
<1>3. EmptyEntry \in Entries /\ EmptyEntry.cluster = 0
  BY SizeFacts DEF EmptyEntry, Entries, NoName, ATR_FILE
<1> QED
  BY <1>1, <1>2, <1>3 DEF PointingOff

(***************************************************************************)
(* Whatever is on the disk reads as a directory table and as a FAT.        *)
(***************************************************************************)
LEMMA ReadsAs ==
  ASSUME NEW V, NEW content \in HeldContents(V)
  PROVE  AsTable(content) \in Tables /\ AsFAT(content) \in FATs
<1>1. ZeroTable \in Tables
  <2>1. EmptyEntry \in PointingOff
    BY EmptyTyped
  <2> QED
    BY <2>1 DEF ZeroTable, Tables
<1>2. ZeroFAT \in FATs
  BY SizeFacts DEF ZeroFAT, FATs, FAT32_FAT_EMPTY_ENTRY
<1>3. CASE content \in {Blank, Signature} \cup {Data(v, k) : v \in V, k \in 1 .. CLUSTER_MAP_SIZE}
  <2>1. content.kind # "fat" /\ content.kind # "dir"
    BY <1>3 DEF Blank, Signature, Data
  <2> QED
    BY <1>1, <1>2, <2>1 DEF AsTable, AsFAT
<1>4. ASSUME NEW m \in FATs, content = FATImage(m)
      PROVE  AsTable(content) \in Tables /\ AsFAT(content) \in FATs
  <2>1. content.kind = "fat" /\ content.map = m
    BY <1>4 DEF FATImage
  <2> QED
    BY <1>1, <2>1 DEF AsTable, AsFAT
<1>5. ASSUME NEW t \in Tables, content = Table(t)
      PROVE  AsTable(content) \in Tables /\ AsFAT(content) \in FATs
  <2>1. content.kind = "dir" /\ content.table = t
    BY <1>5 DEF Table
  <2> QED
    BY <1>2, <2>1 DEF AsTable, AsFAT
<1> QED
  BY <1>3, <1>4, <1>5 DEF HeldContents

(***************************************************************************)
(* What the driver's own callers put on the disk is of the model's types.  *)
(***************************************************************************)
LEMMA HeldIsContent ==
  ASSUME NEW content \in HeldContents(Versions)
  PROVE  IsContent(content)
<1>1. CASE content \in Contents
  BY <1>1 DEF IsContent
<1>2. ASSUME NEW m \in FATs, content = FATImage(m)
      PROVE  IsContent(content)
  BY <1>2 DEF IsContent, FATImage
<1>3. ASSUME NEW t \in Tables, content = Table(t)
      PROVE  IsContent(content)
  <2>1. content.kind = "dir" /\ content.table = t
    BY <1>3 DEF Table
  <2>2. t \in [Positions -> Entries]
    BY DEF Tables, PointingOff
  <2> QED
    BY <2>1, <2>2 DEF IsContent
<1> QED
  BY <1>1, <1>2, <1>3 DEF HeldContents, Contents

(***************************************************************************)
(* What the driver writes is what clusters hold.                           *)
(***************************************************************************)
LEMMA Held ==
  ASSUME NEW V
  PROVE  /\ Blank \in HeldContents(V) /\ Signature \in HeldContents(V)
         /\ \A m \in FATs : FATImage(m) \in HeldContents(V) /\ AsFAT(FATImage(m)) = m
         /\ \A t \in Tables : Table(t) \in HeldContents(V) /\ AsTable(Table(t)) = t
         /\ \A v \in V, k \in 1 .. CLUSTER_MAP_SIZE : Data(v, k) \in HeldContents(V)
<1>1. \A m \in FATs : AsFAT(FATImage(m)) = m
  BY DEF AsFAT, FATImage
<1>2. \A t \in Tables : AsTable(Table(t)) = t
  BY DEF AsTable, Table
<1>3. \A v \in V, k \in 1 .. CLUSTER_MAP_SIZE : Data(v, k) \in HeldContents(V)
  BY DEF HeldContents
<1>4. \A m \in FATs : FATImage(m) \in HeldContents(V)
  BY DEF HeldContents
<1>5. \A t \in Tables : Table(t) \in HeldContents(V)
  BY DEF HeldContents
<1>6. Blank \in HeldContents(V) /\ Signature \in HeldContents(V)
  BY DEF HeldContents
<1> QED
  BY <1>1, <1>2, <1>3, <1>4, <1>5, <1>6

(***************************************************************************)
(* A lookup that finds something finds an entry of that name.              *)
(***************************************************************************)
LEMMA LookupFacts ==
  ASSUME NEW t \in Tables, NEW name, NEW S \in {Matches(t, name), Listed(t, name)}, S # {}
  PROVE  /\ Min(S) \in S /\ Min(S) \in Positions /\ t[Min(S)].name = name
         /\ t[Min(S)] \in Entries /\ t[Min(S)].cluster \in OffFAT
<1>1. S \subseteq Positions /\ \A j \in S : t[j].name = name
  BY DEF Matches, Listed
<1>2. Min(S) \in S
  BY <1>1, SizeFacts, MinProperty
<1>3. t[Min(S)] \in PointingOff
  BY <1>1, <1>2 DEF Tables
<1>4. t[Min(S)] \in Entries /\ t[Min(S)].cluster \in OffFAT
  BY <1>3 DEF PointingOff
<1> QED
  BY <1>1, <1>2, <1>3, <1>4

(***************************************************************************)
(* Following a path ends at a cluster, on every disk.                      *)
(***************************************************************************)
LEMMA ChildInClusters ==
  ASSUME NEW V, NEW d \in Disks(V), NEW c \in Clusters, NEW name
  PROVE  ChildCluster(d, c, name) \in OffFAT
<1>1. AsTable(d[c]) \in Tables
  BY ReadsAs DEF Disks
<1> DEFINE t == AsTable(d[c])
           found == Listed(t, name)
<1>2. ASSUME found # {}
      PROVE  t[Min(found)].cluster \in OffFAT
  BY <1>1, <1>2, LookupFacts
<1>3. 0 \in OffFAT
  BY SizeFacts DEF OffFAT, FAT_CLUSTER_NUMBER
<1> QED
  BY <1>2, <1>3 DEF ChildCluster

LEMMA DirectoryInClusters ==
  ASSUME NEW V, NEW d \in Disks(V), NEW path \in Seq(Names)
  PROVE  DirectoryCluster(d, path) \in OffFAT
<1>1. PICK N \in Nat : N = Len(path)
  OBVIOUS
<1>2. PICK f : DirectoryCluster(d, path) = f[N] /\ Trail(f, d, path, N)
  BY <1>1, Entered
<1> DEFINE S == {k \in 0 .. N : f[k] \in OffFAT}
<1>3. 0 \in S
  BY <1>2, SizeFacts DEF Trail, ROOT_CLUSTER_NUMBER, OffFAT, FAT_CLUSTER_NUMBER
<1>4. ASSUME NEW k \in 0 .. N, k < N, k \in S
      PROVE  k + 1 \in S
  <2>1. k + 1 \in 1 .. N /\ k + 1 - 1 = k /\ k + 1 \in 0 .. N
    BY <1>4
  <2>2. f[k + 1] = ChildCluster(d, f[k], path[k + 1])
    BY <2>1, <1>2 DEF Trail
  <2>3. f[k] \in Clusters
    BY <1>4 DEF OffFAT
  <2> QED
    BY <2>1, <2>2, <2>3, ChildInClusters
<1>5. N \in S
  <2> HIDE DEF S
  <2>1. N \in 0 .. N
    OBVIOUS
  <2> QED
    BY <1>3, <1>4, <2>1, CountingUp
<1> QED
  BY <1>2, <1>5

-----------------------------------------------------------------------------
(* What the calls make of maps and tables *)

(***************************************************************************)
(* Every size needs a whole number of clusters; a file needs at least one. *)
(***************************************************************************)
LEMMA NeedFacts ==
  ASSUME NEW size \in Nat
  PROVE  ClusterNeed(size) \in Nat /\ (size > 0 => ClusterNeed(size) > 0)
<1> DEFINE C == CLUSTER_SIZE
<1>1. C \in Nat /\ C > 12
  BY SizeFacts DEF CLUSTER_SIZE
<1>2. ClusterNeed(size) = (size + C - 1) \div C
  BY DEF ClusterNeed
<1> HIDE DEF C
<1> DEFINE x == size + C - 1
           q == x \div C
<1>3. x \in Nat /\ (size > 0 => x >= C)
  BY <1>1
<1> HIDE DEF x
<1>4. q \in Int /\ 0 <= q /\ x < q * C + C
  BY <1>1, <1>3
<1> HIDE DEF q
<1>5. size > 0 => q # 0
  BY <1>1, <1>3, <1>4
<1> QED
  BY <1>2, <1>4, <1>5 DEF q, x

(***************************************************************************)
(* A map with a chain linked into it, or taken out of it, is a map.        *)
(***************************************************************************)
LEMMA LinkedTyped ==
  ASSUME NEW map \in FATs, NEW chain \in Seq(Clusters)
  PROVE  Linked(map, chain) \in FATs /\ Freed(map, chain) \in FATs
<1> DEFINE Values == Clusters \cup {CLUSTER_0_VALUE, FAT32_FAT_END_OF_FILE}
<1>1. FATs = [Clusters -> Values]
  BY DEF FATs
<1>2. PICK n \in Nat : n = Len(chain)
  OBVIOUS
<1>3. \A k \in 1 .. n : chain[k] \in Clusters
  BY <1>2
<1> DEFINE next(k) == IF k = n THEN FAT32_FAT_END_OF_FILE ELSE chain[k + 1]
<1>4. \A k \in 1 .. n : next(k) \in Values
  <2>1. ASSUME NEW k \in 1 .. n
        PROVE  next(k) \in Values
    <3>1. k # n => k + 1 \in 1 .. n
      BY <1>2
    <3> QED
      BY <3>1, <1>3
  <2> QED
    BY <2>1
<1>5. ASSUME NEW c \in Clusters
      PROVE  Linked(map, chain)[c] \in Values
  <2>1. map[c] \in Values
    BY <1>1
  <2>2. CASE \E k \in 1 .. n : chain[k] = c
    <3> DEFINE k0 == CHOOSE k \in 1 .. n : chain[k] = c
    <3>1. k0 \in 1 .. n
      BY <2>2
    <3>2. Linked(map, chain)[c] = next(k0)
      BY <1>2, <2>2 DEF Linked
    <3> HIDE DEF k0, Values, next
    <3> QED
      BY <3>1, <3>2, <1>4
  <2>3. CASE ~ \E k \in 1 .. n : chain[k] = c
    BY <1>2, <2>1, <2>3 DEF Linked
  <2> QED
    BY <2>2, <2>3
<1>6. Linked(map, chain) \in FATs
  <2>1. Linked(map, chain) = [c \in Clusters |-> Linked(map, chain)[c]]
    BY DEF Linked
  <2> HIDE DEF Values
  <2> QED
    BY <2>1, <1>1, <1>5
<1>7. Freed(map, chain) \in FATs
  <2>1. FAT32_FAT_EMPTY_ENTRY \in Values
    BY SizeFacts DEF FAT32_FAT_EMPTY_ENTRY
  <2> HIDE DEF Values
  <2> QED
    BY <2>1, <1>1 DEF Freed
<1> QED
  BY <1>6, <1>7

Sizes == FileSizes \cup {0}
Called == Names \cup {"root"}

LEMMA EntryTyped ==
  ASSUME NEW name \in Called, NEW c \in OffFAT, NEW size \in Sizes
  PROVE  UsedEntry(name, c, size) \in PointingOff
<1>1. AttributeOf(size) \in {ATR_FILE, ATR_DIRECTORY}
  BY DEF AttributeOf
<1>2. UsedEntry(name, c, size) \in Entries
  BY <1>1, EmptyTyped DEF UsedEntry, Entries, Called, Sizes
<1>3. UsedEntry(name, c, size).cluster = c
  BY DEF UsedEntry
<1> QED
  BY <1>2, <1>3 DEF PointingOff

LEMMA TablesTyped ==
  /\ \A t \in Tables, e \in PointingOff : WithEntry(t, e) \in Tables
  /\ \A name \in Called, c \in OffFAT : init_directory_table(name, c) \in Tables
<1>1. ASSUME NEW t \in Tables, NEW e \in PointingOff
      PROVE  WithEntry(t, e) \in Tables
  BY DEF WithEntry, Tables
<1>2. ASSUME NEW name \in Called, NEW c \in OffFAT
      PROVE  init_directory_table(name, c) \in Tables
  <2>1. UsedEntry(name, c, 0) \in PointingOff /\ EmptyEntry \in PointingOff
    BY EntryTyped, EmptyTyped DEF Sizes
  <2> QED
    BY <2>1 DEF init_directory_table, ZeroTable, Tables
<1> QED
  BY <1>1, <1>2

LEMMA WriteTyped ==
  ASSUME NEW V, NEW c \in Clusters, NEW content \in HeldContents(V)
  PROVE  /\ write_cluster(c, content) \in Writes(V)
         /\ write_cluster(c, content).cluster = c
         /\ write_cluster(c, content).content = content
BY DEF write_cluster, Writes

-----------------------------------------------------------------------------
(* The FAT on its way to the disk *)

\* Once the writes are made, cluster 1 of the disk holds the map.
FATArrives(d, writes, map) ==
  \/ d[FAT_CLUSTER_NUMBER] = FATImage(map)
     /\ \A k \in 1 .. Len(writes) : writes[k].cluster # FAT_CLUSTER_NUMBER
  \/ \E k \in 1 .. Len(writes) :
       /\ writes[k].cluster = FAT_CLUSTER_NUMBER
       /\ writes[k].content = FATImage(map)
       /\ \A j \in k + 1 .. Len(writes) : writes[j].cluster # FAT_CLUSTER_NUMBER

\* An effect writes what clusters hold, and the FAT it leaves in memory.
Mirrored(e, V) ==
  /\ e.fat \in FATs
  /\ e.writes \in Seq(Writes(V))
  /\ FATArrives(disk, e.writes, e.fat)

\* Between calls: the disk is typed, and the FAT on it is the one in memory.
Settled(V) ==
  /\ disk \in Disks(V) /\ fat \in FATs
  /\ disk[FAT_CLUSTER_NUMBER] = FATImage(fat)

(***************************************************************************)
(* A refused call changes nothing.                                         *)
(***************************************************************************)
LEMMA RefusedMirrored ==
  ASSUME NEW V, Settled(V), NEW ret
  PROVE  Mirrored(Refused(ret), V)
<1>1. Refused(ret).fat = fat /\ Refused(ret).writes = <<>>
  BY DEF Refused, Effect
<1>2. <<>> \in Seq(Writes(V)) /\ 1 .. Len(<<>>) = {}
  OBVIOUS
<1>3. FATArrives(disk, <<>>, fat)
  BY <1>2, Zenon DEF FATArrives, Settled
<1> QED
  BY <1>1, <1>2, <1>3 DEF Mirrored, Settled

(***************************************************************************)
(* write of a folder.                                                      *)
(***************************************************************************)
LEMMA FolderMirrored ==
  ASSUME NEW V, Settled(V), NEW parent \in OffFAT, NEW name \in Called,
         Cardinality(FreeClusters(fat)) >= 1
  PROVE  Mirrored(FolderWritten(parent, name), V)
<1> DEFINE table == AsTable(disk[parent])
           chain == Allocation(fat, 1)
           map == Linked(fat, chain)
           entry == UsedEntry(name, chain[1], 0)
           a == write_cluster(chain[1], Table(init_directory_table(name, parent)))
           b == write_cluster(FAT_CLUSTER_NUMBER, FATImage(map))
           c == write_cluster(parent, Table(WithEntry(table, entry)))
<1>1. /\ disk \in Disks(V) /\ fat \in FATs
      /\ parent \in Clusters /\ parent # FAT_CLUSTER_NUMBER
  BY EmptyTyped DEF Settled
<1>2. Cardinality(FreeClusters(fat)) \in Nat
  BY FreeFacts
<1>3. chain \in Seq(Clusters) /\ Len(chain) = 1 /\ chain[1] \in OffFAT
  <2>1. 1 \in Nat /\ 1 <= Cardinality(FreeClusters(fat))
    BY <1>2
  <2>2. chain \in Seq(Clusters) /\ Len(chain) = 1 /\ \A k \in 1 .. 1 : chain[k] \in FreeClusters(fat)
    BY <2>1, AllocationFacts
  <2>3. chain[1] \in FreeClusters(fat)
    BY <2>2
  <2> QED
    BY <2>2, <2>3, EmptyTyped
<1>4. map \in FATs
  BY <1>1, <1>3, LinkedTyped
<1>5. table \in Tables
  BY <1>1, ReadsAs DEF Disks
<1>6. entry \in PointingOff
  BY <1>3, EntryTyped DEF Sizes
<1> HIDE DEF chain, map, table, entry
<1>7. a \in Writes(V)
  <2>1. Table(init_directory_table(name, parent)) \in HeldContents(V)
    BY TablesTyped, Held
  <2> QED
    BY <2>1, <1>3, WriteTyped
<1>8. b \in Writes(V) /\ b.cluster = FAT_CLUSTER_NUMBER /\ b.content = FATImage(map)
  <2>1. FATImage(map) \in HeldContents(V) /\ FAT_CLUSTER_NUMBER \in Clusters
    BY <1>4, Held, SizeFacts DEF FAT_CLUSTER_NUMBER
  <2> QED
    BY <2>1, WriteTyped
<1>9. c \in Writes(V) /\ c.cluster = parent
  <2>1. Table(WithEntry(table, entry)) \in HeldContents(V)
    BY <1>5, <1>6, TablesTyped, Held
  <2> QED
    BY <2>1, <1>1, WriteTyped
<1>10. FolderWritten(parent, name)
        = IF fat[parent] = FAT32_FAT_EMPTY_ENTRY THEN Refused(2)
          ELSE Effect(0, map, <<a, b, c>>)
  BY DEF FolderWritten, FolderWrites, chain, map, table, entry
<1> HIDE DEF a, b, c
<1>11. <<a, b, c>> \in Seq(Writes(V))
  BY <1>7, <1>8, <1>9
<1>12. FATArrives(disk, <<a, b, c>>, map)
  <2>1. /\ Len(<<a, b, c>>) = 3 /\ 2 \in 1 .. 3
        /\ <<a, b, c>>[2] = b /\ <<a, b, c>>[3] = c /\ 2 + 1 .. 3 = {3}
    OBVIOUS
  <2> QED
    BY <2>1, <1>1, <1>8, <1>9, Zenon DEF FATArrives
<1>13. Mirrored(Effect(0, map, <<a, b, c>>), V)
  BY <1>4, <1>11, <1>12 DEF Mirrored, Effect
<1> QED
  BY <1>10, <1>13, RefusedMirrored

(***************************************************************************)
(* No more clusters are free than there are.                               *)
(***************************************************************************)
LEMMA FreeBound ==
  ASSUME NEW map
  PROVE  Cardinality(FreeClusters(map)) <= CLUSTER_MAP_SIZE
<1> DEFINE S == 0 .. CLUSTER_MAP_SIZE - 1
<1>1. FreeClusters(map) \subseteq S
  BY FreeFacts DEF Clusters
<1>2. IsFiniteSet(S) /\ Cardinality(S) = CLUSTER_MAP_SIZE
  <2>1. 0 \in Int /\ CLUSTER_MAP_SIZE - 1 \in Int /\ 0 <= CLUSTER_MAP_SIZE - 1
    BY SizeFacts
  <2>2. Cardinality(S) = CLUSTER_MAP_SIZE - 1 - 0 + 1
    BY <2>1, FS_Interval
  <2> QED
    BY <2>1, <2>2, SizeFacts, FS_Interval
<1> HIDE DEF S
<1> QED
  BY <1>1, <1>2, FS_Subset

(***************************************************************************)
(* However the earlier writes are ordered, a FAT that is written last, or  *)
(* last but for another cluster, arrives.                                  *)
(***************************************************************************)
LEMMA WrittenLast ==
  ASSUME NEW V, NEW d, NEW map, NEW s \in Seq(Writes(V)), NEW w \in Writes(V), NEW x \in Writes(V),
         w.cluster = FAT_CLUSTER_NUMBER, w.content = FATImage(map),
         x.cluster # FAT_CLUSTER_NUMBER
  PROVE  /\ s \o <<w>> \in Seq(Writes(V)) /\ FATArrives(d, s \o <<w>>, map)
         /\ s \o <<w, x>> \in Seq(Writes(V)) /\ FATArrives(d, s \o <<w, x>>, map)
<1>1. PICK n \in Nat : n = Len(s)
  OBVIOUS
<1>2. PICK t : t = s \o <<w>>
  OBVIOUS
<1>3. PICK u : u = s \o <<w, x>>
  OBVIOUS
<1>4. t \in Seq(Writes(V)) /\ Len(t) = n + 1 /\ t[n + 1] = w
  BY <1>1, <1>2
<1>5. u \in Seq(Writes(V)) /\ Len(u) = n + 2 /\ u[n + 1] = w /\ u[n + 2] = x
  BY <1>1, <1>3
<1>6. /\ n + 1 \in 1 .. n + 1 /\ n + 1 + 1 .. n + 1 = {}
      /\ n + 1 \in 1 .. n + 2 /\ n + 1 + 1 .. n + 2 = {n + 2}
  BY <1>1
<1>7. FATArrives(d, t, map)
  BY <1>4, <1>6, Zenon DEF FATArrives
<1>8. FATArrives(d, u, map)
  BY <1>5, <1>6, Zenon DEF FATArrives
<1> QED
  BY <1>2, <1>3, <1>4, <1>5, <1>7, <1>8

(***************************************************************************)
(* write of a file.                                                        *)
(***************************************************************************)
LEMMA FileMirrored ==
  ASSUME NEW V, Settled(V), NEW parent \in OffFAT, NEW name \in Called,
         NEW size \in FileSizes, NEW version \in V,
         Cardinality(FreeClusters(fat)) >= ClusterNeed(size)
  PROVE  Mirrored(FileWritten(parent, name, size, version), V)
<1> DEFINE table == AsTable(disk[parent])
           n == ClusterNeed(size)
           chain == Allocation(fat, n)
           map == Linked(fat, chain)
           entry == UsedEntry(name, chain[1], size)
           part(k) == (k + 1) \div 2
           what(k) == IF k % 2 = 1 THEN Blank ELSE Data(version, part(k))
           parts == [k \in 1 .. 2 * Len(chain) |-> write_cluster(chain[part(k)], what(k))]
           a == write_cluster(parent, Table(WithEntry(table, entry)))
           b == write_cluster(FAT_CLUSTER_NUMBER, FATImage(map))
<1>1. /\ disk \in Disks(V) /\ fat \in FATs
      /\ parent \in Clusters /\ parent # FAT_CLUSTER_NUMBER
  BY EmptyTyped DEF Settled
<1>2. n \in Nat /\ n > 0 /\ n <= CLUSTER_MAP_SIZE
  <2>1. size \in Nat /\ size > 0
    BY SizesAssumption
  <2>2. n \in Nat /\ n > 0
    BY <2>1, NeedFacts
  <2>3. Cardinality(FreeClusters(fat)) \in Nat /\ CLUSTER_MAP_SIZE \in Nat
    BY FreeFacts, SizeFacts
  <2>4. Cardinality(FreeClusters(fat)) <= CLUSTER_MAP_SIZE
    BY FreeBound
  <2> HIDE DEF n
  <2>5. n <= Cardinality(FreeClusters(fat))
    BY <2>2, <2>3 DEF n
  <2> QED
    BY <2>2, <2>3, <2>4, <2>5
<1>3. /\ chain \in Seq(Clusters) /\ Len(chain) = n
      /\ \A k \in 1 .. n : chain[k] \in FreeClusters(fat)
  <2>1. n <= Cardinality(FreeClusters(fat))
    BY <1>2, FreeFacts
  <2> HIDE DEF n
  <2> QED
    BY <1>2, <2>1, AllocationFacts
<1> HIDE DEF n
<1>4. \A k \in 1 .. n : chain[k] \in Clusters
  BY <1>3
<1>5. map \in FATs
  BY <1>1, <1>3, LinkedTyped
<1>6. table \in Tables
  BY <1>1, ReadsAs DEF Disks
<1>7. entry \in PointingOff
  <2>1. chain[1] \in OffFAT
    <3>1. chain[1] \in FreeClusters(fat)
      BY <1>2, <1>3
    <3> QED
      BY <3>1, EmptyTyped
  <2> HIDE DEF chain
  <2> QED
    BY <2>1, EntryTyped DEF Sizes
<1> HIDE DEF chain, map, table, entry
<1>8. a \in Writes(V) /\ a.cluster = parent
  <2>1. Table(WithEntry(table, entry)) \in HeldContents(V)
    BY <1>6, <1>7, TablesTyped, Held
  <2> QED
    BY <2>1, <1>1, WriteTyped
<1>9. b \in Writes(V) /\ b.cluster = FAT_CLUSTER_NUMBER /\ b.content = FATImage(map)
  <2>1. FATImage(map) \in HeldContents(V) /\ FAT_CLUSTER_NUMBER \in Clusters
    BY <1>5, Held, SizeFacts DEF FAT_CLUSTER_NUMBER
  <2> QED
    BY <2>1, WriteTyped
<1>10. parts \in Seq(Writes(V))
  <2>1. ASSUME NEW k \in 1 .. 2 * n
        PROVE  write_cluster(chain[part(k)], what(k)) \in Writes(V)
    <3>1. part(k) \in 1 .. n /\ part(k) \in 1 .. CLUSTER_MAP_SIZE
      <4>1. k \in Int /\ 1 <= k /\ k <= 2 * n /\ CLUSTER_MAP_SIZE \in Nat
        BY <1>2, SizeFacts
      <4> QED
        BY <4>1, <1>2
    <3> HIDE DEF part
    <3>2. Data(version, part(k)) \in HeldContents(V) /\ Blank \in HeldContents(V)
      BY <3>1, Held
    <3>3. what(k) \in HeldContents(V)
      BY <3>2
    <3> HIDE DEF what
    <3> QED
      BY <3>1, <3>3, <1>4, WriteTyped
  <2>2. parts = [k \in 1 .. 2 * n |-> write_cluster(chain[part(k)], what(k))]
    BY <1>3
  <2>3. 2 * n \in Nat
    BY <1>2
  <2> DEFINE w(k) == write_cluster(chain[part(k)], what(k))
  <2>4. \A k \in 1 .. 2 * n : w(k) \in Writes(V)
    BY <2>1
  <2> HIDE DEF w
  <2>5. [k \in 1 .. 2 * n |-> w(k)] \in Seq(Writes(V))
    BY <2>3, <2>4
  <2> QED
    BY <2>2, <2>5 DEF w
<1>11. FileWritten(parent, name, size, version)
        = CASE fat[parent] = FAT32_FAT_EMPTY_ENTRY -> Refused(2)
            [] fat[parent] # FAT32_FAT_EMPTY_ENTRY /\ UnusedPositions(table) = {} -> Refused(-1)
            [] OTHER -> Effect(0, map, <<a>> \o parts \o <<b>>)
  BY Zenon DEF FileWritten, chain, map, table, entry, n
<1> HIDE DEF a, b, parts
<1>12. PICK s : s = <<a>> \o parts
  OBVIOUS
<1>13. s \in Seq(Writes(V))
  BY <1>8, <1>10, <1>12
<1>14. s \o <<b>> \in Seq(Writes(V)) /\ FATArrives(disk, s \o <<b>>, map)
  BY <1>13, <1>1, <1>8, <1>9, WrittenLast
<1>15. Mirrored(Effect(0, map, s \o <<b>>), V)
  BY <1>5, <1>14 DEF Mirrored, Effect
<1>16. Mirrored(Effect(0, map, <<a>> \o parts \o <<b>>), V)
  BY <1>12, <1>15, Zenon
<1>17. Mirrored(Refused(2), V) /\ Mirrored(Refused(-1), V)
  BY RefusedMirrored
<1> QED
  BY <1>11, <1>16, <1>17, Zenon

(***************************************************************************)
(* delete.                                                                 *)
(***************************************************************************)
LEMMA DeletedMirrored ==
  ASSUME NEW V, Settled(V), NEW parent \in OffFAT, NEW name
  PROVE  Mirrored(Deleted(parent, name), V)
<1> DEFINE table == AsTable(disk[parent])
           found == Matches(table, name)
           chain == Chain(fat, table[Min(found)].cluster)
           map == Freed(fat, chain)
           blanks == [k \in 1 .. Len(chain) |-> write_cluster(chain[k], Blank)]
           b == write_cluster(FAT_CLUSTER_NUMBER, FATImage(map))
           c == write_cluster(parent, Table([table EXCEPT ![Min(found)] = EmptyEntry]))
<1>1. /\ disk \in Disks(V) /\ fat \in FATs
      /\ parent \in Clusters /\ parent # FAT_CLUSTER_NUMBER
  BY EmptyTyped DEF Settled
<1>2. table \in Tables
  BY <1>1, ReadsAs DEF Disks
<1>3. Deleted(parent, name)
        = IF found = {} THEN Refused(1) ELSE Effect(0, map, blanks \o <<b, c>>)
  BY Zenon DEF Deleted
<1>4. CASE found = {}
  <2>1. Deleted(parent, name) = Refused(1)
    BY <1>3, <1>4
  <2> QED
    BY <2>1, RefusedMirrored
<1>5. CASE found # {}
  <2>1. Min(found) \in Positions /\ table[Min(found)].cluster \in OffFAT
    <3> HIDE DEF table
    <3> QED
      BY <1>2, <1>5, LookupFacts
  <2>2. chain \in Seq(Clusters)
    <3> DEFINE first == table[Min(found)].cluster
    <3>1. first \in Clusters
      BY <2>1, EmptyTyped
    <3> HIDE DEF first
    <3>2. Walked(fat, first, Chain(fat, first))
      BY <3>1, ChainFacts
    <3>3. Chain(fat, first) \in Seq(Clusters)
      BY <3>2 DEF Walked
    <3> QED
      BY <3>3 DEF first
  <2>3. map \in FATs
    <3> HIDE DEF chain
    <3> QED
      BY <1>1, <2>2, LinkedTyped
  <2>4. [table EXCEPT ![Min(found)] = EmptyEntry] \in Tables
    <3> DEFINE i == Min(found)
    <3> HIDE DEF table, i
    <3> QED
      BY EmptyTyped, <1>2 DEF Tables
  <2> HIDE DEF map
  <2>5. b \in Writes(V) /\ b.cluster = FAT_CLUSTER_NUMBER /\ b.content = FATImage(map)
    <3>1. FATImage(map) \in HeldContents(V) /\ FAT_CLUSTER_NUMBER \in Clusters
      BY <2>3, Held, SizeFacts DEF FAT_CLUSTER_NUMBER
    <3> QED
      BY <3>1, WriteTyped
  <2>6. c \in Writes(V) /\ c.cluster = parent
    <3> DEFINE t == [table EXCEPT ![Min(found)] = EmptyEntry]
    <3>1. t \in Tables
      BY <2>4
    <3> HIDE DEF t
    <3>2. Table(t) \in HeldContents(V)
      BY <3>1, Held
    <3>3. write_cluster(parent, Table(t)) \in Writes(V) /\ write_cluster(parent, Table(t)).cluster = parent
      BY <3>2, <1>1, WriteTyped
    <3> QED
      BY <3>3 DEF t
  <2> HIDE DEF chain
  <2>7. blanks \in Seq(Writes(V))
    <3>1. ASSUME NEW k \in 1 .. Len(chain)
          PROVE  write_cluster(chain[k], Blank) \in Writes(V)
      <4>1. chain[k] \in Clusters
        BY <2>2
      <4> QED
        BY <4>1, Held, WriteTyped
    <3>2. Len(chain) \in Nat
      BY <2>2
    <3> DEFINE w(k) == write_cluster(chain[k], Blank)
    <3>3. \A k \in 1 .. Len(chain) : w(k) \in Writes(V)
      BY <3>1
    <3> HIDE DEF w
    <3>4. [k \in 1 .. Len(chain) |-> w(k)] \in Seq(Writes(V))
      BY <3>2, <3>3
    <3> QED
      BY <3>4 DEF w
  <2> HIDE DEF blanks, b, c
  <2>8. blanks \o <<b, c>> \in Seq(Writes(V)) /\ FATArrives(disk, blanks \o <<b, c>>, map)
    BY <2>5, <2>6, <2>7, <1>1, WrittenLast
  <2>9. Mirrored(Effect(0, map, blanks \o <<b, c>>), V)
    BY <2>3, <2>8 DEF Mirrored, Effect
  <2>10. Deleted(parent, name) = Effect(0, map, blanks \o <<b, c>>)
    BY <1>3, <1>5, Zenon
  <2> QED
    BY <2>9, <2>10
<1> QED
  BY <1>4, <1>5

(***************************************************************************)
(* The directory a call works on is a cluster, and not the FAT's.          *)
(***************************************************************************)
LEMMA ParentFacts ==
  ASSUME NEW V, Settled(V), NEW path \in Paths
  PROVE  ParentOf(path) \in OffFAT /\ Last(path) \in Called
<1>1. path \in Seq(Names) /\ path # <<>>
  BY PathsAssumption
<1>2. ParentOf(path) \in OffFAT
  <2>1. Front(path) \in Seq(Names)
    BY <1>1 DEF Front
  <2>2. disk \in Disks(V)
    BY DEF Settled
  <2> QED
    BY <2>1, <2>2, DirectoryInClusters DEF ParentOf
<1>3. Last(path) \in Called
  <2>1. PICK n \in Nat : n = Len(path)
    BY <1>1
  <2>2. n > 0
    BY <1>1, <2>1, EmptySeq
  <2>3. path[n] \in Names
    BY <1>1, <2>1, <2>2
  <2> QED
    BY <2>1, <2>3 DEF Last, Called
<1> QED
  BY <1>2, <1>3

(***************************************************************************)
(* One write after the other brings the FAT to the disk.                   *)
(***************************************************************************)
LEMMA OneWriteArrives ==
  ASSUME NEW V, NEW d \in Disks(V), NEW map, NEW s \in Seq(Writes(V)), s # <<>>, FATArrives(d, s, map)
  PROVE  /\ [d EXCEPT ![Head(s).cluster] = Head(s).content] \in Disks(V)
         /\ Tail(s) \in Seq(Writes(V))
         /\ FATArrives([d EXCEPT ![Head(s).cluster] = Head(s).content], Tail(s), map)
<1>1. PICK n \in Nat : n = Len(s)
  OBVIOUS
<1>2. n > 0
  BY <1>1, EmptySeq
<1>3. PICK w \in Writes(V) : w = Head(s) /\ w = s[1]
  BY <1>1, <1>2
<1>4. PICK t \in Seq(Writes(V)) : t = Tail(s)
  BY HeadTailProperties
<1>5. Len(t) = n - 1 /\ \A k \in 1 .. n - 1 : t[k] = s[k + 1]
  BY <1>1, <1>2, <1>4
<1>6. w.cluster \in Clusters /\ w.content \in HeldContents(V)
  BY DEF Writes
<1>7. PICK e : e = [d EXCEPT ![w.cluster] = w.content]
  OBVIOUS
<1>8. /\ e \in Disks(V)
      /\ e[w.cluster] = w.content
      /\ \A c \in Clusters : c # w.cluster => e[c] = d[c]
  BY <1>6, <1>7 DEF Disks
<1>9. FAT_CLUSTER_NUMBER \in Clusters
  BY SizeFacts DEF FAT_CLUSTER_NUMBER
<1>10. ASSUME d[FAT_CLUSTER_NUMBER] = FATImage(map),
              \A k \in 1 .. n : s[k].cluster # FAT_CLUSTER_NUMBER
       PROVE  FATArrives(e, t, map)
  <2>1. w.cluster # FAT_CLUSTER_NUMBER
    <3>1. 1 \in 1 .. n
      BY <1>2
    <3> QED
      BY <3>1, <1>3, <1>10
  <2>2. e[FAT_CLUSTER_NUMBER] = FATImage(map)
    BY <2>1, <1>8, <1>9, <1>10
  <2>3. ASSUME NEW k \in 1 .. n - 1
        PROVE  t[k].cluster # FAT_CLUSTER_NUMBER
    <3>1. k + 1 \in 1 .. n
      OBVIOUS
    <3> QED
      BY <3>1, <1>5, <1>10
  <2> QED
    BY <2>2, <2>3, <1>5, Zenon DEF FATArrives
<1>11. ASSUME NEW k \in 1 .. n,
              s[k].cluster = FAT_CLUSTER_NUMBER, s[k].content = FATImage(map),
              \A j \in k + 1 .. n : s[j].cluster # FAT_CLUSTER_NUMBER
       PROVE  FATArrives(e, t, map)
  <2>1. CASE k = 1
    <3>1. e[FAT_CLUSTER_NUMBER] = FATImage(map)
      BY <2>1, <1>3, <1>8, <1>11
    <3>2. ASSUME NEW j \in 1 .. n - 1
          PROVE  t[j].cluster # FAT_CLUSTER_NUMBER
      <4>1. j + 1 \in k + 1 .. n
        BY <2>1
      <4> QED
        BY <4>1, <1>5, <1>11
    <3> QED
      BY <3>1, <3>2, <1>5, Zenon DEF FATArrives
  <2>2. CASE k # 1
    <3>1. PICK i \in 1 .. n - 1 : i + 1 = k
      <4>1. k - 1 \in 1 .. n - 1 /\ k - 1 + 1 = k
        BY <2>2
      <4> QED
        BY <4>1
    <3>2. t[i] = s[k]
      BY <3>1, <1>5
    <3>3. ASSUME NEW j \in i + 1 .. n - 1
          PROVE  t[j].cluster # FAT_CLUSTER_NUMBER
      <4>1. j + 1 \in k + 1 .. n /\ j \in 1 .. n - 1
        BY <3>1
      <4> QED
        BY <4>1, <1>5, <1>11
    <3> QED
      BY <3>1, <3>2, <3>3, <1>5, <1>11, Zenon DEF FATArrives
  <2> QED
    BY <2>1, <2>2
<1>12. FATArrives(e, t, map)
  BY <1>1, <1>10, <1>11, Zenon DEF FATArrives
<1>13. [d EXCEPT ![Head(s).cluster] = Head(s).content] = e
  BY <1>3, <1>7, Zenon
<1> QED
  BY <1>4, <1>8, <1>12, <1>13, Zenon

(***************************************************************************)
(* A non-empty set of numbers with a bound has a greatest element, and Max *)
(* names it: the last write to a cluster.                                  *)
(***************************************************************************)
LEMMA MaxProperty ==
  ASSUME NEW n \in Nat, NEW S, S \subseteq 1 .. n, S # {}
  PROVE  Max(S) \in S /\ \A y \in S : y <= Max(S)
<1> DEFINE T == {m \in 1 .. n : n - m + 1 \in S}
<1>1. T \subseteq Nat /\ T # {}
  <2>1. PICK y \in S : TRUE
    OBVIOUS
  <2>2. n - y + 1 \in 1 .. n /\ n - (n - y + 1) + 1 = y
    BY <2>1
  <2>3. n - y + 1 \in T
    BY <2>1, <2>2
  <2>4. T \subseteq Nat
    OBVIOUS
  <2> HIDE DEF T
  <2> QED
    BY <2>3, <2>4
<1>2. PICK m \in T : \A i \in T : m <= i
  <2> HIDE DEF T
  <2> QED
    BY <1>1, MinProperty
<1>3. PICK x \in 1 .. n : x = n - m + 1
  BY <1>2
<1>4. x \in S
  BY <1>2, <1>3
<1>5. ASSUME NEW y \in S
      PROVE  y <= x
  <2>1. y \in 1 .. n /\ n - y + 1 \in 1 .. n /\ n - (n - y + 1) + 1 = y
    OBVIOUS
  <2>2. n - y + 1 \in T
    BY <2>1
  <2>3. m <= n - y + 1 /\ m \in 1 .. n
    BY <1>2, <2>2
  <2> HIDE DEF T
  <2> QED
    BY <1>3, <2>1, <2>3
<1> QED
  BY <1>4, <1>5 DEF Max

(***************************************************************************)
(* Once all the writes are made, the disk is typed and has the FAT.        *)
(***************************************************************************)
LEMMA WrittenTyped ==
  ASSUME NEW V, NEW d \in Disks(V), NEW s \in Seq(Writes(V)), NEW map, FATArrives(d, s, map)
  PROVE  Written(d, s) \in Disks(V) /\ Written(d, s)[FAT_CLUSTER_NUMBER] = FATImage(map)
<1>1. PICK n \in Nat : n = Len(s)
  OBVIOUS
<1> DEFINE here(c) == {k \in 1 .. n : s[k].cluster = c}
           content(c) == IF here(c) = {} THEN d[c] ELSE s[Max(here(c))].content
<1>2. Written(d, s) = [c \in Clusters |-> content(c)]
  BY <1>1 DEF Written
<1>3. \A c : here(c) # {} => Max(here(c)) \in here(c) /\ \A k \in here(c) : k <= Max(here(c))
  <2>1. ASSUME NEW c, here(c) # {}
        PROVE  Max(here(c)) \in here(c) /\ \A k \in here(c) : k <= Max(here(c))
    <3>1. here(c) \subseteq 1 .. n
      OBVIOUS
    <3> HIDE DEF here
    <3> QED
      BY <3>1, <2>1, MaxProperty
  <2> QED
    BY <2>1
<1>4. ASSUME NEW c \in Clusters
      PROVE  content(c) \in HeldContents(V)
  <2>1. CASE here(c) = {}
    BY <2>1 DEF Disks
  <2>2. CASE here(c) # {}
    <3>1. PICK k \in 1 .. n : k = Max(here(c))
      BY <2>2, <1>3
    <3>2. s[k] \in Writes(V)
      BY <1>1
    <3>3. s[k].content \in HeldContents(V)
      BY <3>2 DEF Writes
    <3> HIDE DEF here
    <3> QED
      BY <2>2, <3>1, <3>3
  <2> QED
    BY <2>1, <2>2
<1> HIDE DEF content
<1>5. Written(d, s) \in Disks(V)
  BY <1>2, <1>4 DEF Disks
<1>6. Written(d, s)[FAT_CLUSTER_NUMBER] = content(FAT_CLUSTER_NUMBER)
  BY <1>2, EmptyTyped
<1>7. content(FAT_CLUSTER_NUMBER) = FATImage(map)
  <2>1. CASE /\ d[FAT_CLUSTER_NUMBER] = FATImage(map)
             /\ \A k \in 1 .. n : s[k].cluster # FAT_CLUSTER_NUMBER
    <3>1. here(FAT_CLUSTER_NUMBER) = {}
      BY <2>1
    <3> QED
      BY <2>1, <3>1 DEF content
  <2>2. ASSUME NEW k \in 1 .. n,
               s[k].cluster = FAT_CLUSTER_NUMBER, s[k].content = FATImage(map),
               \A j \in k + 1 .. n : s[j].cluster # FAT_CLUSTER_NUMBER
        PROVE  content(FAT_CLUSTER_NUMBER) = FATImage(map)
    <3>1. k \in here(FAT_CLUSTER_NUMBER)
      BY <2>2
    <3>2. PICK j \in 1 .. n : j = Max(here(FAT_CLUSTER_NUMBER))
      BY <3>1, <1>3
    <3>3. k <= j /\ s[j].cluster = FAT_CLUSTER_NUMBER
      BY <3>1, <3>2, <1>3
    <3>4. j = k
      <4>1. j \notin k + 1 .. n
        BY <2>2, <3>3
      <4> QED
        BY <4>1, <3>3
    <3> HIDE DEF here
    <3> QED
      BY <2>2, <3>1, <3>2, <3>4 DEF content
  <2> QED
    BY <2>1, <2>2, <1>1, Zenon DEF FATArrives
<1> QED
  BY <1>5, <1>6, <1>7

(***************************************************************************)
(* What clusters hold is still that when there are more versions.          *)
(***************************************************************************)
LEMMA MoreVersions ==
  ASSUME NEW V, NEW W, V \subseteq W, Settled(V)
  PROVE  Settled(W)
<1>1. HeldContents(V) \subseteq HeldContents(W)
  BY DEF HeldContents
<1> QED
  BY <1>1 DEF Settled, Disks

(***************************************************************************)
(* What is read of a directory is a table.                                 *)
(***************************************************************************)
LEMMA DirectoryReadTyped ==
  ASSUME NEW V, disk \in Disks(V), NEW c \in Clusters, NEW name, DirectoryRead(c, name).ret = 0
  PROVE  AsTable(DirectoryRead(c, name).data) \in Tables
<1> DEFINE table == AsTable(disk[c])
           found == Matches(table, name)
           entry == table[Min(found)]
<1>1. table \in Tables
  BY ReadsAs DEF Disks
<1>2. DirectoryRead(c, name)
        = CASE found = {} -> [ret |-> 2]
            [] found # {} /\ entry.filesize # 0 -> [ret |-> 1]
            [] OTHER -> [ret |-> 0, data |-> disk[entry.cluster]]
  BY Zenon DEF DirectoryRead
<1>3. found # {} => entry.cluster \in OffFAT
  <2> HIDE DEF table
  <2> QED
    BY <1>1, LookupFacts
<1> HIDE DEF found, entry
<1>4. found # {} /\ DirectoryRead(c, name).data = disk[entry.cluster]
  BY <1>2
<1>5. disk[entry.cluster] \in HeldContents(V)
  BY <1>3, <1>4, EmptyTyped DEF Disks
<1> QED
  BY <1>4, <1>5, ReadsAs

-----------------------------------------------------------------------------
(* The invariant *)

\* Memory and disk hold what they should, and the FAT in memory is the one
\* the disk will hold once the writes of the call in progress are made.
InStep(V) ==
  /\ disk \in Disks(V) /\ fat \in FATs /\ pending \in Seq(Writes(V))
  /\ FATArrives(disk, pending, fat)

(***************************************************************************)
(* Nothing left to write: the FAT has arrived.                             *)
(***************************************************************************)
LEMMA ReadySettled ==
  ASSUME NEW V, InStep(V), pending = <<>>
  PROVE  Settled(V)
<1>1. FATArrives(disk, <<>>, fat)
  BY DEF InStep
<1>2. Len(<<>>) = 0 /\ 1 .. 0 = {}
  OBVIOUS
<1>3. disk[FAT_CLUSTER_NUMBER] = FATImage(fat)
  BY <1>1, <1>2, Zenon DEF FATArrives
<1> QED
  BY <1>3 DEF InStep, Settled

(***************************************************************************)
(* A call with a mirrored effect, and each of the writes it leaves to be   *)
(* made, keep memory and disk in step.                                     *)
(***************************************************************************)
LEMMA MirroredKeeps ==
  ASSUME NEW V, NEW e, Mirrored(e, V), disk \in Disks(V),
         disk' = disk, fat' = e.fat, pending' = e.writes
  PROVE  InStep(V)'
<1>1. FATArrives(disk, pending, fat)'
  <2>1. FATArrives(disk, e.writes, e.fat)
    BY DEF Mirrored
  <2> QED
    BY <2>1, Zenon DEF FATArrives
<1> QED
  BY <1>1 DEF Mirrored, InStep

LEMMA WriteKeeps ==
  ASSUME NEW V, InStep(V), write_clusters
  PROVE  InStep(V)'
<1>1. /\ pending \in Seq(Writes(V)) /\ pending # <<>> /\ disk \in Disks(V) /\ fat \in FATs
      /\ FATArrives(disk, pending, fat)
  BY DEF InStep, write_clusters
<1>2. /\ disk' = [disk EXCEPT ![Head(pending).cluster] = Head(pending).content]
      /\ pending' = Tail(pending) /\ fat' = fat
  BY DEF write_clusters
<1>3. disk' \in Disks(V) /\ pending' \in Seq(Writes(V)) /\ FATArrives(disk', pending', fat)
  BY <1>1, <1>2, OneWriteArrives
<1>4. FATArrives(disk, pending, fat)'
  BY <1>2, <1>3, Zenon DEF FATArrives
<1> QED
  BY <1>1, <1>2, <1>3, <1>4 DEF InStep

\* A storage with the signature has a FAT.
Formatted ==
  disk[BOOT_SECTOR] = Signature => \E m \in FATs : disk[FAT_CLUSTER_NUMBER] = FATImage(m)

\* While the power is off, the disk of a formatted storage has a FAT to start
\* from.
FATInv ==
  /\ power \in BOOLEAN
  /\ InStep(Versions) \/ ~power
  /\ power \/ (disk \in Disks(Versions) /\ fat \in FATs /\ pending = <<>> /\ Formatted)

LEMMA InitFATInv == Init => FATInv
<1> SUFFICES ASSUME Init
             PROVE  FATInv
  OBVIOUS
<1>1. Blank # Signature
  <2>1. Blank.kind = "blank" /\ Signature.kind = "boot"
    BY DEF Blank, Signature
  <2> QED
    BY <2>1
<1>2. disk \in Disks(Versions)
  BY Held DEF Init, Disks
<1>3. fat \in FATs
  BY SizeFacts DEF Init, FATs, ZeroFAT, FAT32_FAT_EMPTY_ENTRY
<1>4. pending = <<>> /\ power = FALSE
  BY DEF Init
<1>5. disk[BOOT_SECTOR] # Signature
  BY <1>1, SizeFacts DEF Init, BOOT_SECTOR
<1> QED
  BY <1>2, <1>3, <1>4, <1>5 DEF FATInv, Formatted

(***************************************************************************)
(* What formatting leaves: a FAT and a root directory.                     *)
(***************************************************************************)
LEMMA FormattedTyped ==
  /\ FormattedFAT \in FATs
  /\ init_directory_table("root", ROOT_CLUSTER_NUMBER) \in Tables
<1>1. FormattedFAT \in FATs
  BY SizeFacts DEF FormattedFAT, ZeroFAT, FATs, FAT32_FAT_EMPTY_ENTRY
<1>2. "root" \in Called
  BY DEF Called
<1>3. init_directory_table("root", ROOT_CLUSTER_NUMBER) \in Tables
  BY <1>2, EmptyTyped, TablesTyped
<1> QED
  BY <1>1, <1>3

(***************************************************************************)
(* Formatting writes the FAT it leaves in memory.                          *)
(***************************************************************************)
LEMMA FormattingArrives ==
  ASSUME NEW V
  PROVE  /\ create_fat32 \in Seq(Writes(V))
         /\ \A d : FATArrives(d, create_fat32, FormattedFAT)
<1> DEFINE a == write_cluster(BOOT_SECTOR, Signature)
           b == write_cluster(FAT_CLUSTER_NUMBER, FATImage(FormattedFAT))
           c == write_cluster(ROOT_CLUSTER_NUMBER,
                              Table(init_directory_table("root", ROOT_CLUSTER_NUMBER)))
<1>1. /\ BOOT_SECTOR \in Clusters /\ FAT_CLUSTER_NUMBER \in Clusters
      /\ ROOT_CLUSTER_NUMBER \in Clusters
      /\ ROOT_CLUSTER_NUMBER # FAT_CLUSTER_NUMBER
  BY SizeFacts DEF BOOT_SECTOR, FAT_CLUSTER_NUMBER, ROOT_CLUSTER_NUMBER
<1>2. a \in Writes(V)
  BY <1>1, Held, WriteTyped
<1>3. b \in Writes(V) /\ b.cluster = FAT_CLUSTER_NUMBER /\ b.content = FATImage(FormattedFAT)
  <2>1. FATImage(FormattedFAT) \in HeldContents(V)
    BY FormattedTyped, Held
  <2> QED
    BY <2>1, <1>1, WriteTyped
<1>4. c \in Writes(V) /\ c.cluster = ROOT_CLUSTER_NUMBER
  <2>1. Table(init_directory_table("root", ROOT_CLUSTER_NUMBER)) \in HeldContents(V)
    BY FormattedTyped, Held
  <2> QED
    BY <2>1, <1>1, WriteTyped
<1>5. create_fat32 = <<a, b, c>>
  BY DEF create_fat32
<1> HIDE DEF a, b, c
<1>6. <<a, b, c>> \in Seq(Writes(V))
  BY <1>2, <1>3, <1>4
<1>7. ASSUME NEW d
      PROVE  FATArrives(d, <<a, b, c>>, FormattedFAT)
  <2>1. /\ Len(<<a, b, c>>) = 3 /\ 2 \in 1 .. 3
        /\ <<a, b, c>>[2] = b /\ <<a, b, c>>[3] = c /\ 2 + 1 .. 3 = {3}
    OBVIOUS
  <2> QED
    BY <2>1, <1>1, <1>3, <1>4, Zenon DEF FATArrives
<1> QED
  BY <1>5, <1>6, <1>7

(***************************************************************************)
(* Power on, with formatting or without it.                                *)
(***************************************************************************)
LEMMA InitializeInv == FATInv /\ initialize_filesystem_fat32 => FATInv'
<1> SUFFICES ASSUME FATInv, initialize_filesystem_fat32
             PROVE  FATInv'
  OBVIOUS
<1> DEFINE V == Versions
<1>0. disk' = disk /\ power' = TRUE /\ disk \in Disks(V) /\ Formatted
  BY DEF FATInv, initialize_filesystem_fat32
<1>1. CASE is_empty_storage
  <2>1. fat' = FormattedFAT /\ pending' = create_fat32
    BY <1>1 DEF initialize_filesystem_fat32
  <2>2. create_fat32 \in Seq(Writes(V)) /\ FATArrives(disk, create_fat32, FormattedFAT)
    BY FormattingArrives
  <2>3. FATArrives(disk, pending, fat)'
    BY <1>0, <2>1, <2>2, Zenon DEF FATArrives
  <2>4. InStep(V)'
    BY <1>0, <2>1, <2>2, <2>3, FormattedTyped DEF InStep
  <2> QED
    BY <1>0, <2>4 DEF FATInv
<1>2. CASE ~is_empty_storage
  <2>1. fat' = AsFAT(disk[FAT_CLUSTER_NUMBER]) /\ pending' = <<>>
    BY <1>2 DEF initialize_filesystem_fat32
  <2>2. PICK m \in FATs : disk[FAT_CLUSTER_NUMBER] = FATImage(m)
    BY <1>0, <1>2 DEF Formatted, is_empty_storage
  <2>3. fat' = m
    BY <2>1, <2>2, Held
  <2>4. Len(<<>>) = 0 /\ 1 .. 0 = {} /\ <<>> \in Seq(Writes(V))
    OBVIOUS
  <2>5. FATArrives(disk, <<>>, m)
    BY <2>2, <2>4, Zenon DEF FATArrives
  <2>6. FATArrives(disk, pending, fat)'
    BY <1>0, <2>1, <2>3, <2>5, Zenon DEF FATArrives
  <2>7. InStep(V)'
    BY <1>0, <2>1, <2>3, <2>4, <2>6 DEF InStep
  <2> QED
    BY <1>0, <2>7 DEF FATInv
<1> QED
  BY <1>1, <1>2

LEMMA WriteClustersInv == FATInv /\ write_clusters => FATInv'
<1> SUFFICES ASSUME FATInv, write_clusters
             PROVE  FATInv'
  OBVIOUS
<1>1. power = TRUE /\ InStep(Versions) /\ power' = power
  BY DEF FATInv, write_clusters
<1>2. InStep(Versions)'
  BY <1>1, WriteKeeps
<1> QED
  BY <1>1, <1>2 DEF FATInv

LEMMA PowerOffInv == FATInv /\ PowerOff => FATInv'
<1> SUFFICES ASSUME FATInv, PowerOff
             PROVE  FATInv'
  OBVIOUS
<1>1. disk' = disk /\ pending' = pending /\ pending = <<>> /\ power' = FALSE /\ fat' = ZeroFAT
  BY DEF PowerOff
<1>2. Settled(Versions)
  BY <1>1, ReadySettled DEF PowerOff, FATInv
<1>3. ZeroFAT \in FATs
  BY SizeFacts DEF ZeroFAT, FATs, FAT32_FAT_EMPTY_ENTRY
<1>4. Formatted'
  BY <1>1, <1>2 DEF Formatted, Settled
<1> QED
  BY <1>1, <1>2, <1>3, <1>4 DEF FATInv, Settled

LEMMA CallsInv == FATInv /\ Calls => FATInv'
<1> SUFFICES ASSUME FATInv, Calls
             PROVE  FATInv'
  OBVIOUS
<1> DEFINE V == Versions
<1>0. ASSUME Ready
      PROVE  Settled(V) /\ disk \in Disks(V)
  BY <1>0, ReadySettled DEF Ready, FATInv, Settled
<1>1. ASSUME Ready, NEW e, NEW outcome, Mirrored(e, V), Perform(e, outcome)
      PROVE  FATInv'
  <2>1. /\ disk' = disk /\ fat' = e.fat /\ pending' = e.writes
        /\ power' = power /\ power = TRUE
    BY <1>1 DEF Perform, FATInv, Ready
  <2>2. InStep(V)'
    BY <1>0, <1>1, <2>1, MirroredKeeps
  <2> QED
    BY <2>1, <2>2 DEF FATInv
<1>2. ASSUME NEW path \in Paths, CarefulWriteFolder(path)
      PROVE  FATInv'
  <2>1. Ready /\ Cardinality(FreeClusters(fat)) >= 1
    BY <1>2 DEF CarefulWriteFolder, CarefulWrite
  <2>2. Mirrored(FolderWritten(ParentOf(path), Last(path)), V)
    BY <1>0, <2>1, ParentFacts, FolderMirrored
  <2>3. PICK e : e = FolderWritten(ParentOf(path), Last(path))
                 /\ Perform(e, Outcome("write", path, e.ret))
    BY <1>2 DEF CarefulWriteFolder, WriteFolder
  <2> QED
    BY <1>1, <2>1, <2>2, <2>3
<1>3. ASSUME NEW path \in Paths, NEW size \in FileSizes, NEW version \in Versions,
             CarefulWriteFile(path, size, version)
      PROVE  FATInv'
  <2>1. Ready /\ Cardinality(FreeClusters(fat)) >= ClusterNeed(size)
    BY <1>3 DEF CarefulWriteFile, CarefulWrite
  <2>2. Mirrored(FileWritten(ParentOf(path), Last(path), size, version), V)
    BY <1>0, <2>1, ParentFacts, FileMirrored
  <2>3. PICK e : e = FileWritten(ParentOf(path), Last(path), size, version)
                 /\ Perform(e, Outcome("write", path, e.ret))
    BY <1>3 DEF CarefulWriteFile, WriteFile
  <2> QED
    BY <1>1, <2>1, <2>2, <2>3
<1>4. ASSUME NEW path \in Paths, CarefulDelete(path)
      PROVE  FATInv'
  <2>1. Ready
    BY <1>4 DEF CarefulDelete
  <2>2. Mirrored(Deleted(ParentOf(path), Last(path)), V)
    BY <1>0, <2>1, ParentFacts, DeletedMirrored
  <2>3. PICK e, outcome : e = Deleted(ParentOf(path), Last(path)) /\ Perform(e, outcome)
    BY <1>4 DEF CarefulDelete, delete
  <2> QED
    BY <1>1, <2>1, <2>2, <2>3
<1>5. CASE Ready /\ WriteNowhere
  <2>1. PICK outcome : Perform(Refused(2), outcome)
    BY <1>5 DEF WriteNowhere
  <2>2. Mirrored(Refused(2), V)
    BY <1>0, <1>5, RefusedMirrored
  <2> QED
    BY <1>1, <1>5, <2>1, <2>2
<1>6. CASE Reads
  <2>1. UNCHANGED <<disk, fat, pending, power>>
    BY <1>6 DEF Reads, read, read_directory, Answers
  <2> QED
    BY <2>1 DEF FATInv, InStep, FATArrives, Formatted
<1> QED
  BY <1>2, <1>3, <1>4, <1>5, <1>6 DEF Calls

(***************************************************************************)
(* The inductive invariant: the FAT in memory is the one the disk will     *)
(* hold once the writes of the call in progress are made.                  *)
(***************************************************************************)
THEOREM FATInvariant == Spec => []FATInv
<1>1. FATInv /\ [Next]_vars => FATInv'
  <2> SUFFICES ASSUME FATInv, [Next]_vars
               PROVE  FATInv'
    OBVIOUS
  <2>1. CASE UNCHANGED vars
    BY <2>1 DEF vars, FATInv, InStep, FATArrives, Formatted
  <2>2. CASE Next
    BY <2>2, InitializeInv, WriteClustersInv, PowerOffInv, CallsInv DEF Next
  <2> QED
    BY <2>1, <2>2
<1> QED
  BY <1>1, InitFATInv, PTL DEF Spec

(***************************************************************************)
(* Every cluster holds something the driver wrote there, every write under *)
(* way is to a cluster of the disk, and the FAT in memory links clusters   *)
(* of the disk: no chain leads outside it (fat32.c:107-126, 275-456).      *)
(***************************************************************************)
THEOREM FATTypeCorrect == Spec => []TypeOK
<1>1. FATInv => TypeOK
  <2> SUFFICES ASSUME FATInv
               PROVE  TypeOK
    OBVIOUS
  <2>1. /\ disk \in Disks(Versions) /\ fat \in FATs /\ power \in BOOLEAN
        /\ pending \in Seq(Writes(Versions))
    <3>1. CASE power
      BY <3>1 DEF FATInv, InStep
    <3>2. CASE ~power
      <4>1. <<>> \in Seq(Writes(Versions))
        OBVIOUS
      <4>2. disk \in Disks(Versions) /\ fat \in FATs /\ pending = <<>>
        BY <3>2, Zenon DEF FATInv
      <4>3. pending \in Seq(Writes(Versions))
        BY <4>1, <4>2
      <4> QED
        BY <4>2, <4>3, Zenon DEF FATInv
    <3> QED
      BY <3>1, <3>2
  <2>2. DOMAIN disk = Clusters /\ \A c \in Clusters : IsContent(disk[c])
    BY <2>1, HeldIsContent DEF Disks
  <2>3. ASSUME NEW k \in 1 .. Len(pending)
        PROVE  pending[k].cluster \in Clusters /\ IsContent(pending[k].content)
    <3>1. pending[k] \in Writes(Versions)
      BY <2>1
    <3>2. pending[k].cluster \in Clusters /\ pending[k].content \in HeldContents(Versions)
      BY <3>1 DEF Writes
    <3> QED
      BY <3>2, HeldIsContent
  <2> QED
    BY <2>1, <2>2, <2>3, Zenon DEF TypeOK
<1> QED
  BY <1>1, FATInvariant, PTL

(***************************************************************************)
(* Between calls the FAT in memory is the one on the disk, for any number  *)
(* of clusters, entries and names: whatever has been created and deleted,  *)
(* nothing is lost with the power (fat32.c:301, 365, 427, 450).            *)
(***************************************************************************)
THEOREM MemoryIsOnTheDisk == Spec => []FATMirrored
<1>1. FATInv => FATMirrored
  BY ReadySettled DEF FATMirrored, Settled, FATInv, Ready
<1> QED
  BY <1>1, FATInvariant, PTL

=============================================================================
