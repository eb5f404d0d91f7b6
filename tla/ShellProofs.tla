---------------------------- MODULE ShellProofs ----------------------------
(***************************************************************************)
(* Proofs about the shell (module Shell): where it believes to be, and     *)
(* what its commands make of the tree.                                     *)
(***************************************************************************)
EXTENDS Shell, FAT32TreeProofs

-----------------------------------------------------------------------------
(* The recursions *)

\* cd: where the walk starts, and the recursion that defines it.
Start == [ok |-> TRUE, depth |-> DEPTH, path |-> DIR_PATH, clusters |-> DIR_CLUSTERS]

WalkStep(f, path) ==
  [k \in 0 .. Len(path) |-> IF k = 0 THEN Start ELSE EnterFolder(f[k - 1], path[k])]

(***************************************************************************)
(* cd has a result after each component of its path.                       *)
(***************************************************************************)
LEMMA EnteringExists ==
  ASSUME NEW path, Len(path) \in Nat
  PROVE  \E f : f = WalkStep(f, path)
<1> DEFINE N == Len(path)
           Upto(f, m) ==
             \A k \in 0 .. m :
               f[k] = IF k = 0 THEN Start ELSE EnterFolder(f[k - 1], path[k])
           S == {m \in 0 .. N : \E f : Upto(f, m)}
<1>0. N \in Nat
  OBVIOUS
<1> HIDE DEF N
<1>1. 0 \in S
  <2>1. Upto([k \in {0} |-> Start], 0)
    OBVIOUS
  <2>2. \E f : Upto(f, 0)
    BY <2>1
  <2> HIDE DEF Upto
  <2> QED
    BY <1>0, <2>2
<1>2. ASSUME NEW m \in 0 .. N, m < N, m \in S
      PROVE  m + 1 \in S
  <2>1. PICK f : Upto(f, m)
    BY <1>2
  <2> DEFINE g == [k \in 0 .. m + 1 |->
                     IF k <= m THEN f[k] ELSE EnterFolder(f[m], path[m + 1])]
  <2>2. \A k \in 0 .. m : g[k] = f[k]
    OBVIOUS
  <2>3. g[m + 1] = EnterFolder(f[m], path[m + 1])
    OBVIOUS
  <2>4. ASSUME NEW k \in 0 .. m + 1
        PROVE  g[k] = IF k = 0 THEN Start ELSE EnterFolder(g[k - 1], path[k])
    <3>1. CASE k = m + 1
      <4>1. k # 0 /\ k - 1 = m /\ m \in 0 .. m
        BY <3>1
      <4>2. g[k - 1] = f[m]
        BY <4>1, <2>2
      <4> HIDE DEF g
      <4> QED
        BY <4>1, <4>2, <2>3, <3>1
    <3>2. CASE k # m + 1
      <4>1. k \in 0 .. m /\ (k # 0 => k - 1 \in 0 .. m)
        BY <3>2
      <4>2. g[k] = f[k] /\ (k # 0 => g[k - 1] = f[k - 1])
        BY <4>1, <2>2
      <4>3. f[k] = IF k = 0 THEN Start ELSE EnterFolder(f[k - 1], path[k])
        BY <2>1, <4>1
      <4> HIDE DEF g
      <4> QED
        BY <4>2, <4>3
    <3> QED
      BY <3>1, <3>2
  <2>5. Upto(g, m + 1)
    BY <2>4
  <2>6. m + 1 \in 0 .. N
    BY <1>0, <1>2
  <2> HIDE DEF g
  <2> QED
    BY <2>5, <2>6
<1>3. \A m \in 0 .. N : m \in S
  <2> HIDE DEF S
  <2> QED
    BY <1>0, <1>1, <1>2, CountingUp
<1>4. PICK f : Upto(f, N)
  <2>1. N \in 0 .. N
    BY <1>0
  <2> QED
    BY <2>1, <1>3
<1> DEFINE h == [k \in 0 .. N |-> f[k]]
<1>5. h = WalkStep(h, path)
  <2>1. ASSUME NEW k \in 0 .. N
        PROVE  h[k] = IF k = 0 THEN Start ELSE EnterFolder(h[k - 1], path[k])
    <3>1. k # 0 => k - 1 \in 0 .. N
      BY <1>0
    <3>2. h[k] = f[k] /\ (k # 0 => h[k - 1] = f[k - 1])
      BY <3>1
    <3>3. f[k] = IF k = 0 THEN Start ELSE EnterFolder(f[k - 1], path[k])
      BY <1>4
    <3> HIDE DEF h
    <3> QED
      BY <3>2, <3>3
  <2>2. h = [k \in 0 .. N |-> IF k = 0 THEN Start ELSE EnterFolder(h[k - 1], path[k])]
    BY <2>1
  <2> QED
    BY <2>2 DEF WalkStep, N
<1> QED
  BY <1>5

\* mv: the way to the destination.
Top ==
  [ok |-> TRUE, table |-> AsTable(DirectoryRead(ROOT_CLUSTER_NUMBER, Root).data),
   cluster |-> ROOT_CLUSTER_NUMBER, above |-> ROOT_CLUSTER_NUMBER]

DescentStep(f, folders) ==
  [k \in 0 .. Len(folders) |-> IF k = 0 THEN Top ELSE Descend(f[k - 1], folders[k])]

(***************************************************************************)
(* So has the way down to the destination of mv.                           *)
(***************************************************************************)
LEMMA DescentExists ==
  ASSUME NEW folders, Len(folders) \in Nat
  PROVE  \E f : f = DescentStep(f, folders)
<1> DEFINE N == Len(folders)
           Upto(f, m) ==
             \A k \in 0 .. m :
               f[k] = IF k = 0 THEN Top ELSE Descend(f[k - 1], folders[k])
           S == {m \in 0 .. N : \E f : Upto(f, m)}
<1>0. N \in Nat
  OBVIOUS
<1> HIDE DEF N
<1>1. 0 \in S
  <2>1. Upto([k \in {0} |-> Top], 0)
    OBVIOUS
  <2>2. \E f : Upto(f, 0)
    BY <2>1
  <2> HIDE DEF Upto
  <2> QED
    BY <1>0, <2>2
<1>2. ASSUME NEW m \in 0 .. N, m < N, m \in S
      PROVE  m + 1 \in S
  <2>1. PICK f : Upto(f, m)
    BY <1>2
  <2> DEFINE g == [k \in 0 .. m + 1 |->
                     IF k <= m THEN f[k] ELSE Descend(f[m], folders[m + 1])]
  <2>2. \A k \in 0 .. m : g[k] = f[k]
    OBVIOUS
  <2>3. g[m + 1] = Descend(f[m], folders[m + 1])
    OBVIOUS
  <2>4. ASSUME NEW k \in 0 .. m + 1
        PROVE  g[k] = IF k = 0 THEN Top ELSE Descend(g[k - 1], folders[k])
    <3>1. CASE k = m + 1
      <4>1. k # 0 /\ k - 1 = m /\ m \in 0 .. m
        BY <3>1
      <4>2. g[k - 1] = f[m]
        BY <4>1, <2>2
      <4> HIDE DEF g
      <4> QED
        BY <4>1, <4>2, <2>3, <3>1
    <3>2. CASE k # m + 1
      <4>1. k \in 0 .. m /\ (k # 0 => k - 1 \in 0 .. m)
        BY <3>2
      <4>2. g[k] = f[k] /\ (k # 0 => g[k - 1] = f[k - 1])
        BY <4>1, <2>2
      <4>3. f[k] = IF k = 0 THEN Top ELSE Descend(f[k - 1], folders[k])
        BY <2>1, <4>1
      <4> HIDE DEF g
      <4> QED
        BY <4>2, <4>3
    <3> QED
      BY <3>1, <3>2
  <2>5. Upto(g, m + 1)
    BY <2>4
  <2>6. m + 1 \in 0 .. N
    BY <1>0, <1>2
  <2> HIDE DEF g
  <2> QED
    BY <2>5, <2>6
<1>3. \A m \in 0 .. N : m \in S
  <2> HIDE DEF S
  <2> QED
    BY <1>0, <1>1, <1>2, CountingUp
<1>4. PICK f : Upto(f, N)
  <2>1. N \in 0 .. N
    BY <1>0
  <2> QED
    BY <2>1, <1>3
<1> DEFINE h == [k \in 0 .. N |-> f[k]]
<1>5. h = DescentStep(h, folders)
  <2>1. ASSUME NEW k \in 0 .. N
        PROVE  h[k] = IF k = 0 THEN Top ELSE Descend(h[k - 1], folders[k])
    <3>1. k # 0 => k - 1 \in 0 .. N
      BY <1>0
    <3>2. h[k] = f[k] /\ (k # 0 => h[k - 1] = f[k - 1])
      BY <3>1
    <3>3. f[k] = IF k = 0 THEN Top ELSE Descend(f[k - 1], folders[k])
      BY <1>4
    <3> HIDE DEF h
    <3> QED
      BY <3>2, <3>3
  <2>2. h = [k \in 0 .. N |-> IF k = 0 THEN Top ELSE Descend(h[k - 1], folders[k])]
    BY <2>1
  <2> QED
    BY <2>2 DEF DescentStep, N
<1> QED
  BY <1>5

\* The image, file by file.
Empty == [fat |-> FormattedFAT, disk |-> FormattedDisk]

ImageStep(f) ==
  [k \in 0 .. Len(Inserted) |-> IF k = 0 THEN Empty ELSE InsertFile(f[k - 1], Inserted[k])]

(***************************************************************************)
(* So has the image.                                                       *)
(***************************************************************************)
LEMMA ImagesExist ==
  ASSUME Len(Inserted) \in Nat
  PROVE  \E f : f = ImageStep(f)
<1> DEFINE N == Len(Inserted)
           Upto(f, m) ==
             \A k \in 0 .. m :
               f[k] = IF k = 0 THEN Empty ELSE InsertFile(f[k - 1], Inserted[k])
           S == {m \in 0 .. N : \E f : Upto(f, m)}
<1>0. N \in Nat
  OBVIOUS
<1> HIDE DEF N
<1>1. 0 \in S
  <2>1. Upto([k \in {0} |-> Empty], 0)
    OBVIOUS
  <2>2. \E f : Upto(f, 0)
    BY <2>1
  <2> HIDE DEF Upto
  <2> QED
    BY <1>0, <2>2
<1>2. ASSUME NEW m \in 0 .. N, m < N, m \in S
      PROVE  m + 1 \in S
  <2>1. PICK f : Upto(f, m)
    BY <1>2
  <2> DEFINE g == [k \in 0 .. m + 1 |->
                     IF k <= m THEN f[k] ELSE InsertFile(f[m], Inserted[m + 1])]
  <2>2. \A k \in 0 .. m : g[k] = f[k]
    OBVIOUS
  <2>3. g[m + 1] = InsertFile(f[m], Inserted[m + 1])
    OBVIOUS
  <2>4. ASSUME NEW k \in 0 .. m + 1
        PROVE  g[k] = IF k = 0 THEN Empty ELSE InsertFile(g[k - 1], Inserted[k])
    <3>1. CASE k = m + 1
      <4>1. k # 0 /\ k - 1 = m /\ m \in 0 .. m
        BY <3>1
      <4>2. g[k - 1] = f[m]
        BY <4>1, <2>2
      <4> HIDE DEF g
      <4> QED
        BY <4>1, <4>2, <2>3, <3>1
    <3>2. CASE k # m + 1
      <4>1. k \in 0 .. m /\ (k # 0 => k - 1 \in 0 .. m)
        BY <3>2
      <4>2. g[k] = f[k] /\ (k # 0 => g[k - 1] = f[k - 1])
        BY <4>1, <2>2
      <4>3. f[k] = IF k = 0 THEN Empty ELSE InsertFile(f[k - 1], Inserted[k])
        BY <2>1, <4>1
      <4> HIDE DEF g
      <4> QED
        BY <4>2, <4>3
    <3> QED
      BY <3>1, <3>2
  <2>5. Upto(g, m + 1)
    BY <2>4
  <2>6. m + 1 \in 0 .. N
    BY <1>0, <1>2
  <2> HIDE DEF g
  <2> QED
    BY <2>5, <2>6
<1>3. \A m \in 0 .. N : m \in S
  <2> HIDE DEF S
  <2> QED
    BY <1>0, <1>1, <1>2, CountingUp
<1>4. PICK f : Upto(f, N)
  <2>1. N \in 0 .. N
    BY <1>0
  <2> QED
    BY <2>1, <1>3
<1> DEFINE h == [k \in 0 .. N |-> f[k]]
<1>5. h = ImageStep(h)
  <2>1. ASSUME NEW k \in 0 .. N
        PROVE  h[k] = IF k = 0 THEN Empty ELSE InsertFile(h[k - 1], Inserted[k])
    <3>1. k # 0 => k - 1 \in 0 .. N
      BY <1>0
    <3>2. h[k] = f[k] /\ (k # 0 => h[k - 1] = f[k - 1])
      BY <3>1
    <3>3. f[k] = IF k = 0 THEN Empty ELSE InsertFile(f[k - 1], Inserted[k])
      BY <1>4
    <3> HIDE DEF h
    <3> QED
      BY <3>2, <3>3
  <2>2. h = [k \in 0 .. N |-> IF k = 0 THEN Empty ELSE InsertFile(h[k - 1], Inserted[k])]
    BY <2>1
  <2> QED
    BY <2>2 DEF ImageStep, N
<1> QED
  BY <1>5

-----------------------------------------------------------------------------
(* Walks *)

DirNames == Names \cup {Root, NoName}
Slots == OffFAT \cup {-1}
Walks ==
  [ok : BOOLEAN, depth : Nat, path : [Depths -> DirNames], clusters : [Depths -> Slots]]

\* The first slots, down to the depth, hold a path of directories.
Placed(path, clusters, depth) ==
  \A i \in 0 .. depth : path[i] # NoName /\ clusters[i] \in OffFAT

\* The shell's idea of where it is: arrays filled down to the depth, from the
\* root on, and the numbers that say the same.
CursorInv ==
  /\ DEPTH \in Depths
  /\ DIR_PATH \in [Depths -> DirNames] /\ DIR_CLUSTERS \in [Depths -> Slots]
  /\ Placed(DIR_PATH, DIR_CLUSTERS, DEPTH)
  /\ DIR_PATH[0] = Root /\ DIR_CLUSTERS[0] = ROOT_CLUSTER_NUMBER
  /\ CursorConsistent

\* After k components of its path cd has changed nothing down to where the
\* user is, and has filled k slots below unless it has failed.
OnTheWay(w, k) ==
  /\ w \in Walks
  /\ \A i \in 0 .. DEPTH : w.path[i] = DIR_PATH[i] /\ w.clusters[i] = DIR_CLUSTERS[i]
  /\ ~w.ok \/ (w.depth = DEPTH + k /\ Placed(w.path, w.clusters, w.depth))

LEMMA StartOnTheWay ==
  ASSUME CursorInv
  PROVE  OnTheWay(Start, 0)
<1>1. DEPTH \in Nat
  BY DepthAssumption DEF CursorInv, Depths
<1>2. Start \in Walks
  BY <1>1 DEF Start, Walks, CursorInv
<1> QED
  BY <1>1, <1>2 DEF Start, OnTheWay, CursorInv

(***************************************************************************)
(* One component of cd's path.                                             *)
(***************************************************************************)
LEMMA EnterOnTheWay ==
  ASSUME NEW V, disk \in Disks(V), CursorInv,
         NEW k \in Nat, DEPTH + k + 1 <= MaxDepth, NEW w, OnTheWay(w, k), NEW name \in Names
  PROVE  OnTheWay(EnterFolder(w, name), k + 1)
<1> DEFINE above == IF w.depth = 0 THEN 0 ELSE w.depth - 1
           r == DirectoryRead(w.clusters[above], w.path[w.depth])
           found == FolderEntries(AsTable(r.data), name)
           cluster == AsTable(r.data)[Min(found)].cluster
           stuck == [w EXCEPT !.ok = FALSE]
           next == [ok |-> TRUE, depth |-> w.depth + 1,
                    path |-> [w.path EXCEPT ![w.depth + 1] = name],
                    clusters |-> [w.clusters EXCEPT ![w.depth + 1] = cluster]]
<1>1. EnterFolder(w, name)
        = IF ~w.ok THEN w ELSE IF r.ret # 0 THEN stuck ELSE IF found = {} THEN stuck ELSE next
  BY Zenon DEF EnterFolder
<1>2. /\ DEPTH \in Nat /\ MaxDepth \in Nat /\ DEPTH + k + 1 \in Depths
      /\ 0 .. DEPTH \subseteq Depths
  BY DepthAssumption DEF CursorInv, Depths
<1>3. /\ w \in Walks
      /\ \A i \in 0 .. DEPTH : w.path[i] = DIR_PATH[i] /\ w.clusters[i] = DIR_CLUSTERS[i]
  BY DEF OnTheWay
<1>4. CASE ~w.ok
  <2>1. EnterFolder(w, name) = w
    BY <1>1, <1>4
  <2> QED
    BY <2>1, <1>3, <1>4 DEF OnTheWay
<1>5. OnTheWay(stuck, k + 1)
  <2>1. stuck \in Walks /\ ~stuck.ok /\ stuck.path = w.path /\ stuck.clusters = w.clusters
    BY <1>3 DEF Walks
  <2> HIDE DEF stuck
  <2> QED
    BY <2>1, <1>3 DEF OnTheWay
<1>6. CASE w.ok /\ r.ret = 0 /\ found # {}
  <2>1. w.depth = DEPTH + k /\ Placed(w.path, w.clusters, w.depth)
    BY <1>6 DEF OnTheWay
  <2>2. above \in 0 .. w.depth
    BY <2>1, <1>2
  <2>3. w.clusters[above] \in Clusters
    <3> HIDE DEF above
    <3>1. w.clusters[above] \in OffFAT
      BY <2>1, <2>2 DEF Placed
    <3> QED
      BY <3>1, EmptyTyped
  <2> HIDE DEF above
  <2>4. AsTable(r.data) \in Tables
    BY <2>3, <1>6, DirectoryReadTyped
  <2>5. cluster \in OffFAT
    <3> DEFINE t == AsTable(r.data)
    <3>1. found \subseteq Positions /\ found \subseteq Nat
      BY SizeFacts DEF FolderEntries
    <3>2. t \in Tables
      BY <2>4
    <3> HIDE DEF t, found
    <3>3. Min(found) \in Positions
      BY <3>1, <1>6, MinProperty
    <3>4. t[Min(found)] \in PointingOff
      BY <3>2, <3>3 DEF Tables
    <3>5. t[Min(found)].cluster \in OffFAT
      BY <3>4 DEF PointingOff
    <3> QED
      BY <3>5 DEF t
  <2> HIDE DEF cluster
  <2>6. name # NoName /\ name \in DirNames
    BY NamesAssumption DEF DirNames, NoName
  <2>7. PICK n \in Depths : n = w.depth + 1 /\ n = DEPTH + k + 1 /\ n \in Nat
    BY <2>1, <1>2
  <2> DEFINE p == [w.path EXCEPT ![n] = name]
             c == [w.clusters EXCEPT ![n] = cluster]
  <2>8. /\ w.path \in [Depths -> DirNames] /\ w.clusters \in [Depths -> Slots]
    BY <1>3 DEF Walks
  <2>9. /\ p \in [Depths -> DirNames] /\ c \in [Depths -> Slots]
        /\ p[n] = name /\ c[n] = cluster
        /\ \A i \in Depths : i # n => p[i] = w.path[i] /\ c[i] = w.clusters[i]
    BY <2>5, <2>6, <2>8 DEF Slots
  <2>10. next = [ok |-> TRUE, depth |-> n, path |-> p, clusters |-> c]
    BY <2>7, Zenon
  <2> HIDE DEF p, c
  <2>11. next \in Walks /\ next.ok /\ next.depth = n /\ next.path = p /\ next.clusters = c
    BY <2>7, <2>9, <2>10 DEF Walks
  <2>12. \A i \in 0 .. DEPTH : p[i] = DIR_PATH[i] /\ c[i] = DIR_CLUSTERS[i]
    <3>1. \A i \in 0 .. DEPTH : i \in Depths /\ i # n
      BY <1>2, <2>7
    <3> QED
      BY <3>1, <2>9, <1>3
  <2>13. Placed(p, c, n)
    <3>1. ASSUME NEW i \in 0 .. n
          PROVE  p[i] # NoName /\ c[i] \in OffFAT
      <4>1. CASE i = n
        BY <4>1, <2>5, <2>6, <2>9
      <4>2. CASE i # n
        <5>1. i \in Depths /\ i \in 0 .. w.depth
          BY <4>2, <2>1, <2>7, <1>2 DEF Depths
        <5>2. w.path[i] # NoName /\ w.clusters[i] \in OffFAT
          BY <5>1, <2>1 DEF Placed
        <5> QED
          BY <5>1, <5>2, <4>2, <2>9
      <4> QED
        BY <4>1, <4>2
    <3> QED
      BY <3>1 DEF Placed
  <2>14. n = DEPTH + (k + 1)
    BY <2>7, <1>2
  <2>15. OnTheWay(next, k + 1)
    <3> HIDE DEF next
    <3> QED
      BY <2>11, <2>12, <2>13, <2>14 DEF OnTheWay
  <2>16. EnterFolder(w, name) = next
    <3> HIDE DEF r, found, next, stuck
    <3> QED
      BY <1>1, <1>6
  <2> QED
    BY <2>15, <2>16
<1>7. CASE w.ok /\ ~(r.ret = 0 /\ found # {})
  <2>1. EnterFolder(w, name) = stuck
    <3> HIDE DEF r, found, next, stuck
    <3> QED
      BY <1>1, <1>7
  <2> QED
    BY <2>1, <1>5
<1> QED
  BY <1>4, <1>6, <1>7

\* What the recursion of cd says.
Entering(f, path) ==
  f[0] = Start /\ \A k \in 1 .. Len(path) : f[k] = EnterFolder(f[k - 1], path[k])

LEMMA WalkFacts ==
  ASSUME NEW path, Len(path) \in Nat
  PROVE  \E f : Walk(path) = f[Len(path)] /\ Entering(f, path)
<1> DEFINE f == CHOOSE g : g = WalkStep(g, path)
<1>1. f = WalkStep(f, path)
  BY EnteringExists
<1>2. Walk(path) = f[Len(path)]
  BY DEF Walk, WalkStep, Start
<1> HIDE DEF f
<1>3. \A k \in 0 .. Len(path) : f[k] = IF k = 0 THEN Start ELSE EnterFolder(f[k - 1], path[k])
  BY <1>1 DEF WalkStep
<1>4. f[0] = Start
  BY <1>3
<1>5. \A k \in 1 .. Len(path) : f[k] = EnterFolder(f[k - 1], path[k])
  BY <1>3
<1> QED
  BY <1>2, <1>4, <1>5, Zenon DEF Entering

(***************************************************************************)
(* Where cd ends: nothing is changed down to where the user is, and a walk *)
(* that does not fail has filled a slot for each component.                *)
(***************************************************************************)
LEMMA WalkOnTheWay ==
  ASSUME NEW V, disk \in Disks(V), CursorInv,
         NEW path \in Seq(Names), DEPTH + Len(path) <= MaxDepth
  PROVE  OnTheWay(Walk(path), Len(path))
<1>1. PICK n \in Nat : n = Len(path)
  OBVIOUS
<1>2. PICK f : Walk(path) = f[n] /\ Entering(f, path)
  BY <1>1, WalkFacts
<1>3. DEPTH \in Nat /\ MaxDepth \in Nat /\ DEPTH + n <= MaxDepth
  BY <1>1, DepthAssumption DEF CursorInv, Depths
<1> DEFINE S == {k \in 0 .. n : OnTheWay(f[k], k)}
<1>4. 0 \in S
  BY <1>2, StartOnTheWay DEF Entering
<1>5. ASSUME NEW k \in 0 .. n, k < n, k \in S
      PROVE  k + 1 \in S
  <2>1. k + 1 \in 1 .. n /\ k + 1 - 1 = k /\ k + 1 \in 0 .. n /\ k \in Nat
    BY <1>5
  <2>2. f[k + 1] = EnterFolder(f[k], path[k + 1])
    BY <2>1, <1>1, <1>2 DEF Entering
  <2>3. path[k + 1] \in Names
    BY <2>1, <1>1
  <2>4. OnTheWay(f[k], k)
    BY <1>5
  <2>5. DEPTH + k + 1 <= MaxDepth
    BY <2>1, <1>3
  <2>6. OnTheWay(EnterFolder(f[k], path[k + 1]), k + 1)
    BY <2>1, <2>3, <2>4, <2>5, EnterOnTheWay
  <2> QED
    BY <2>1, <2>2, <2>6
<1>6. n \in S
  <2> HIDE DEF S
  <2>1. n \in 0 .. n
    OBVIOUS
  <2> QED
    BY <1>4, <1>5, <2>1, CountingUp
<1> QED
  BY <1>1, <1>2, <1>6

-----------------------------------------------------------------------------
(* The way to the destination of mv *)

Descents == [ok : BOOLEAN, table : Tables, cluster : OffFAT, above : OffFAT]

LEMMA DescendTyped ==
  ASSUME NEW V, disk \in Disks(V), NEW w \in Descents, NEW name
  PROVE  Descend(w, name) \in Descents
<1> DEFINE found == Matches(w.table, name)
           cluster == w.table[Min(found)].cluster
           r == DirectoryRead(w.above, name)
           stuck == [w EXCEPT !.ok = FALSE]
           next == [ok |-> TRUE, table |-> AsTable(r.data), cluster |-> cluster, above |-> cluster]
<1>1. Descend(w, name)
        = IF ~w.ok THEN w ELSE IF found = {} THEN stuck ELSE IF r.ret # 0 THEN stuck ELSE next
  BY Zenon DEF Descend
<1>2. w.table \in Tables /\ w.above \in Clusters
  BY EmptyTyped DEF Descents
<1>3. stuck \in Descents
  BY DEF Descents
<1>4. ASSUME found # {}, r.ret = 0
      PROVE  next \in Descents
  <2>1. AsTable(r.data) \in Tables
    BY <1>2, <1>4, DirectoryReadTyped
  <2>2. cluster \in OffFAT
    <3> DEFINE t == w.table
    <3>1. t \in Tables
      BY <1>2
    <3> HIDE DEF t
    <3>2. found = Matches(t, name)
      BY DEF t
    <3>3. t[Min(Matches(t, name))].cluster \in OffFAT
      BY <3>1, <3>2, <1>4, LookupFacts
    <3> QED
      BY <3>2, <3>3 DEF t
  <2> HIDE DEF cluster, r
  <2> QED
    BY <2>1, <2>2 DEF Descents
<1> HIDE DEF found, r, stuck, next
<1> QED
  BY <1>1, <1>3, <1>4

(***************************************************************************)
(* The table and the cluster the way ends at are of the disk's, or it has  *)
(* failed.                                                                 *)
(***************************************************************************)
LEMMA DestinationTyped ==
  ASSUME NEW V, disk \in Disks(V), DirectoryRead(ROOT_CLUSTER_NUMBER, Root).ret = 0,
         NEW folders, Len(folders) \in Nat
  PROVE  Destination(folders) \in Descents
<1> DEFINE n == Len(folders)
           f == CHOOSE g : g = DescentStep(g, folders)
<1>1. f = DescentStep(f, folders)
  BY DescentExists
<1>2. Destination(folders) = f[n]
  BY DEF Destination, DescentStep, Top
<1> HIDE DEF f
<1>3. \A k \in 0 .. n : f[k] = IF k = 0 THEN Top ELSE Descend(f[k - 1], folders[k])
  BY <1>1 DEF DescentStep
<1>4. Top \in Descents
  <2>1. AsTable(DirectoryRead(ROOT_CLUSTER_NUMBER, Root).data) \in Tables
    BY EmptyTyped, DirectoryReadTyped
  <2> QED
    BY <2>1, EmptyTyped DEF Top, Descents
<1> DEFINE S == {k \in 0 .. n : f[k] \in Descents}
<1>5. n \in Nat
  OBVIOUS
<1> HIDE DEF n
<1>6. 0 \in S
  BY <1>3, <1>4, <1>5
<1>7. ASSUME NEW k \in 0 .. n, k < n, k \in S
      PROVE  k + 1 \in S
  <2>1. k + 1 \in 0 .. n /\ k + 1 # 0 /\ k + 1 - 1 = k
    BY <1>5, <1>7
  <2>2. f[k + 1] = Descend(f[k], folders[k + 1])
    BY <2>1, <1>3
  <2>3. f[k] \in Descents
    BY <1>7
  <2>4. Descend(f[k], folders[k + 1]) \in Descents
    BY <2>3, DescendTyped
  <2> QED
    BY <2>1, <2>2, <2>4
<1>8. n \in S
  <2> HIDE DEF S
  <2>1. n \in 0 .. n
    BY <1>5
  <2> QED
    BY <1>5, <1>6, <1>7, <2>1, CountingUp
<1> QED
  BY <1>2, <1>8

-----------------------------------------------------------------------------
(* The image *)

\* An image in the making: what the tool has in memory is on its disk.
Imaged(state) ==
  /\ state.fat \in FATs /\ state.disk \in Disks(Versions)
  /\ state.disk[FAT_CLUSTER_NUMBER] = FATImage(state.fat)

LEMMA EmptyImaged == Imaged(Empty)
<1> DEFINE V == Versions
           blank == [c \in Clusters |-> Blank]
<1>1. create_fat32 \in Seq(Writes(V)) /\ \A d : FATArrives(d, create_fat32, FormattedFAT)
  BY FormattingArrives
<1>2. blank \in Disks(V)
  BY Held DEF Disks
<1> HIDE DEF blank
<1>3. /\ Written(blank, create_fat32) \in Disks(V)
      /\ Written(blank, create_fat32)[FAT_CLUSTER_NUMBER] = FATImage(FormattedFAT)
  BY <1>1, <1>2, WrittenTyped
<1>4. Empty.fat = FormattedFAT /\ Empty.disk = Written(blank, create_fat32)
  BY DEF Empty, FormattedDisk, blank
<1> QED
  BY <1>3, <1>4, FormattedTyped DEF Imaged

(***************************************************************************)
(* The tool puts one more file into the root directory.                    *)
(***************************************************************************)
LEMMA InsertImaged ==
  ASSUME NEW state, Imaged(state), NEW file \in Names \X FileSizes \X Versions,
         Cardinality(FreeClusters(state.fat)) >= ClusterNeed(file[2])
  PROVE  Imaged(InsertFile(state, file))
<1> DEFINE d == state.disk
           f == state.fat
           n == ClusterNeed(file[2])
           chain == Allocation(f, n)
           map == Linked(f, chain)
           entry == UsedEntry(file[1], chain[1], file[2])
           table == WithEntry(AsTable(d[ROOT_CLUSTER_NUMBER]), entry)
           part(c) == CHOOSE k \in 1 .. Len(chain) : chain[k] = c
           content(c) == CASE c = FAT_CLUSTER_NUMBER -> FATImage(map)
                           [] c = ROOT_CLUSTER_NUMBER -> Table(table)
                           [] c \in ToSet(chain) -> Data(file[3], part(c))
                           [] OTHER -> d[c]
           V == Versions
<1>1. d \in Disks(V) /\ f \in FATs
  BY DEF Imaged
<1>2. file[1] \in Names /\ file[2] \in FileSizes /\ file[3] \in V
  OBVIOUS
<1>3. /\ n \in Nat /\ n > 0 /\ n <= Cardinality(FreeClusters(f))
      /\ n <= CLUSTER_MAP_SIZE
  <2>1. file[2] \in Nat /\ file[2] > 0
    <3>1. PICK size \in FileSizes : size = file[2]
      BY <1>2
    <3>2. size \in Nat /\ size > 0
      BY SizesAssumption
    <3> QED
      BY <3>1, <3>2
  <2>2. n \in Nat /\ n > 0
    BY <2>1, NeedFacts
  <2>3. Cardinality(FreeClusters(f)) \in Nat /\ Cardinality(FreeClusters(f)) <= CLUSTER_MAP_SIZE
    BY FreeFacts, FreeBound
  <2>4. n <= Cardinality(FreeClusters(f))
    BY <2>2, <2>3
  <2> HIDE DEF n
  <2> QED
    BY <2>2, <2>3, <2>4, SizeFacts
<1> HIDE DEF n
<1>4. /\ chain \in Seq(Clusters) /\ Len(chain) = n
      /\ \A k \in 1 .. n : chain[k] \in FreeClusters(f)
  BY <1>3, AllocationFacts
<1>5. map \in FATs
  BY <1>1, <1>4, LinkedTyped
<1>6. table \in Tables
  <2>1. chain[1] \in OffFAT
    <3>1. chain[1] \in FreeClusters(f)
      BY <1>3, <1>4
    <3> QED
      BY <3>1, EmptyTyped
  <2>2. entry \in PointingOff
    <3>1. file[1] \in Called /\ file[2] \in Sizes
      BY <1>2 DEF Called, Sizes
    <3> HIDE DEF chain
    <3> QED
      BY <2>1, <3>1, EntryTyped
  <2>3. AsTable(d[ROOT_CLUSTER_NUMBER]) \in Tables
    <3>1. d[ROOT_CLUSTER_NUMBER] \in HeldContents(V)
      BY <1>1, EmptyTyped DEF Disks
    <3> QED
      BY <3>1, ReadsAs
  <2> HIDE DEF entry
  <2> QED
    BY <2>2, <2>3, TablesTyped
<1>7. ASSUME NEW c \in ToSet(chain)
      PROVE  part(c) \in 1 .. CLUSTER_MAP_SIZE /\ c # FAT_CLUSTER_NUMBER
  <2>1. \E k \in 1 .. Len(chain) : chain[k] = c
    <3> HIDE DEF chain
    <3> QED
      BY <1>4 DEF ToSet
  <2>2. part(c) \in 1 .. Len(chain)
    BY <2>1
  <2>3. c # FAT_CLUSTER_NUMBER
    <3> HIDE DEF chain
    <3>1. c \in FreeClusters(f)
      BY <2>1, <1>4
    <3> QED
      BY <3>1, EmptyTyped
  <2> HIDE DEF part
  <2> QED
    BY <2>2, <2>3, <1>3, <1>4, SizeFacts
<1>8. InsertFile(state, file) = [fat |-> map, disk |-> [c \in Clusters |-> content(c)]]
  BY Zenon DEF InsertFile, n
<1> HIDE DEF chain, map, table
<1>9. ASSUME NEW c \in Clusters
      PROVE  content(c) \in HeldContents(V)
  <2>1. FATImage(map) \in HeldContents(V) /\ Table(table) \in HeldContents(V)
    BY <1>5, <1>6, Held
  <2>2. c \in ToSet(chain) => Data(file[3], part(c)) \in HeldContents(V)
    <3> HIDE DEF part
    <3> QED
      BY <1>2, <1>7, Held
  <2>3. d[c] \in HeldContents(V)
    BY <1>1 DEF Disks
  <2> HIDE DEF part
  <2> QED
    BY <2>1, <2>2, <2>3
<1>10. content(FAT_CLUSTER_NUMBER) = FATImage(map)
  <2>1. FAT_CLUSTER_NUMBER # ROOT_CLUSTER_NUMBER /\ FAT_CLUSTER_NUMBER \notin ToSet(chain)
    BY <1>7 DEF FAT_CLUSTER_NUMBER, ROOT_CLUSTER_NUMBER
  <2> HIDE DEF part
  <2> QED
    BY <2>1
<1> HIDE DEF content
<1>11. [c \in Clusters |-> content(c)] \in Disks(V)
  BY <1>9 DEF Disks
<1>12. [c \in Clusters |-> content(c)][FAT_CLUSTER_NUMBER] = FATImage(map)
  BY <1>10, EmptyTyped
<1>13. PICK e : e = [c \in Clusters |-> content(c)]
  OBVIOUS
<1>14. InsertFile(state, file).fat = map /\ InsertFile(state, file).disk = e
  BY <1>8, <1>13
<1> QED
  BY <1>5, <1>11, <1>12, <1>13, <1>14 DEF Imaged

LEMMA ImageImaged == Imaged(Image)
<1> DEFINE n == Len(Inserted)
<1>0. n \in Nat /\ \A k \in 1 .. n : Inserted[k] \in Names \X FileSizes \X Versions
  BY InsertedAssumption
<1>1. Images = ImageStep(Images)
  BY <1>0, ImagesExist DEF Images, ImageStep, Empty
<1>2. \A k \in 0 .. n : Images[k] = IF k = 0 THEN Empty ELSE InsertFile(Images[k - 1], Inserted[k])
  BY <1>1 DEF ImageStep
<1> DEFINE S == {k \in 0 .. n : Imaged(Images[k])}
<1> HIDE DEF n
<1>3. 0 \in S
  BY <1>0, <1>2, EmptyImaged
<1>4. ASSUME NEW k \in 0 .. n, k < n, k \in S
      PROVE  k + 1 \in S
  <2>1. k + 1 \in 0 .. n /\ k + 1 # 0 /\ k + 1 - 1 = k /\ k + 1 \in 1 .. n
    BY <1>0, <1>4
  <2>2. Images[k + 1] = InsertFile(Images[k], Inserted[k + 1])
    BY <2>1, <1>2
  <2>3. Imaged(Images[k])
    BY <1>4
  <2>4. Cardinality(FreeClusters(Images[k].fat)) >= ClusterNeed(Inserted[k + 1][2])
    BY <2>1, ImageAssumption DEF n
  <2>5. Inserted[k + 1] \in Names \X FileSizes \X Versions
    BY <2>1, <1>0
  <2>6. Imaged(InsertFile(Images[k], Inserted[k + 1]))
    BY <2>3, <2>4, <2>5, InsertImaged
  <2> QED
    BY <2>1, <2>2, <2>6
<1>5. n \in S
  <2> HIDE DEF S
  <2>1. n \in 0 .. n
    BY <1>0
  <2> QED
    BY <1>0, <1>3, <1>4, <2>1, CountingUp
<1> QED
  BY <1>5 DEF Image, n

-----------------------------------------------------------------------------
(* The invariant *)

\* As long as the session is sensible, memory and disk are in step.
ShellInv ==
  /\ CursorInv
  /\ steady \in BOOLEAN
  /\ ~steady \/ \E V : InStep(V)

(***************************************************************************)
(* The numbers the changing commands use are clusters of directories.      *)
(***************************************************************************)
LEMMA CursorFacts ==
  ASSUME CursorInv
  PROVE  /\ CURRENT_DIR_CLUSTER_NUMBER \in OffFAT
         /\ CURRENT_DIR_PARENT_CLUSTER_NUMBER \in OffFAT
         /\ DEPTH = 0 => CurrentDirectory = DirectoryRead(ROOT_CLUSTER_NUMBER, Root)
<1>1. DEPTH \in Nat
  BY DepthAssumption DEF CursorInv, Depths
<1> DEFINE above == IF DEPTH = 0 THEN 0 ELSE DEPTH - 1
<1>2. above \in 0 .. DEPTH /\ DEPTH \in 0 .. DEPTH
  BY <1>1
<1>3. /\ CURRENT_DIR_CLUSTER_NUMBER = DIR_CLUSTERS[DEPTH]
      /\ CURRENT_DIR_PARENT_CLUSTER_NUMBER = DIR_CLUSTERS[above]
  BY DEF CursorInv, CursorConsistent
<1>4. DEPTH = 0 => above = 0
  OBVIOUS
<1> HIDE DEF above
<1>5. DIR_CLUSTERS[DEPTH] \in OffFAT /\ DIR_CLUSTERS[above] \in OffFAT
  BY <1>2 DEF CursorInv, Placed
<1>6. ASSUME DEPTH = 0
      PROVE  CurrentDirectory = DirectoryRead(ROOT_CLUSTER_NUMBER, Root)
  <2>1. CURRENT_DIR_PARENT_CLUSTER_NUMBER = ROOT_CLUSTER_NUMBER /\ DIR_PATH[DEPTH] = Root
    BY <1>3, <1>4, <1>6 DEF CursorInv
  <2> QED
    BY <2>1, Zenon DEF CurrentDirectory
<1> QED
  BY <1>3, <1>5, <1>6

LEMMA SettledNow ==
  ASSUME ShellInv, Ready, steady
  PROVE  \E V : Settled(V)
<1>1. PICK V : InStep(V)
  BY DEF ShellInv
<1>2. Settled(V)
  BY <1>1, ReadySettled DEF Ready
<1> QED
  BY <1>2

LEMMA CurrentTyped ==
  ASSUME NEW V, Settled(V), CursorInv, CurrentDirectory.ret = 0
  PROVE  AsTable(CurrentDirectory.data) \in Tables
<1>1. CURRENT_DIR_PARENT_CLUSTER_NUMBER \in Clusters
  BY CursorFacts, EmptyTyped
<1>2. disk \in Disks(V)
  BY DEF Settled
<1>3. DirectoryRead(CURRENT_DIR_PARENT_CLUSTER_NUMBER, DIR_PATH[DEPTH]).ret = 0
  BY DEF CurrentDirectory
<1>4. AsTable(DirectoryRead(CURRENT_DIR_PARENT_CLUSTER_NUMBER, DIR_PATH[DEPTH]).data) \in Tables
  BY <1>1, <1>2, <1>3, DirectoryReadTyped
<1> QED
  BY <1>4, Zenon DEF CurrentDirectory

(***************************************************************************)
(* A command that does not move the user, and whose effect is mirrored if  *)
(* it is a sensible one, keeps the invariant.                              *)
(***************************************************************************)
LEMMA CursorStays ==
  ASSUME CursorInv, UNCHANGED place
  PROVE  CursorInv'
BY DEF place, CursorInv, CursorConsistent, Placed

LEMMA ChangeKeeps ==
  ASSUME ShellInv, NEW outcome, NEW e, NEW sensible \in BOOLEAN,
         Change(outcome, e, sensible),
         sensible => \E V : Mirrored(e, V) /\ Settled(V)
  PROVE  ShellInv'
<1>1. /\ fat' = e.fat /\ pending' = e.writes /\ disk' = disk /\ steady' = sensible
      /\ UNCHANGED place
  BY DEF Change
<1>2. CursorInv'
  BY <1>1, CursorStays DEF ShellInv
<1>3. ASSUME sensible
      PROVE  (\E V : InStep(V))'
  <2>1. PICK V : Mirrored(e, V) /\ Settled(V)
    BY <1>3
  <2>2. disk \in Disks(V)
    BY <2>1 DEF Settled
  <2>3. InStep(V)'
    BY <1>1, <2>1, <2>2, MirroredKeeps
  <2> QED
    BY <2>3
<1>4. steady' \in BOOLEAN /\ (~steady' \/ sensible)
  BY <1>1
<1> QED
  BY <1>2, <1>3, <1>4 DEF ShellInv

LEMMA TellKeeps ==
  ASSUME ShellInv, NEW outcome, Tell(outcome), CursorInv'
  PROVE  ShellInv'
<1>1. UNCHANGED <<disk, fat, pending, power, result>> /\ steady' = steady
  BY DEF Tell, vars
<1>2. ASSUME NEW V, InStep(V)
      PROVE  InStep(V)'
  BY <1>1, <1>2 DEF InStep, FATArrives
<1> QED
  BY <1>1, <1>2 DEF ShellInv

-----------------------------------------------------------------------------
(* The commands that move the user *)

(***************************************************************************)
(* cd .. clears the slot that is left and takes the numbers from those     *)
(* above it.                                                               *)
(***************************************************************************)
LEMMA UpInv == ShellInv /\ cdUp => ShellInv'
<1> SUFFICES ASSUME ShellInv, cdUp
             PROVE  ShellInv'
  OBVIOUS
<1>1. CursorInv
  BY DEF ShellInv
<1>2. CASE DEPTH > 0
  <2>1. /\ DIR_CLUSTERS' = Forget(DEPTH)
        /\ CURRENT_DIR_PARENT_CLUSTER_NUMBER' = ParentAfterLeaving(DEPTH)
        /\ CURRENT_DIR_CLUSTER_NUMBER' = DIR_CLUSTERS[DEPTH - 1]
        /\ DEPTH' = DEPTH - 1
        /\ DIR_PATH' = DIR_PATH
    BY <1>2 DEF cdUp
  <2>2. /\ DEPTH \in Nat /\ MaxDepth \in Nat /\ DEPTH \in Depths /\ DEPTH - 1 \in Depths
        /\ DEPTH - 1 \in Nat /\ DEPTH - 1 \in 0 .. DEPTH - 1
        /\ \A i \in 0 .. DEPTH - 1 : i \in Depths /\ i \in 0 .. DEPTH /\ i # DEPTH
    BY <1>1, <1>2, DepthAssumption DEF CursorInv, Depths
  <2>3. PICK c : c = Forget(DEPTH)
    OBVIOUS
  <2>4. c \in [Depths -> Slots] /\ \A i \in 0 .. DEPTH - 1 : c[i] = DIR_CLUSTERS[i]
    <3>1. DIR_CLUSTERS \in [Depths -> Slots]
      BY <1>1 DEF CursorInv
    <3>2. -1 \in Slots
      BY DEF Slots
    <3> HIDE DEF Slots
    <3> QED
      BY <2>2, <2>3, <3>1, <3>2 DEF Forget
  <2>5. 0 \in 0 .. DEPTH - 1
    BY <2>2
  <2>6. Placed(DIR_PATH, c, DEPTH - 1)
    BY <1>1, <2>2, <2>4 DEF CursorInv, Placed
  <2>7. Placed(DIR_PATH', DIR_CLUSTERS', DEPTH')
    BY <2>1, <2>3, <2>6
  <2>8. CursorConsistent'
    <3>1. CURRENT_DIR_CLUSTER_NUMBER' = DIR_CLUSTERS'[DEPTH']
      BY <2>1, <2>2, <2>3, <2>4
    <3>2. CASE DEPTH = 1
      <4>1. ParentAfterLeaving(DEPTH) = DIR_CLUSTERS[0] /\ DEPTH' = 0
        BY <2>1, <3>2 DEF ParentAfterLeaving
      <4>2. CURRENT_DIR_PARENT_CLUSTER_NUMBER' = DIR_CLUSTERS'[0]
        BY <2>1, <2>3, <2>4, <2>5, <4>1
      <4> QED
        BY <3>1, <4>1, <4>2 DEF CursorConsistent
    <3>3. CASE DEPTH # 1
      <4>1. /\ DEPTH >= 2 /\ DEPTH - 2 \in 0 .. DEPTH - 1
            /\ DEPTH' # 0 /\ DEPTH' - 1 = DEPTH - 2
        BY <1>2, <2>1, <2>2, <3>3
      <4>2. ParentAfterLeaving(DEPTH) = DIR_CLUSTERS[DEPTH - 2]
        BY <4>1 DEF ParentAfterLeaving
      <4>3. CURRENT_DIR_PARENT_CLUSTER_NUMBER' = DIR_CLUSTERS'[DEPTH' - 1]
        BY <2>1, <2>3, <2>4, <4>1, <4>2
      <4> QED
        BY <3>1, <4>1, <4>3 DEF CursorConsistent
    <3> QED
      BY <3>2, <3>3
  <2>9. DIR_PATH'[0] = Root /\ DIR_CLUSTERS'[0] = ROOT_CLUSTER_NUMBER
    BY <1>1, <2>1, <2>3, <2>4, <2>5 DEF CursorInv
  <2>10. DEPTH' \in Depths /\ DIR_PATH' \in [Depths -> DirNames] /\ DIR_CLUSTERS' \in [Depths -> Slots]
    BY <1>1, <2>1, <2>2, <2>3, <2>4 DEF CursorInv
  <2>11. CursorInv'
    BY <2>7, <2>8, <2>9, <2>10 DEF CursorInv, Depths, DirNames, Slots, OffFAT
  <2> QED
    BY <2>11, TellKeeps DEF cdUp
<1>3. CASE ~(DEPTH > 0)
  <2>1. UNCHANGED place
    BY <1>3 DEF cdUp
  <2>2. CursorInv'
    BY <1>1, <2>1, CursorStays
  <2> QED
    BY <2>2, TellKeeps DEF cdUp
<1> QED
  BY <1>2, <1>3

(***************************************************************************)
(* cd: the arrays are filled as it goes, the depth and the numbers are set *)
(* at the end, and only if every component is a folder.                    *)
(***************************************************************************)
LEMMA CdInv ==
  ASSUME ShellInv, Ready, steady, NEW path \in Paths, cd(path)
  PROVE  ShellInv'
<1>1. PICK V : Settled(V)
  BY SettledNow
<1>2. CursorInv /\ disk \in Disks(V)
  BY <1>1 DEF ShellInv, Settled
<1>3. PICK n \in Nat : n = Len(path)
  BY PathsAssumption
<1>4. path \in Seq(Names) /\ n > 0
  BY PathsAssumption, <1>3, EmptySeq
<1>5. PICK w : w = Walk(path)
  OBVIOUS
<1>6. DEPTH + n <= MaxDepth
  BY <1>3 DEF cd
<1>7. OnTheWay(w, n)
  BY <1>2, <1>3, <1>4, <1>5, <1>6, WalkOnTheWay
<1>8. /\ DIR_PATH' = w.path /\ DIR_CLUSTERS' = w.clusters
      /\ IF w.ok
         THEN /\ DEPTH' = w.depth
              /\ CURRENT_DIR_PARENT_CLUSTER_NUMBER' = w.clusters[w.depth - 1]
              /\ CURRENT_DIR_CLUSTER_NUMBER' = w.clusters[w.depth]
         ELSE UNCHANGED <<DEPTH, CURRENT_DIR_PARENT_CLUSTER_NUMBER,
                          CURRENT_DIR_CLUSTER_NUMBER>>
      /\ \E outcome : Tell(outcome)
  BY <1>5, Zenon DEF cd
<1>9. DEPTH \in Nat /\ MaxDepth \in Nat /\ 0 \in 0 .. DEPTH /\ DEPTH \in 0 .. DEPTH
  BY <1>2, DepthAssumption DEF CursorInv, Depths
<1>10. w.path \in [Depths -> DirNames] /\ w.clusters \in [Depths -> Slots]
  BY <1>7 DEF OnTheWay, Walks
<1>11. \A i \in 0 .. DEPTH : w.path[i] = DIR_PATH[i] /\ w.clusters[i] = DIR_CLUSTERS[i]
  BY <1>7 DEF OnTheWay
<1>12. w.path[0] = Root /\ w.clusters[0] = ROOT_CLUSTER_NUMBER
  BY <1>2, <1>9, <1>11 DEF CursorInv
<1>13. CASE w.ok
  <2>1. w.depth = DEPTH + n /\ Placed(w.path, w.clusters, w.depth)
    BY <1>7, <1>13 DEF OnTheWay
  <2>2. w.depth \in Depths /\ w.depth # 0
    BY <1>4, <1>6, <1>9, <2>1 DEF Depths
  <2>3. /\ DEPTH' = w.depth
        /\ CURRENT_DIR_PARENT_CLUSTER_NUMBER' = w.clusters[w.depth - 1]
        /\ CURRENT_DIR_CLUSTER_NUMBER' = w.clusters[w.depth]
    BY <1>8, <1>13
  <2>4. CursorConsistent'
    BY <1>8, <2>2, <2>3 DEF CursorConsistent
  <2>5. Placed(DIR_PATH', DIR_CLUSTERS', DEPTH')
    BY <1>8, <2>1, <2>3
  <2> QED
    BY <1>8, <1>10, <1>12, <2>2, <2>3, <2>4, <2>5, TellKeeps DEF CursorInv, Depths, DirNames, Slots, OffFAT
<1>14. CASE ~w.ok
  <2>1. /\ DEPTH' = DEPTH
        /\ CURRENT_DIR_PARENT_CLUSTER_NUMBER' = CURRENT_DIR_PARENT_CLUSTER_NUMBER
        /\ CURRENT_DIR_CLUSTER_NUMBER' = CURRENT_DIR_CLUSTER_NUMBER
    BY <1>8, <1>14
  <2> DEFINE above == IF DEPTH = 0 THEN 0 ELSE DEPTH - 1
  <2>2. above \in 0 .. DEPTH
    BY <1>9
  <2>3. CursorConsistent'
    <3>1. /\ CURRENT_DIR_CLUSTER_NUMBER = DIR_CLUSTERS[DEPTH]
          /\ CURRENT_DIR_PARENT_CLUSTER_NUMBER = DIR_CLUSTERS[above]
      BY <1>2 DEF CursorInv, CursorConsistent
    <3>2. /\ CURRENT_DIR_CLUSTER_NUMBER = w.clusters[DEPTH]
          /\ CURRENT_DIR_PARENT_CLUSTER_NUMBER = w.clusters[above]
      <4> HIDE DEF above
      <4> QED
        BY <1>9, <1>11, <2>2, <3>1
    <3> QED
      BY <1>8, <2>1, <3>2 DEF CursorConsistent
  <2>4. Placed(w.path, w.clusters, DEPTH)
    BY <1>2, <1>11 DEF CursorInv, Placed
  <2>5. Placed(DIR_PATH', DIR_CLUSTERS', DEPTH')
    BY <1>8, <2>1, <2>4
  <2>6. DEPTH' \in Depths
    BY <1>2, <2>1 DEF CursorInv
  <2> QED
    BY <1>8, <1>10, <1>12, <2>3, <2>5, <2>6, TellKeeps DEF CursorInv, Depths, DirNames, Slots, OffFAT
<1> QED
  BY <1>13, <1>14

-----------------------------------------------------------------------------
(* The commands that change the disk *)

(***************************************************************************)
(* mkdir.                                                                  *)
(***************************************************************************)
LEMMA MkdirInv ==
  ASSUME ShellInv, Ready, steady, NEW name \in Names, mkdir(name)
  PROVE  ShellInv'
<1> DEFINE sensible == Fresh(name, CURRENT_DIR_CLUSTER_NUMBER) /\ HasRoom(CURRENT_DIR_CLUSTER_NUMBER)
           effect == IF CurrentDirectory.ret # 0 THEN Refused(-1)
                     ELSE FolderWritten(CURRENT_DIR_CLUSTER_NUMBER, name)
<1>1. PICK V : Settled(V)
  BY SettledNow
<1>2. Cardinality(FreeClusters(fat)) >= 1
  <2>1. FreeClusters(fat) # {}
    BY DEF mkdir
  <2>2. Cardinality(FreeClusters(fat)) # 0 /\ Cardinality(FreeClusters(fat)) \in Nat
    BY <2>1, FreeFacts, FS_EmptySet
  <2> QED
    BY <2>2
<1>3. CURRENT_DIR_CLUSTER_NUMBER \in OffFAT
  BY CursorFacts DEF ShellInv
<1>4. Mirrored(FolderWritten(CURRENT_DIR_CLUSTER_NUMBER, name), V)
  BY <1>1, <1>2, <1>3, FolderMirrored DEF Called
<1>5. Mirrored(effect, V)
  BY <1>1, <1>4, RefusedMirrored
<1>6. \E outcome : Change(outcome, effect, sensible)
  BY Zenon DEF mkdir
<1>7. sensible \in BOOLEAN
  OBVIOUS
<1> HIDE DEF effect, sensible
<1> QED
  BY <1>1, <1>5, <1>6, <1>7, ChangeKeeps

(***************************************************************************)
(* rm, a sensible one or not: the delete call writes the FAT it leaves.    *)
(***************************************************************************)
LEMMA RmInv ==
  ASSUME ShellInv, Ready, steady, NEW name, rm(name)
  PROVE  ShellInv'
<1> DEFINE sensible == DEPTH = 0 /\ name # Root /\ ~Populated(Entry(name))
           effect == IF CurrentDirectory.ret # 0 THEN Refused(-1)
                     ELSE IF Matches(AsTable(CurrentDirectory.data), name) = {} THEN Refused(1)
                     ELSE Deleted(CURRENT_DIR_PARENT_CLUSTER_NUMBER, name)
<1>1. PICK V : Settled(V)
  BY SettledNow
<1>2. CURRENT_DIR_PARENT_CLUSTER_NUMBER \in OffFAT
  BY CursorFacts DEF ShellInv
<1>3. Mirrored(Deleted(CURRENT_DIR_PARENT_CLUSTER_NUMBER, name), V)
  BY <1>1, <1>2, DeletedMirrored
<1>4. Mirrored(effect, V)
  BY <1>1, <1>3, RefusedMirrored
<1>5. \E outcome : Change(outcome, effect, sensible)
  BY Zenon DEF rm
<1>6. sensible \in BOOLEAN
  OBVIOUS
<1> HIDE DEF effect, sensible
<1> QED
  BY <1>1, <1>4, <1>5, <1>6, ChangeKeeps

(***************************************************************************)
(* A call of write that does not succeed is refused: it has no effect.     *)
(***************************************************************************)
LEMMA WrittenOrRefused ==
  ASSUME NEW parent, NEW name, NEW size, NEW version
  PROVE  /\ FolderWritten(parent, name).ret # 0 => \E ret : FolderWritten(parent, name) = Refused(ret)
         /\ FileWritten(parent, name, size, version).ret # 0 =>
              \E ret : FileWritten(parent, name, size, version) = Refused(ret)
<1>1. \A map, writes : Effect(0, map, writes).ret = 0
  BY DEF Effect
<1>2. \/ FolderWritten(parent, name) = Refused(2)
      \/ \E map, writes : FolderWritten(parent, name) = Effect(0, map, writes)
  BY Zenon DEF FolderWritten
<1>3. \/ FileWritten(parent, name, size, version) = Refused(2)
      \/ FileWritten(parent, name, size, version) = Refused(-1)
      \/ \E map, writes : FileWritten(parent, name, size, version) = Effect(0, map, writes)
  <2>1. CASE fat[parent] = FAT32_FAT_EMPTY_ENTRY
    BY <2>1 DEF FileWritten
  <2>2. CASE fat[parent] # FAT32_FAT_EMPTY_ENTRY /\ UnusedPositions(AsTable(disk[parent])) = {}
    BY <2>2 DEF FileWritten
  <2>3. CASE fat[parent] # FAT32_FAT_EMPTY_ENTRY /\ UnusedPositions(AsTable(disk[parent])) # {}
    BY <2>3, Zenon DEF FileWritten
  <2> QED
    BY <2>1, <2>2, <2>3
<1> QED
  BY <1>1, <1>2, <1>3, Zenon

(***************************************************************************)
(* A file that can be read has a size.                                     *)
(***************************************************************************)
LEMMA ReadHasSize ==
  ASSUME NEW V, Settled(V), NEW parent \in Clusters, NEW name, NEW buffer_size,
         FileRead(parent, name, buffer_size).ret = 0
  PROVE  FileSizes # {}
<1> DEFINE table == AsTable(disk[parent])
           found == Matches(table, name)
           entry == table[Min(found)]
<1>1. table \in Tables
  BY ReadsAs DEF Settled, Disks
<1>2. found # {}
  BY DEF FileRead
<1>3. entry.filesize # 0
  BY <1>2 DEF FileRead
<1>4. entry \in Entries
  <2> HIDE DEF table
  <2> QED
    BY <1>1, <1>2, LookupFacts
<1> QED
  BY <1>3, <1>4 DEF Entries

(***************************************************************************)
(* cp: what the call of write that it makes has for an effect, when it     *)
(* succeeds only for the name that was given.                              *)
(***************************************************************************)
LEMMA CopyMirrored ==
  ASSUME NEW V, Settled(V), CursorInv, NEW source, NEW dest \in Names, NEW d,
         \A size \in FileSizes : Cardinality(FreeClusters(fat)) >= ClusterNeed(size),
         CopyEffect(source, d).ret = 0 => d = dest
  PROVE  \E W : Mirrored(CopyEffect(source, d), W) /\ Settled(W)
<1> DEFINE table == AsTable(CurrentDirectory.data)
           found == Matches(table, source)
           size == table[Min(found)].filesize
           file == FileRead(CURRENT_DIR_PARENT_CLUSTER_NUMBER, source,
                            CLUSTER_SIZE * ClusterNeed(size))
           version == file.data[1].version
           W == V \cup {version}
           folder == FolderWritten(CURRENT_DIR_CLUSTER_NUMBER, d)
           copy == FileWritten(CURRENT_DIR_CLUSTER_NUMBER, d, size, version)
           refused == \E ret : CopyEffect(source, d) = Refused(ret)
<1>1. CopyEffect(source, d)
        = IF CurrentDirectory.ret # 0 THEN Refused(-1)
          ELSE IF found = {} THEN Refused(1)
          ELSE IF file.ret # 0 THEN Refused(file.ret)
          ELSE IF size = 0 THEN folder ELSE copy
  BY Zenon DEF CopyEffect
<1>2. /\ CURRENT_DIR_CLUSTER_NUMBER \in OffFAT
      /\ CURRENT_DIR_PARENT_CLUSTER_NUMBER \in Clusters
  BY CursorFacts, EmptyTyped
<1>3. CurrentDirectory.ret = 0 /\ found # {} => size \in Sizes
  <2> SUFFICES ASSUME CurrentDirectory.ret = 0, found # {}
               PROVE  size \in Sizes
    OBVIOUS
  <2>1. table \in Tables
    BY CurrentTyped
  <2>2. table[Min(found)] \in Entries
    <3> HIDE DEF table
    <3> QED
      BY <2>1, LookupFacts
  <2> HIDE DEF found, table
  <2> QED
    BY <2>2 DEF Entries, Sizes
<1>4. file.ret = 0 => FileSizes # {}
  BY <1>2, ReadHasSize
<1>5. Settled(W)
  BY MoreVersions
<1>6. version \in W
  OBVIOUS
<1>7. \/ refused
      \/ CurrentDirectory.ret = 0 /\ found # {} /\ file.ret = 0 /\ size = 0 /\ CopyEffect(source, d) = folder
      \/ CurrentDirectory.ret = 0 /\ found # {} /\ file.ret = 0 /\ size # 0 /\ CopyEffect(source, d) = copy
  <2> HIDE DEF file, found, size, folder, copy
  <2> QED
    BY <1>1, Zenon
<1> HIDE DEF version, W
<1>8. refused \/ d = dest
  <2>1. folder.ret # 0 => \E ret : folder = Refused(ret)
    BY WrittenOrRefused
  <2>2. copy.ret # 0 => \E ret : copy = Refused(ret)
    BY WrittenOrRefused
  <2> HIDE DEF file, found, size, folder, copy
  <2> QED
    BY <1>7, <2>1, <2>2, Zenon
<1>9. CASE refused
  BY <1>5, <1>9, RefusedMirrored
<1>10. CASE d = dest /\ file.ret = 0 /\ CopyEffect(source, d) = folder
  <2>1. Cardinality(FreeClusters(fat)) >= 1
    <3>1. PICK s \in FileSizes : Cardinality(FreeClusters(fat)) >= ClusterNeed(s)
      <4> HIDE DEF file
      <4> QED
        BY <1>4, <1>10
    <3>2. s \in Nat /\ s > 0
      BY SizesAssumption
    <3>3. ClusterNeed(s) \in Nat /\ ClusterNeed(s) > 0
      BY <3>2, NeedFacts
    <3>4. Cardinality(FreeClusters(fat)) \in Nat
      BY FreeFacts
    <3> QED
      BY <3>1, <3>3, <3>4
  <2>2. d \in Called
    BY <1>10 DEF Called
  <2>3. Mirrored(folder, W)
    BY <1>2, <1>5, <2>1, <2>2, FolderMirrored
  <2> HIDE DEF file, folder
  <2> QED
    BY <1>5, <1>10, <2>3
<1>11. CASE /\ d = dest /\ CurrentDirectory.ret = 0 /\ found # {} /\ size # 0
            /\ CopyEffect(source, d) = copy
  <2>1. size \in FileSizes
    <3> HIDE DEF size, found, copy
    <3> QED
      BY <1>3, <1>11 DEF Sizes
  <2>2. d \in Called
    BY <1>11 DEF Called
  <2>3. Mirrored(copy, W)
    <3>1. PICK s \in FileSizes : s = size
      BY <2>1
    <3>2. Cardinality(FreeClusters(fat)) >= ClusterNeed(s)
      OBVIOUS
    <3> HIDE DEF size
    <3>3. Mirrored(FileWritten(CURRENT_DIR_CLUSTER_NUMBER, d, s, version), W)
      BY <1>2, <1>5, <1>6, <2>2, <3>2, FileMirrored
    <3> QED
      BY <3>1, <3>3
  <2> HIDE DEF size, found, copy
  <2> QED
    BY <1>5, <1>11, <2>3
<1> HIDE DEF file, found, size, folder, copy, refused
<1> QED
  BY <1>7, <1>8, <1>9, <1>10, <1>11

LEMMA CpInv ==
  ASSUME ShellInv, Ready, steady, NEW source \in Names, NEW dest \in Names, cp(source, dest)
  PROVE  ShellInv'
<1>1. PICK V : Settled(V)
  BY SettledNow
<1>2. PICK s, d, effect :
        /\ effect = CopyEffect(s, d)
        /\ \E outcome : Change(outcome, effect, /\ DEPTH = 0
                                                /\ Fresh(dest, CURRENT_DIR_CLUSTER_NUMBER)
                                                /\ NoOther(s, source, CURRENT_DIR_CLUSTER_NUMBER)
                                                /\ effect.ret = 0 => d = dest)
  BY Zenon DEF cp
<1> DEFINE sensible == /\ DEPTH = 0
                       /\ Fresh(dest, CURRENT_DIR_CLUSTER_NUMBER)
                       /\ NoOther(s, source, CURRENT_DIR_CLUSTER_NUMBER)
                       /\ effect.ret = 0 => d = dest
<1>3. ASSUME sensible
      PROVE  \E W : Mirrored(effect, W) /\ Settled(W)
  <2>1. \A size \in FileSizes : Cardinality(FreeClusters(fat)) >= ClusterNeed(size)
    BY DEF cp
  <2>2. CopyEffect(s, d).ret = 0 => d = dest
    BY <1>2, <1>3
  <2>3. CursorInv
    BY DEF ShellInv
  <2>4. \E W : Mirrored(CopyEffect(s, d), W) /\ Settled(W)
    BY <1>1, <2>1, <2>2, <2>3, CopyMirrored
  <2> QED
    BY <1>2, <2>4
<1>4. \E outcome : Change(outcome, effect, sensible)
  BY <1>2
<1>5. sensible \in BOOLEAN
  OBVIOUS
<1> HIDE DEF sensible
<1> QED
  BY <1>3, <1>4, <1>5, ChangeKeeps

(***************************************************************************)
(* System call 14 writes tables to clusters of directories, and never the  *)
(* FAT.                                                                    *)
(***************************************************************************)
LEMMA TablesMirrored ==
  ASSUME NEW V, Settled(V)
  PROVE  /\ Mirrored(WriteTables(<<>>), V)
         /\ \A c \in OffFAT, t \in Tables : Mirrored(WriteTables(<<write_cluster(c, Table(t))>>), V)
         /\ \A c, d \in OffFAT, t, u \in Tables :
              Mirrored(WriteTables(<<write_cluster(c, Table(t)), write_cluster(d, Table(u))>>), V)
<1>1. ASSUME NEW writes \in Seq(Writes(V)), \A k \in 1 .. Len(writes) : writes[k].cluster # FAT_CLUSTER_NUMBER
      PROVE  Mirrored(WriteTables(writes), V)
  <2>1. WriteTables(writes).fat = fat /\ WriteTables(writes).writes = writes
    BY DEF WriteTables, Effect
  <2>2. FATArrives(disk, writes, fat)
    BY <1>1, Zenon DEF FATArrives, Settled
  <2> QED
    BY <2>1, <2>2 DEF Mirrored, Settled
<1>2. ASSUME NEW c \in OffFAT, NEW t \in Tables
      PROVE  write_cluster(c, Table(t)) \in Writes(V)
             /\ write_cluster(c, Table(t)).cluster # FAT_CLUSTER_NUMBER
  BY Held, WriteTyped, EmptyTyped, ZenonT(60)
<1>3. Mirrored(WriteTables(<<>>), V)
  <2>1. <<>> \in Seq(Writes(V)) /\ 1 .. Len(<<>>) = {}
    OBVIOUS
  <2> QED
    BY <1>1, <2>1, Zenon
<1>4. ASSUME NEW x \in Writes(V), x.cluster # FAT_CLUSTER_NUMBER
      PROVE  Mirrored(WriteTables(<<x>>), V)
  <2>1. <<x>> \in Seq(Writes(V)) /\ \A k \in 1 .. Len(<<x>>) : <<x>>[k].cluster # FAT_CLUSTER_NUMBER
    BY <1>4
  <2> QED
    BY <1>1, <2>1
<1>5. ASSUME NEW x \in Writes(V), NEW y \in Writes(V),
             x.cluster # FAT_CLUSTER_NUMBER, y.cluster # FAT_CLUSTER_NUMBER
      PROVE  Mirrored(WriteTables(<<x, y>>), V)
  <2>1. <<x, y>> \in Seq(Writes(V))
        /\ \A k \in 1 .. Len(<<x, y>>) : <<x, y>>[k].cluster # FAT_CLUSTER_NUMBER
    BY <1>5
  <2> QED
    BY <1>1, <2>1
<1> QED
  BY <1>2, <1>3, <1>4, <1>5

LEMMA RenameInv ==
  ASSUME ShellInv, Ready, steady, NEW source, NEW dest \in Names, mvRename(source, dest)
  PROVE  ShellInv'
<1>1. PICK V : Settled(V)
  BY SettledNow
<1>2. PICK s, garbage :
        \E outcome : Change(outcome, RenameEffect(s, dest, garbage),
                            /\ DEPTH = 0 /\ source # Root
                            /\ Fresh(dest, CURRENT_DIR_CLUSTER_NUMBER)
                            /\ NoOther(s, source, CURRENT_DIR_CLUSTER_NUMBER))
  BY Zenon DEF mvRename
<1> DEFINE sensible == /\ DEPTH = 0 /\ source # Root
                       /\ Fresh(dest, CURRENT_DIR_CLUSTER_NUMBER)
                       /\ NoOther(s, source, CURRENT_DIR_CLUSTER_NUMBER)
           table == AsTable(CurrentDirectory.data)
           found == Matches(table, s)
           renamed == [table EXCEPT ![Min(found)].name = dest]
           write == WriteTables(<<write_cluster(CURRENT_DIR_PARENT_CLUSTER_NUMBER, Table(renamed))>>)
<1>3. RenameEffect(s, dest, garbage)
        = IF CurrentDirectory.ret # 0 \/ garbage # 0 THEN Refused(-1)
          ELSE IF found = {} THEN Refused(1) ELSE write
  BY Zenon DEF RenameEffect
<1>4. Mirrored(Refused(-1), V) /\ Mirrored(Refused(1), V)
  BY <1>1, RefusedMirrored
<1>5. ASSUME CurrentDirectory.ret = 0, found # {}
      PROVE  Mirrored(write, V)
  <2>1. renamed \in Tables
    <3> DEFINE j == Min(found)
    <3>1. table \in Tables
      BY <1>1, <1>5, CurrentTyped DEF ShellInv
    <3> HIDE DEF table
    <3>2. j \in Positions
      BY <3>1, <1>5, LookupFacts
    <3> HIDE DEF j
    <3>3. table \in [Positions -> PointingOff] /\ table[j] \in Entries /\ table[j].cluster \in OffFAT
      BY <3>1, <3>2 DEF Tables, PointingOff
    <3>4. PICK e : e = [table[j] EXCEPT !.name = dest]
      OBVIOUS
    <3>5. e \in PointingOff
      BY <3>3, <3>4 DEF PointingOff, Entries
    <3>6. renamed = [table EXCEPT ![j] = e]
      BY <3>4, Zenon DEF j
    <3> QED
      BY <3>2, <3>3, <3>5, <3>6 DEF Tables
  <2>2. CURRENT_DIR_PARENT_CLUSTER_NUMBER \in OffFAT
    BY CursorFacts DEF ShellInv
  <2> HIDE DEF renamed
  <2> QED
    BY <1>1, <2>1, <2>2, TablesMirrored
<1> HIDE DEF found, write
<1>6. Mirrored(RenameEffect(s, dest, garbage), V)
  BY <1>3, <1>4, <1>5
<1>7. \E outcome : Change(outcome, RenameEffect(s, dest, garbage), sensible)
  BY <1>2
<1>8. sensible \in BOOLEAN
  OBVIOUS
<1> HIDE DEF sensible
<1> QED
  BY <1>1, <1>6, <1>7, <1>8, ChangeKeeps

(***************************************************************************)
(* What is behind the leading '/' is a path of as many names, and ends     *)
(* with the same one, whatever the stack makes of the first.               *)
(***************************************************************************)
LEMMA StackPathFacts ==
  ASSUME NEW path \in Paths, Len(path) > 1, NEW first
  PROVE  /\ Last(<<first>> \o Tail(path)) \in Names
         /\ Len(Front(<<first>> \o Tail(path))) \in Nat
<1> DEFINE S == Names \cup {first}
<1>1. PICK n \in Nat : n = Len(path)
  BY PathsAssumption
<1>2. path \in Seq(Names) /\ n > 1
  BY <1>1, PathsAssumption
<1>3. PICK t : t = Tail(path)
  OBVIOUS
<1>4. t \in Seq(Names) /\ Len(t) = n - 1
  BY <1>1, <1>2, <1>3, HeadTailProperties, EmptySeq
<1>5. PICK q : q = <<first>> \o t
  OBVIOUS
<1>6. Len(q) = n /\ q[n] = t[n - 1] /\ q \in Seq(S)
  <2>1. t \in Seq(S) /\ <<first>> \in Seq(S) /\ Len(<<first>>) = 1
    BY <1>4
  <2> HIDE DEF S
  <2>2. n \in 1 .. 1 + Len(t)
    BY <1>2, <1>4
  <2> QED
    BY <1>2, <1>4, <1>5, <2>1, <2>2
<1>7. t[n - 1] \in Names
  <2>1. n - 1 \in 1 .. Len(t)
    BY <1>2, <1>4
  <2> QED
    BY <1>4, <2>1
<1>8. Last(q) \in Names
  BY <1>6, <1>7 DEF Last
<1>9. Len(Front(q)) = n - 1
  BY <1>2, <1>6 DEF Front
<1> QED
  BY <1>2, <1>3, <1>5, <1>8, <1>9

(***************************************************************************)
(* mv to a folder below the root: two tables are written, or none.         *)
(***************************************************************************)
LEMMA MoveMirrored ==
  ASSUME NEW V, Settled(V), CursorInv, DEPTH = 0, NEW source, NEW garbage,
         NEW path, Last(path) \in Names, Len(Front(path)) \in Nat
  PROVE  Mirrored(MoveEffect(source, path, garbage), V)
<1> DEFINE table == AsTable(CurrentDirectory.data)
           found == Matches(table, source)
           dest == Destination(Front(path))
           room == UnusedPositions(dest.table)
           filled == [dest.table EXCEPT ![Min(room)] = MovedEntry(table[Min(found)], Last(path))]
           left == Vacated(table, Min(found))
           writes == WriteTables(<<write_cluster(dest.cluster, Table(filled)),
                                   write_cluster(CURRENT_DIR_PARENT_CLUSTER_NUMBER, Table(left))>>)
<1>1. MoveEffect(source, path, garbage)
        = IF CurrentDirectory.ret # 0 \/ garbage # 0 THEN Refused(-1)
          ELSE IF found = {} THEN Refused(1)
          ELSE IF ~dest.ok THEN Refused(2)
          ELSE IF room = {} THEN WriteTables(<<>>) ELSE writes
  BY Zenon DEF MoveEffect, MoveWrites
<1>2. \A ret : Mirrored(Refused(ret), V)
  BY RefusedMirrored
<1>3. Mirrored(WriteTables(<<>>), V)
  BY TablesMirrored
<1>4. ASSUME CurrentDirectory.ret = 0, found # {}, room # {}
      PROVE  Mirrored(writes, V)
  <2>1. table \in Tables
    BY <1>4, CurrentTyped
  <2>2. dest \in Descents
    <3>1. DirectoryRead(ROOT_CLUSTER_NUMBER, Root).ret = 0
      BY <1>4, CursorFacts
    <3>2. disk \in Disks(V)
      BY DEF Settled
    <3> QED
      BY <3>1, <3>2, DestinationTyped
  <2> HIDE DEF table, dest
  <2>3. dest.table \in Tables /\ dest.cluster \in OffFAT
    BY <2>2 DEF Descents
  <2> DEFINE j == Min(found)
  <2>4. j \in Positions /\ table[j] \in Entries /\ table[j].cluster \in OffFAT
    BY <2>1, <1>4, LookupFacts
  <2>5. Min(room) \in Positions
    BY <1>4, SizeFacts, MinProperty DEF UnusedPositions
  <2> HIDE DEF j, room
  <2>6. filled \in Tables
    <3>1. MovedEntry(table[j], Last(path)) \in PointingOff
      BY <2>4 DEF MovedEntry, PointingOff, Entries
    <3> QED
      BY <2>3, <2>5, <3>1 DEF Tables, j
  <2>7. left \in Tables
    <3>1. table \in [Positions -> PointingOff]
      BY <2>1 DEF Tables
    <3>2. PICK e : e = [table[j] EXCEPT !.name = NoName]
      OBVIOUS
    <3>3. e \in PointingOff
      BY <2>4, <3>2 DEF PointingOff, Entries
    <3>4. left = [table EXCEPT ![j] = e]
      BY <3>2, Zenon DEF j, Vacated
    <3> QED
      BY <2>4, <3>1, <3>3, <3>4 DEF Tables
  <2>8. CURRENT_DIR_PARENT_CLUSTER_NUMBER \in OffFAT
    BY CursorFacts
  <2> HIDE DEF filled, left
  <2> QED
    BY <2>3, <2>6, <2>7, <2>8, TablesMirrored
<1> HIDE DEF found, dest, room, writes
<1> QED
  BY <1>1, <1>2, <1>3, <1>4

LEMMA MoveInv ==
  ASSUME ShellInv, Ready, steady, NEW source, NEW path \in Paths, mvMove(source, path)
  PROVE  ShellInv'
<1>1. PICK V : Settled(V)
  BY SettledNow
<1> DEFINE Sensible(s, first) ==
             /\ DEPTH = 0 /\ Len(path) > 1
             /\ Node(disk, <<source>>).kind = "file"
             /\ Node(disk, Front(path)) = Folder
             /\ Fresh(Last(path), DirectoryCluster(disk, Front(path)))
             /\ HasRoom(DirectoryCluster(disk, Front(path)))
             /\ NoOther(s, source, ROOT_CLUSTER_NUMBER)
             /\ NoOther(first, Head(path), ROOT_CLUSTER_NUMBER)
<1>2. PICK s, first, garbage :
        \E outcome : Change(outcome, MoveEffect(s, <<first>> \o Tail(path), garbage),
                            Sensible(s, first))
  BY Zenon DEF mvMove
<1> DEFINE sensible == Sensible(s, first)
<1>3. ASSUME sensible
      PROVE  Mirrored(MoveEffect(s, <<first>> \o Tail(path), garbage), V)
  <2>1. DEPTH = 0 /\ Len(path) > 1
    BY <1>3
  <2>2. Last(<<first>> \o Tail(path)) \in Names /\ Len(Front(<<first>> \o Tail(path))) \in Nat
    BY <2>1, StackPathFacts
  <2> QED
    BY <1>1, <2>1, <2>2, MoveMirrored DEF ShellInv
<1>4. sensible \in BOOLEAN
  OBVIOUS
<1>5. \E outcome : Change(outcome, MoveEffect(s, <<first>> \o Tail(path), garbage), sensible)
  BY <1>2
<1> HIDE DEF sensible
<1> QED
  BY <1>1, <1>3, <1>4, <1>5, ChangeKeeps

-----------------------------------------------------------------------------
(* The theorems *)

LEMMA InitShellInv == ShellInit => ShellInv
<1> SUFFICES ASSUME ShellInit
             PROVE  ShellInv
  OBVIOUS
<1>1. InStep(Versions)
  <2>1. fat \in FATs /\ disk \in Disks(Versions) /\ disk[FAT_CLUSTER_NUMBER] = FATImage(fat)
    BY ImageImaged DEF Imaged, ShellInit
  <2>2. pending = <<>>
    BY DEF ShellInit
  <2>3. <<>> \in Seq(Writes(Versions)) /\ 1 .. Len(<<>>) = {}
    OBVIOUS
  <2>4. FATArrives(disk, <<>>, fat)
    BY <2>1, <2>3, Zenon DEF FATArrives
  <2>5. pending \in Seq(Writes(Versions)) /\ FATArrives(disk, pending, fat)
    BY <2>2, <2>3, <2>4
  <2> QED
    BY <2>1, <2>5 DEF InStep
<1>2. /\ DEPTH = 0 /\ MaxDepth \in Nat /\ 0 \in Depths
      /\ CURRENT_DIR_CLUSTER_NUMBER = ROOT_CLUSTER_NUMBER
      /\ CURRENT_DIR_PARENT_CLUSTER_NUMBER = ROOT_CLUSTER_NUMBER
  BY DepthAssumption DEF ShellInit, Depths
<1>3. /\ DIR_PATH = [k \in Depths |-> IF k = 0 THEN Root ELSE NoName]
      /\ DIR_CLUSTERS = [k \in Depths |-> IF k = 0 THEN ROOT_CLUSTER_NUMBER ELSE -1]
  BY DEF ShellInit
<1>4. DIR_PATH[0] = Root /\ DIR_CLUSTERS[0] = ROOT_CLUSTER_NUMBER
  BY <1>2, <1>3
<1>5. DIR_PATH \in [Depths -> DirNames] /\ DIR_CLUSTERS \in [Depths -> Slots]
  <2>1. Root \in DirNames /\ NoName \in DirNames /\ ROOT_CLUSTER_NUMBER \in Slots /\ -1 \in Slots
    BY EmptyTyped DEF DirNames, Slots
  <2> HIDE DEF DirNames, Slots
  <2> QED
    BY <1>3, <2>1
<1>6. Placed(DIR_PATH, DIR_CLUSTERS, DEPTH)
  <2>1. \A i \in 0 .. 0 : i = 0
    OBVIOUS
  <2>2. Root # NoName
    BY DEF Root, NoName
  <2>3. ROOT_CLUSTER_NUMBER \in OffFAT
    BY EmptyTyped
  <2>4. \A i \in 0 .. 0 : DIR_PATH[i] # NoName /\ DIR_CLUSTERS[i] \in OffFAT
    BY <1>4, <2>1, <2>2, <2>3
  <2> QED
    BY <1>2, <2>4, Zenon DEF Placed
<1>7. CursorConsistent
  BY <1>2, <1>4 DEF CursorConsistent
<1>8. CursorInv
  BY <1>2, <1>4, <1>5, <1>6, <1>7 DEF CursorInv
<1>9. steady \in BOOLEAN
  BY DEF ShellInit
<1> QED
  BY <1>1, <1>8, <1>9 DEF ShellInv

(***************************************************************************)
(* Every command keeps the invariant.                                      *)
(***************************************************************************)
LEMMA CommandsInv ==
  ASSUME ShellInv, Ready, steady, Commands
  PROVE  ShellInv'
<1>1. ASSUME NEW outcome, Tell(outcome), UNCHANGED place
      PROVE  ShellInv'
  <2>1. CursorInv'
    BY <1>1, CursorStays DEF ShellInv
  <2> QED
    BY <1>1, <2>1, TellKeeps
<1>2. CASE ls
  <2>1. (\E outcome : Tell(outcome)) /\ UNCHANGED place
    BY <1>2, Zenon DEF ls
  <2> QED
    BY <1>1, <2>1
<1>3. ASSUME NEW name \in Names, cat(name)
      PROVE  ShellInv'
  <2>1. (\E outcome : Tell(outcome)) /\ UNCHANGED place
    BY <1>3, Zenon DEF cat
  <2> QED
    BY <1>1, <2>1
<1>4. ASSUME NEW name \in Names, find(name)
      PROVE  ShellInv'
  <2>1. (\E outcome : Tell(outcome)) /\ UNCHANGED place
    BY <1>4, Zenon DEF find
  <2> QED
    BY <1>1, <2>1
<1>5. CASE cdUp
  BY <1>5, UpInv
<1>6. ASSUME NEW path \in Paths, cd(path)
      PROVE  ShellInv'
  BY <1>6, CdInv
<1>7. ASSUME NEW name \in Names, mkdir(name)
      PROVE  ShellInv'
  BY <1>7, MkdirInv
<1>8. ASSUME NEW name, rm(name)
      PROVE  ShellInv'
  BY <1>8, RmInv
<1>9. ASSUME NEW source, NEW dest \in Names, mvRename(source, dest)
      PROVE  ShellInv'
  BY <1>9, RenameInv
<1>10. ASSUME NEW source \in Names, NEW dest \in Names, cp(source, dest)
       PROVE  ShellInv'
  BY <1>10, CpInv
<1>11. ASSUME NEW source, NEW path \in Paths, mvMove(source, path)
       PROVE  ShellInv'
  BY <1>11, MoveInv
<1> QED
  BY <1>2, <1>3, <1>4, <1>5, <1>6, <1>7, <1>8, <1>9, <1>10, <1>11, Zenon DEF Commands

(***************************************************************************)
(* The inductive invariant: the arrays of cd hold directories down to      *)
(* where the user is and say the same as the numbers, and after sensible   *)
(* commands the FAT in memory is the one the disk will hold.               *)
(***************************************************************************)
THEOREM ShellInvariant == ShellSpec => []ShellInv
<1>1. ShellInv /\ [ShellNext]_shellVars => ShellInv'
  <2> SUFFICES ASSUME ShellInv, [ShellNext]_shellVars
               PROVE  ShellInv'
    OBVIOUS
  <2>1. CASE UNCHANGED shellVars \/ print_terminal_text
    <3>1. UNCHANGED place /\ UNCHANGED <<disk, fat, pending>> /\ steady' = steady
      BY <2>1 DEF shellVars, print_terminal_text, vars
    <3>2. CursorInv'
      BY <3>1, CursorStays DEF ShellInv
    <3>3. \A V : InStep(V) => InStep(V)'
      BY <3>1 DEF InStep, FATArrives
    <3> QED
      BY <3>1, <3>2, <3>3 DEF ShellInv
  <2>2. CASE write_clusters /\ UNCHANGED <<place, report, steady>>
    <3>1. UNCHANGED place /\ steady' = steady
      BY <2>2
    <3>2. CursorInv'
      BY <3>1, CursorStays DEF ShellInv
    <3>3. ASSUME NEW V, InStep(V)
          PROVE  InStep(V)'
      BY <2>2, <3>3, WriteKeeps
    <3> QED
      BY <3>1, <3>2, <3>3 DEF ShellInv
  <2>3. CASE Ready /\ steady /\ report = AtPrompt /\ Commands
    BY <2>3, CommandsInv
  <2> QED
    BY <2>1, <2>2, <2>3 DEF ShellNext
<1> QED
  BY <1>1, InitShellInv, PTL DEF ShellSpec

(***************************************************************************)
(* Down to the depth the arrays hold the names and clusters of directories, *)
(* also after a cd that fails half way.  The depth itself stays within them *)
(* because a session that goes deeper is not modelled: cd does not check    *)
(* it (user-shell.c:477).                                                   *)
(***************************************************************************)
THEOREM ShellTypeCorrect == ShellSpec => []ShellTypeOK
<1>1. ShellInv => ShellTypeOK
  <2> SUFFICES ASSUME ShellInv
               PROVE  ShellTypeOK
    OBVIOUS
  <2>1. /\ DEPTH \in Depths /\ DIR_PATH \in [Depths -> DirNames]
        /\ DIR_CLUSTERS \in [Depths -> Slots] /\ steady \in BOOLEAN
        /\ \A i \in 0 .. DEPTH : DIR_PATH[i] # NoName /\ DIR_CLUSTERS[i] \in OffFAT
    BY DEF ShellInv, CursorInv, Placed
  <2>2. DIR_PATH \in [Depths -> Names \cup {Root, NoName}]
    BY <2>1 DEF DirNames
  <2>3. Slots \subseteq Clusters \cup {-1} /\ OffFAT \subseteq Clusters
    BY EmptyTyped DEF Slots
  <2>4. DIR_CLUSTERS \in [Depths -> Clusters \cup {-1}]
    BY <2>1, <2>3
  <2> QED
    BY <2>1, <2>2, <2>3, <2>4 DEF ShellTypeOK
<1> QED
  BY <1>1, ShellInvariant, PTL

(***************************************************************************)
(* The numbers that mkdir, rm, cp and mv work with and the arrays that cd  *)
(* and cat work with never disagree, at any depth and after any cd that    *)
(* fails half way (user-shell.c:399-501, 508).                             *)
(***************************************************************************)
THEOREM CursorsAgree == ShellSpec => []CursorConsistent
<1>1. ShellInv => CursorConsistent
  BY DEF ShellInv, CursorInv
<1> QED
  BY <1>1, ShellInvariant, PTL

(***************************************************************************)
(* In a session of sensible commands the FAT in memory is the one on the   *)
(* disk between commands, also after the tables that mv writes past the    *)
(* driver (fat32.c:301, 365, 427, 450, user-shell.c:867-1225).             *)
(***************************************************************************)
THEOREM SessionIsOnTheDisk == ShellSpec => [](steady => FATMirrored)
<1>1. ShellInv => (steady => FATMirrored)
  <2> SUFFICES ASSUME ShellInv, steady, Ready
               PROVE  disk[FAT_CLUSTER_NUMBER] = FATImage(fat)
    BY DEF FATMirrored
  <2> QED
    BY SettledNow DEF Settled
<1> QED
  BY <1>1, ShellInvariant, PTL

-----------------------------------------------------------------------------
(* The tree, as the shell leaves it *)

\* No entry of a folder has the name that row 0 of the folder's table has.
OwnNames(d, at) ==
  \A x, j : Live(Listing(d, at), x, j) =>
    Listing(d, at)[x][j].name # AsTable(d[at[x]])[0].name
\* The root directory is entered by its own name.
RootRow(d) == AsTable(d[ROOT_CLUSTER_NUMBER])[0] = UsedEntry(Root, ROOT_CLUSTER_NUMBER, 0)
Whole(d) == \A p \in Paths : Node(d, p) # Damaged
Scene(d, map, at) == Sound(d, map, at) /\ OwnNames(d, at) /\ RootRow(d) /\ Whole(d)

\* The names of the first k folders on the way to where the user is, or is going
Upto(path, k) == [i \in 1 .. k |-> path[i]]
\* The way leads through folders of the tree.
Trails(at, path, clusters, depth) ==
  \A k \in 0 .. depth : Upto(path, k) \in DOMAIN at /\ at[Upto(path, k)] = clusters[k]
OnTrail(at) == Trails(at, DIR_PATH, DIR_CLUSTERS, DEPTH)

\* As long as the session is sensible there is a tree, and the user is in it.
SessionInv == ~steady \/ \E at : Scene(FinalDisk, fat, at) /\ OnTrail(at)

(***************************************************************************)
(* The paths in use are all the paths that are not too long.               *)
(***************************************************************************)
LEMMA PathsAre ==
  /\ \A p : p \in Paths <=> p \in Seq(Names) /\ Len(p) \in 1 .. MaxDepth + 1
  /\ \A p \in Seq(Names) : Len(p) <= MaxDepth => \A name \in Names : Append(p, name) \in Paths
<1>1. MaxDepth \in Nat
  BY DepthAssumption
<1>2. ASSUME NEW p
      PROVE  p \in Paths <=> p \in Seq(Names) /\ Len(p) \in 1 .. MaxDepth + 1
  <2>1. ASSUME p \in Paths
        PROVE  p \in Seq(Names) /\ Len(p) \in 1 .. MaxDepth + 1
    <3>1. PICK n \in 1 .. MaxDepth + 1 : p \in [1 .. n -> Names]
      BY <2>1, DeepPathsAssumption
    <3>2. n \in Nat /\ p = [i \in 1 .. n |-> p[i]] /\ \A i \in 1 .. n : p[i] \in Names
      BY <1>1, <3>1
    <3> QED
      BY <3>1, <3>2, IsASeq
  <2>2. ASSUME p \in Seq(Names), Len(p) \in 1 .. MaxDepth + 1
        PROVE  p \in Paths
    <3>1. p \in [1 .. Len(p) -> Names]
      BY <2>2
    <3> QED
      BY <2>2, <3>1, DeepPathsAssumption
  <2> QED
    BY <2>1, <2>2
<1>3. ASSUME NEW p \in Seq(Names), Len(p) <= MaxDepth, NEW name \in Names
      PROVE  Append(p, name) \in Paths
  <2>1. Append(p, name) \in Seq(Names) /\ Len(Append(p, name)) = Len(p) + 1 /\ Len(p) \in Nat
    BY AppendProperties
  <2>2. Len(Append(p, name)) \in 1 .. MaxDepth + 1
    BY <1>1, <1>3, <2>1
  <2> QED
    BY <1>2, <2>1, <2>2
<1> QED
  BY <1>2, <1>3
-----------------------------------------------------------------------------
(* What a call of the driver leaves *)

\* On disk m is the tree of disk d but for what is at q, and the folders are
\* where they were.
Onto(d, m, map, q, node) ==
  /\ \E at : /\ Sound(m, map, at)
             /\ \A y \in DOMAIN at : y = q \/ KeepsPlace(d, m, at, y)
  /\ \A r \in Paths : Node(m, r) = IF r = q THEN node ELSE Node(d, r)

\* The path is not in use, and neither is its name as that of the folder.
NewPath(d, at, q) ==
  /\ q \notin DOMAIN at
  /\ Front(q) \in DOMAIN at => Last(q) # AsTable(d[at[Front(q)]])[0].name

\* The folders of the one tree are where they are in the other.
Within(at, big) == \A y \in DOMAIN at : y \in DOMAIN big /\ big[y] = at[y]

\* A scene on disk d, and disk m with something else at q than what damages.
Changed(V, d, map, at, m, new, q, node) ==
  /\ d \in Disks(V) /\ map = AsFAT(d[FAT_CLUSTER_NUMBER]) /\ Scene(d, map, at)
  /\ m \in Disks(V) /\ new = AsFAT(m[FAT_CLUSTER_NUMBER]) /\ Onto(d, m, new, q, node)
  /\ node # Damaged /\ (node = Absent \/ NewPath(d, at, q))

(***************************************************************************)
(* Something new, or something that is gone, leaves a scene.               *)
(***************************************************************************)
LEMMA SceneFrom ==
  ASSUME NEW V, NEW d, NEW map, NEW at, NEW m, NEW new, NEW q \in Paths, NEW node,
         Changed(V, d, map, at, m, new, q, node)
  PROVE  \E big : Scene(m, new, big) /\ (node # Absent => Within(at, big))
<1>0. /\ d \in Disks(V) /\ map = AsFAT(d[FAT_CLUSTER_NUMBER]) /\ Scene(d, map, at)
      /\ m \in Disks(V) /\ new = AsFAT(m[FAT_CLUSTER_NUMBER]) /\ Onto(d, m, new, q, node)
      /\ node # Damaged /\ (node = Absent \/ NewPath(d, at, q))
  BY DEF Changed
<1>1. PICK big : Sound(m, new, big) /\ \A y \in DOMAIN big : y = q \/ KeepsPlace(d, m, big, y)
  BY <1>0 DEF Onto
<1>2. \A r \in Paths : Node(m, r) = IF r = q THEN node ELSE Node(d, r)
  BY <1>0 DEF Onto
<1>3. Sound(d, map, at) /\ OwnNames(d, at) /\ RootRow(d) /\ Whole(d)
  BY <1>0 DEF Scene
<1> DEFINE L == Listing(d, at)
           B == Listing(m, big)
<1>4. TreeOn(d, at) /\ Shaped(at, L) /\ TreeOn(m, big) /\ Shaped(big, B)
  BY <1>1, <1>3, SoundTree
<1>5. q # <<>> /\ Front(q) \in Seq(Names)
  BY PathFacts
<1>6. \A y \in DOMAIN at : y = <<>> \/ y \in Paths
  BY <1>4 DEF Shaped
<1>7. \A y \in DOMAIN big : y = <<>> \/ y \in Paths
  BY <1>4 DEF Shaped
<1>8. \A p \in Paths : (Node(d, p) = Folder <=> p \in DOMAIN at) /\ (Node(m, p) = Folder <=> p \in DOMAIN big)
  BY <1>0, <1>1, <1>3, FolderNodes
<1>9. <<>> \in DOMAIN at /\ <<>> \in DOMAIN big /\ big[<<>>] = ROOT_CLUSTER_NUMBER /\ at[<<>>] = ROOT_CLUSTER_NUMBER
  BY <1>4 DEF Shaped
<1>10. ASSUME NEW y \in DOMAIN big, y # q
       PROVE  /\ y \in DOMAIN at /\ big[y] = at[y]
              /\ AsTable(m[big[y]])[0] = AsTable(d[at[y]])[0]
  <2>1. y \in DOMAIN at
    BY <1>2, <1>7, <1>8, <1>9, <1>10
  <2>2. KeepsPlace(d, m, big, y)
    BY <1>1, <1>10
  <2>3. DirectoryCluster(d, y) = at[y]
    BY <1>0, <1>3, <2>1, PlacesAre
  <2> QED
    BY <2>1, <2>2, <2>3 DEF KeepsPlace
<1>11. \A p \in Paths : /\ \A x, j : Leads(B, x, j, p) => Node(m, p) # Absent
                        /\ Node(d, p) # Absent => \E x, j : Leads(L, x, j, p)
  BY <1>0, <1>4, NodeFacts, EntryKind
<1>12. /\ \A x, j, p : Leads(L, x, j, p) =>
            p \in Paths /\ x = Front(p) /\ L[x][j].name = Last(p) /\ x \in DOMAIN at
       /\ \A x, j, p : Leads(B, x, j, p) =>
            p \in Paths /\ x = Front(p) /\ B[x][j].name = Last(p) /\ x \in DOMAIN big
  BY <1>4, ShapedFacts
<1>13. \A x, j : Live(B, x, j) => Leads(B, x, j, Append(x, B[x][j].name))
  BY DEF Leads
<1>14. \A x, j, p : Leads(L, x, j, p) => Live(L, x, j)
  BY DEF Leads
<1> HIDE DEF L, B
<1>15. ASSUME NEW x, NEW j, Live(B, x, j)
       PROVE  B[x][j].name # AsTable(m[big[x]])[0].name
  <2>1. PICK p : p = Append(x, B[x][j].name)
    OBVIOUS
  <2>2. Leads(B, x, j, p) /\ p \in Paths /\ x = Front(p) /\ B[x][j].name = Last(p) /\ x \in DOMAIN big
    BY <1>12, <1>13, <1>15, <2>1
  <2>3. Node(m, p) # Absent
    BY <1>11, <2>2
  <2>4. p # x
    <3>1. Len(Front(p)) = Len(p) - 1 /\ Len(p) \in Nat
      BY <2>2, PathFacts
    <3> QED
      BY <2>2, <3>1
  <2>5. x # q
    <3>1. SUFFICES ASSUME x = q
                   PROVE  FALSE
      OBVIOUS
    <3>2. node = Folder
      BY <1>2, <1>8, <2>2, <3>1
    <3>3. q \notin DOMAIN at
      BY <1>0, <3>2, KindsDiffer DEF NewPath
    <3>4. Node(d, p) # Absent
      BY <1>2, <2>2, <2>3, <2>4, <3>1
    <3>5. PICK y, k : Leads(L, y, k, p)
      BY <1>11, <2>2, <3>4
    <3> QED
      BY <1>12, <2>2, <3>1, <3>3, <3>5
  <2>6. x \in DOMAIN at /\ AsTable(m[big[x]])[0] = AsTable(d[at[x]])[0]
    BY <1>10, <2>2, <2>5
  <2>7. CASE p = q
    <3>1. node # Absent
      BY <1>2, <2>2, <2>3, <2>7
    <3> QED
      BY <1>0, <2>2, <2>6, <2>7, <3>1 DEF NewPath
  <2>8. CASE p # q
    <3>1. Node(d, p) # Absent
      BY <1>2, <2>2, <2>3, <2>8
    <3>2. PICK y, k : Leads(L, y, k, p)
      BY <1>11, <2>2, <3>1
    <3>3. y = x /\ L[y][k].name = Last(p) /\ Live(L, y, k)
      BY <1>12, <1>14, <2>2, <3>2
    <3>4. L[y][k].name # AsTable(d[at[y]])[0].name
      BY <1>3, <3>3 DEF OwnNames, L
    <3> QED
      BY <2>2, <2>6, <3>3, <3>4
  <2> QED
    BY <2>7, <2>8
<1>16. OwnNames(m, big)
  BY <1>15 DEF OwnNames, B
<1>17. RootRow(m)
  BY <1>3, <1>5, <1>9, <1>10 DEF RootRow
<1>18. Whole(m)
  BY <1>0, <1>2, <1>3 DEF Whole
<1>19. ASSUME node # Absent, NEW y \in DOMAIN at
       PROVE  y \in DOMAIN big /\ big[y] = at[y]
  <2>1. y # q
    BY <1>0, <1>19 DEF NewPath
  <2>2. y \in DOMAIN big
    BY <1>2, <1>6, <1>8, <1>9, <2>1
  <2> QED
    BY <1>10, <2>1, <2>2
<1>20. Scene(m, new, big)
  BY <1>1, <1>16, <1>17, <1>18 DEF Scene
<1> QED
  BY <1>19, <1>20 DEF Within

-----------------------------------------------------------------------------
(* The session, step by step *)

\* Between the commands of a sensible session
Working(V, at) == Home(V, at) /\ Scene(disk, fat, at) /\ OnTrail(at)

\* Before a command the disk holds a tree, and the user is in a folder of it.
LEMMA AtWork ==
  ASSUME ShellInv, SessionInv, Ready, steady
  PROVE  \E V, at : Working(V, at) /\ FinalDisk = disk
<1>1. PICK V : Settled(V)
  BY SettledNow
<1>2. FinalDisk = disk
  <2>1. pending \in {<<>>} /\ disk \in Disks(V)
    BY <1>1 DEF Settled, Ready
  <2> QED
    BY <2>1, NothingSteady DEF FinalDisk
<1>3. PICK at : Scene(disk, fat, at) /\ OnTrail(at)
  BY <1>2 DEF SessionInv
<1> QED
  BY <1>1, <1>2, <1>3 DEF Working, Home, Scene

(***************************************************************************)
(* A command that changes the disk keeps the invariant if what it will     *)
(* leave is a scene with the user in it.                                   *)
(***************************************************************************)
LEMMA ChangeSession ==
  ASSUME NEW outcome, NEW e, NEW sensible, Change(outcome, e, sensible),
         sensible => \E big : Scene(Written(disk, e.writes), e.fat, big) /\ OnTrail(big)
  PROVE  SessionInv'
<1>1. /\ fat' = e.fat /\ pending' = e.writes /\ disk' = disk /\ steady' = sensible
      /\ UNCHANGED <<DEPTH, DIR_PATH, DIR_CLUSTERS>>
  BY DEF Change, place
<1>2. FinalDisk' = Written(disk, e.writes)
  BY <1>1 DEF FinalDisk
<1>3. ASSUME sensible
      PROVE  \E at : Scene(FinalDisk', fat', at) /\ OnTrail(at)'
  <2>1. PICK big : Scene(Written(disk, e.writes), e.fat, big) /\ OnTrail(big)
    BY <1>3
  <2>2. OnTrail(big)'
    BY <1>1, <2>1 DEF OnTrail
  <2> QED
    BY <1>1, <1>2, <2>1, <2>2
<1>4. ASSUME steady'
      PROVE  (\E at : Scene(FinalDisk, fat, at) /\ OnTrail(at))'
  BY <1>1, <1>3, <1>4
<1> QED
  BY <1>4 DEF SessionInv

(***************************************************************************)
(* One that only tells something does, wherever the user then is.          *)
(***************************************************************************)
LEMMA TellSession ==
  ASSUME SessionInv, NEW outcome, Tell(outcome), steady,
         \A at : Scene(FinalDisk, fat, at) /\ OnTrail(at) => OnTrail(at)'
  PROVE  SessionInv'
<1>1. UNCHANGED <<disk, fat, pending>>
  BY DEF Tell, vars
<1>2. PICK at : Scene(FinalDisk, fat, at) /\ OnTrail(at)
  BY DEF SessionInv
<1>3. FinalDisk' = FinalDisk
  BY <1>1 DEF FinalDisk
<1>4. Scene(FinalDisk', fat', at) /\ OnTrail(at)'
  BY <1>1, <1>2, <1>3
<1>5. (\E a : Scene(FinalDisk, fat, a) /\ OnTrail(a))'
  BY <1>4
<1> QED
  BY <1>5 DEF SessionInv

(***************************************************************************)
(* A write on its way to the disk changes nothing of what the disk will    *)
(* be.                                                                     *)
(***************************************************************************)
LEMMA WriteSession ==
  ASSUME ShellInv, SessionInv, write_clusters, UNCHANGED <<place, report, steady>>
  PROVE  SessionInv'
<1>1. CASE ~steady
  BY <1>1 DEF SessionInv
<1>2. CASE steady
  <2>1. PICK V : InStep(V)
    BY <1>2 DEF ShellInv
  <2>2. /\ disk \in Disks(V) /\ pending \in Seq(Writes(V)) /\ pending # <<>>
        /\ disk' = [disk EXCEPT ![Head(pending).cluster] = Head(pending).content]
        /\ pending' = Tail(pending) /\ fat' = fat
    BY <2>1 DEF InStep, write_clusters
  <2>3. FinalDisk' = FinalDisk
    BY <2>2, WrittenNext, ZenonT(60) DEF FinalDisk, Disks
  <2>4. PICK at : Scene(FinalDisk, fat, at) /\ OnTrail(at)
    BY <1>2 DEF SessionInv
  <2>5. OnTrail(at)'
    BY <2>4 DEF OnTrail, place
  <2>6. Scene(FinalDisk', fat', at) /\ OnTrail(at)'
    BY <2>2, <2>3, <2>4, <2>5
  <2>7. (\E a : Scene(FinalDisk, fat, a) /\ OnTrail(a))'
    BY <2>6
  <2> QED
    BY <2>7 DEF SessionInv
<1> QED
  BY <1>1, <1>2 DEF ShellInv

-----------------------------------------------------------------------------
(* Where the user is *)

\* The beginning of a path, as far as the user's arrays hold it.
LEMMA UptoFacts ==
  ASSUME NEW path, NEW k \in Nat
  PROVE  /\ Len(Upto(path, k)) = k /\ \A i \in 1 .. k : Upto(path, k)[i] = path[i]
         /\ k = 0 => Upto(path, k) = <<>>
<1>1. Len(Upto(path, k)) = k /\ \A i \in 1 .. k : Upto(path, k)[i] = path[i]
  BY DEF Upto
<1>2. k = 0 => Upto(path, k) = <<>>
  BY DEF Upto
<1> QED
  BY <1>1, <1>2

(***************************************************************************)
(* Each folder on the way is in the one before it.                         *)
(***************************************************************************)
LEMMA UptoNext ==
  ASSUME NEW path, NEW k \in Nat, Upto(path, k) \in Seq(Names), path[k + 1] \in Names
  PROVE  Upto(path, k + 1) = Append(Upto(path, k), path[k + 1])
<1>1. PICK u : u = Upto(path, k)
  OBVIOUS
<1>2. PICK v : v = Append(u, path[k + 1])
  OBVIOUS
<1>3. /\ u \in Seq(Names) /\ Len(u) = k /\ \A i \in 1 .. k : u[i] = path[i]
  BY <1>1, UptoFacts
<1>4. /\ v \in Seq(Names) /\ Len(v) = k + 1 /\ v[k + 1] = path[k + 1]
      /\ \A i \in 1 .. k : v[i] = u[i]
  BY <1>2, <1>3, AppendProperties
<1>5. v = [i \in 1 .. k + 1 |-> v[i]]
  BY <1>4
<1>6. \A i \in 1 .. k + 1 : v[i] = path[i]
  BY <1>3, <1>4
<1>7. v = [i \in 1 .. k + 1 |-> path[i]]
  BY <1>5, <1>6
<1> QED
  BY <1>1, <1>2, <1>7 DEF Upto

\* Each folder on the user's trail is in the one before.
LEMMA TrailNext ==
  ASSUME NEW at, NEW L, Shaped(at, L), NEW path, NEW clusters, NEW depth \in Nat,
         Trails(at, path, clusters, depth), NEW k \in Nat, k + 1 <= depth
  PROVE  /\ Upto(path, k) \in DOMAIN at /\ Upto(path, k + 1) \in DOMAIN at /\ Upto(path, k + 1) \in Paths
         /\ Upto(path, k + 1) # <<>>
         /\ Front(Upto(path, k + 1)) = Upto(path, k) /\ Last(Upto(path, k + 1)) = path[k + 1]
<1>1. k \in 0 .. depth /\ k + 1 \in 0 .. depth
  OBVIOUS
<1>2. Upto(path, k) \in DOMAIN at /\ Upto(path, k + 1) \in DOMAIN at
  BY <1>1 DEF Trails
<1>3. Upto(path, k) \in Seq(Names) /\ Upto(path, k + 1) \in Seq(Names)
  BY <1>2, ShapedFacts
<1>4. Len(Upto(path, k + 1)) = k + 1 /\ Upto(path, k + 1)[k + 1] = path[k + 1]
  <2>1. k + 1 \in Nat /\ k + 1 \in 1 .. k + 1
    OBVIOUS
  <2> QED
    BY <2>1, UptoFacts
<1>5. path[k + 1] \in Names
  <2>1. k + 1 \in 1 .. Len(Upto(path, k + 1))
    BY <1>4
  <2> QED
    BY <1>3, <1>4, <2>1, ElementOfSeq
<1>6. Upto(path, k + 1) = Append(Upto(path, k), path[k + 1])
  BY <1>3, <1>5, UptoNext
<1>7. Upto(path, k + 1) # <<>>
  BY <1>3, <1>6, AppendFacts
<1>8. Upto(path, k + 1) \in Paths
  BY <1>2, <1>7 DEF Shaped
<1> QED
  BY <1>2, <1>3, <1>6, <1>7, <1>8, AppendFacts

-----------------------------------------------------------------------------
(* What the shell reads *)

(***************************************************************************)
(* A lookup in a folder finds the entry of that name; if there is none, it *)
(* finds at most the folder itself.                                        *)
(***************************************************************************)
LEMMA LookupIn ==
  ASSUME NEW V, NEW d \in Disks(V), NEW map, NEW at, Scene(d, map, at), NEW x \in DOMAIN at,
         NEW table, table = AsTable(d[at[x]]), NEW name \in Names
  PROVE  /\ table \in Tables /\ OwnRow(table)
         /\ \A j : Leads(Listing(d, at), x, j, Append(x, name)) =>
              /\ Matches(table, name) # {} /\ Min(Matches(table, name)) = j
              /\ j \in Rows /\ table[j] = Listing(d, at)[x][j]
              /\ Listed(table, name) # {} /\ Min(Listed(table, name)) = j
         /\ (\A j : ~Leads(Listing(d, at), x, j, Append(x, name))) =>
              \A j \in Matches(table, name) : j = 0
<1> DEFINE L == Listing(d, at)
<1>1. Sound(d, map, at) /\ OwnNames(d, at)
  BY DEF Scene
<1>2. Shaped(at, L) /\ Seated(d, at, L)
  BY <1>1, SoundTree
<1>3. table \in Tables /\ \A j \in Rows : j \in Positions /\ L[x][j] = table[j]
  BY <1>2, ListingFacts
<1>4. OwnRow(table)
  BY <1>2 DEF Seated
<1>5. \A j : j \in Listed(table, name) <=> Leads(L, x, j, Append(x, name))
  BY <1>2, ListedFacts
<1>6. \A j \in Matches(table, name) : j = 0 \/ j \in Listed(table, name)
  BY DEF Listed
<1>7. ASSUME NEW j, Leads(L, x, j, Append(x, name))
      PROVE  /\ Matches(table, name) # {} /\ Min(Matches(table, name)) = j
             /\ j \in Rows /\ table[j] = L[x][j]
             /\ Listed(table, name) # {} /\ Min(Listed(table, name)) = j
  <2>1. Live(L, x, j) /\ j \in Rows
    BY <1>7 DEF Leads, Live
  <2>2. table[j].name = name
    BY <1>5, <1>7 DEF Listed, Matches
  <2>3. name # table[0].name
    BY <1>1, <1>3, <2>1, <2>2 DEF OwnNames
  <2>4. ASSUME NEW k \in Matches(table, name)
        PROVE  k = j
    <3>1. k # 0
      BY <2>3, <2>4 DEF Matches
    <3>2. Leads(L, x, k, Append(x, name))
      BY <1>5, <1>6, <2>4, <3>1
    <3> QED
      BY <1>2, <1>7, <3>2 DEF Shaped
  <2>5. j \in Listed(table, name) /\ j \in Nat
    BY <1>3, <1>5, <1>7, <2>1, SizeFacts
  <2>6. \A k : k \in Matches(table, name) <=> k = j
    BY <2>4, <2>5 DEF Listed
  <2>7. \A k : k \in Listed(table, name) <=> k = j
    BY <2>5, <2>6 DEF Listed
  <2> QED
    BY <1>3, <2>1, <2>5, <2>6, <2>7, MinOfOne
<1>8. ASSUME \A j : ~Leads(L, x, j, Append(x, name)), NEW j \in Matches(table, name)
      PROVE  j = 0
  BY <1>5, <1>6, <1>8
<1> QED
  BY <1>3, <1>4, <1>7, <1>8

(***************************************************************************)
(* A folder is read from the one it is in by its name, and the root from   *)
(* itself.                                                                 *)
(***************************************************************************)
LEMMA ReadsItself ==
  ASSUME NEW V, NEW at, Home(V, at), Scene(disk, fat, at)
  PROVE  /\ DirectoryRead(ROOT_CLUSTER_NUMBER, Root) = [ret |-> 0, data |-> disk[ROOT_CLUSTER_NUMBER]]
         /\ \A x \in DOMAIN at \ {<<>>} :
              DirectoryRead(at[Front(x)], Last(x)) = [ret |-> 0, data |-> disk[at[x]]]
<1> DEFINE L == Listing(disk, at)
<1>1. disk \in Disks(V) /\ Sound(disk, fat, at) /\ RootRow(disk)
  BY DEF Home, Settled, Scene
<1>2. Shaped(at, L)
  BY <1>1, SoundTree
<1>3. DirectoryRead(ROOT_CLUSTER_NUMBER, Root) = [ret |-> 0, data |-> disk[ROOT_CLUSTER_NUMBER]]
  <2>1. PICK table : table = AsTable(disk[ROOT_CLUSTER_NUMBER])
    OBVIOUS
  <2>2. table[0] = UsedEntry(Root, ROOT_CLUSTER_NUMBER, 0)
    BY <1>1, <2>1 DEF RootRow
  <2>3. 0 \in Matches(table, Root) /\ Matches(table, Root) \subseteq Nat
    <3>1. table[0].name = Root
      BY <2>2 DEF UsedEntry
    <3> QED
      BY <3>1, SizeFacts DEF Matches
  <2>4. Min(Matches(table, Root)) = 0
    <3>1. /\ Min(Matches(table, Root)) \in Matches(table, Root)
          /\ \A y \in Matches(table, Root) : Min(Matches(table, Root)) <= y
      BY <2>3, MinProperty
    <3> QED
      BY <2>3, <3>1
  <2>5. table[0].filesize = 0 /\ table[0].cluster = ROOT_CLUSTER_NUMBER
    BY <2>2 DEF UsedEntry
  <2> QED
    BY <2>1, <2>3, <2>4, <2>5 DEF DirectoryRead
<1>4. ASSUME NEW x \in DOMAIN at \ {<<>>}
      PROVE  DirectoryRead(at[Front(x)], Last(x)) = [ret |-> 0, data |-> disk[at[x]]]
  <2>1. PICK y, j : Leads(L, y, j, x) /\ L[y][j].filesize = 0
    BY <1>2 DEF Shaped
  <2>2. x \in Paths /\ y = Front(x) /\ L[y][j].name = Last(x) /\ y \in DOMAIN at
    BY <1>2, <2>1, ShapedFacts
  <2>3. Last(x) \in Names /\ Append(y, Last(x)) = x
    BY <2>2, PathFacts
  <2>4. PICK table : table = AsTable(disk[at[y]])
    OBVIOUS
  <2>5. /\ Matches(table, Last(x)) # {} /\ Min(Matches(table, Last(x))) = j
        /\ table[j] = L[y][j]
    <3>1. Leads(L, y, j, Append(y, Last(x)))
      BY <2>1, <2>3
    <3>2. Scene(disk, fat, at) /\ y \in DOMAIN at /\ Last(x) \in Names
      BY <2>2, <2>3
    <3> HIDE DEF L
    <3> QED
      BY <1>1, <2>4, <3>1, <3>2, LookupIn DEF L
  <2>6. L[y][j].cluster = at[x]
    BY <1>2, <2>1, <2>3, ZenonT(60) DEF Shaped, Leads
  <2> QED
    BY <2>1, <2>2, <2>4, <2>5, <2>6 DEF DirectoryRead
<1> QED
  BY <1>3, <1>4

(***************************************************************************)
(* So are the folders on the way, through the arrays.                      *)
(***************************************************************************)
LEMMA ReadOnTrail ==
  ASSUME NEW V, NEW at, Home(V, at), Scene(disk, fat, at),
         NEW path, NEW clusters, NEW depth \in Nat, Trails(at, path, clusters, depth),
         path[0] = Root, clusters[0] = ROOT_CLUSTER_NUMBER
  PROVE  /\ Upto(path, depth) \in DOMAIN at /\ at[Upto(path, depth)] = clusters[depth]
         /\ DirectoryRead(clusters[IF depth = 0 THEN 0 ELSE depth - 1], path[depth])
              = [ret |-> 0, data |-> disk[at[Upto(path, depth)]]]
<1> DEFINE x == Upto(path, depth)
<1>1. Shaped(at, Listing(disk, at))
  BY SoundTree DEF Scene
<1>2. depth \in 0 .. depth
  OBVIOUS
<1>3. x \in DOMAIN at /\ at[x] = clusters[depth]
  BY <1>2 DEF Trails
<1>4. CASE depth = 0
  <2>1. x = <<>>
    BY <1>4, UptoFacts
  <2>2. at[x] = ROOT_CLUSTER_NUMBER
    BY <1>1, <2>1 DEF Shaped
  <2>3. DirectoryRead(ROOT_CLUSTER_NUMBER, Root) = [ret |-> 0, data |-> disk[ROOT_CLUSTER_NUMBER]]
    BY ReadsItself
  <2> QED
    BY <1>3, <1>4, <2>2, <2>3
<1>5. CASE depth # 0
  <2>1. PICK k \in Nat : k + 1 = depth /\ k = depth - 1
    BY <1>5
  <2>2. Upto(path, k) \in DOMAIN at /\ x # <<>> /\ Front(x) = Upto(path, k) /\ Last(x) = path[depth]
    BY <1>1, <2>1, TrailNext
  <2>3. at[Front(x)] = clusters[k]
    <3>1. k \in 0 .. depth
      BY <2>1
    <3> QED
      BY <2>2, <3>1 DEF Trails
  <2>4. DirectoryRead(at[Front(x)], Last(x)) = [ret |-> 0, data |-> disk[at[x]]]
    BY <1>3, <2>2, ReadsItself
  <2> HIDE DEF x
  <2> QED
    BY <1>3, <1>5, <2>1, <2>2, <2>3, <2>4 DEF x
<1> QED
  BY <1>4, <1>5

(***************************************************************************)
(* Where the user is, there is a folder, and the commands read its table.  *)
(***************************************************************************)
LEMMA HereFacts ==
  ASSUME NEW V, NEW at, Working(V, at), CursorInv
  PROVE  /\ Here \in DOMAIN at /\ Here = Upto(DIR_PATH, DEPTH) /\ Here \in Seq(Names)
         /\ Len(Here) = DEPTH /\ DEPTH \in 0 .. MaxDepth
         /\ DEPTH = 0 => Here = <<>>
         /\ at[Here] = CURRENT_DIR_CLUSTER_NUMBER /\ at[Here] = DIR_CLUSTERS[DEPTH]
         /\ CurrentDirectory = [ret |-> 0, data |-> disk[at[Here]]]
         /\ \A name \in Names : /\ Entry(name) \in Paths /\ Front(Entry(name)) = Here
                                /\ Last(Entry(name)) = name
                                /\ IsDirectory(Front(Entry(name)))
                                /\ ParentOf(Entry(name)) = at[Here]
<1>1. /\ Home(V, at) /\ Scene(disk, fat, at) /\ Trails(at, DIR_PATH, DIR_CLUSTERS, DEPTH)
      /\ disk \in Disks(V) /\ Sound(disk, fat, at)
  BY DEF Working, OnTrail, Home, Settled
<1>2. Shaped(at, Listing(disk, at))
  BY <1>1, SoundTree
<1>3. DEPTH \in Nat /\ DEPTH \in 0 .. MaxDepth /\ DEPTH \in 0 .. DEPTH /\ 0 \in 0 .. DEPTH
  BY DepthAssumption DEF CursorInv, Depths
<1>4. Here = Upto(DIR_PATH, DEPTH)
  BY DEF Here, Upto
<1>5. Here \in DOMAIN at /\ at[Here] = DIR_CLUSTERS[DEPTH]
  BY <1>1, <1>3, <1>4 DEF Trails
<1>6. Here \in Seq(Names)
  BY <1>2, <1>5, ShapedFacts
<1>7. Len(Here) = DEPTH /\ (DEPTH = 0 => Here = <<>>)
  BY <1>3, <1>4, UptoFacts
<1>8. at[Here] = CURRENT_DIR_CLUSTER_NUMBER
  BY <1>5 DEF CursorInv, CursorConsistent
<1>9. CurrentDirectory = [ret |-> 0, data |-> disk[at[Here]]]
  <2>1. DIR_PATH[0] = Root /\ DIR_CLUSTERS[0] = ROOT_CLUSTER_NUMBER
        /\ CURRENT_DIR_PARENT_CLUSTER_NUMBER = DIR_CLUSTERS[IF DEPTH = 0 THEN 0 ELSE DEPTH - 1]
    BY DEF CursorInv, CursorConsistent
  <2>2. CurrentDirectory
          = DirectoryRead(DIR_CLUSTERS[IF DEPTH = 0 THEN 0 ELSE DEPTH - 1], DIR_PATH[DEPTH])
    BY <2>1, Zenon DEF CurrentDirectory
  <2>3. CurrentDirectory = [ret |-> 0, data |-> disk[at[Upto(DIR_PATH, DEPTH)]]]
    <3>1. DirectoryRead(DIR_CLUSTERS[IF DEPTH = 0 THEN 0 ELSE DEPTH - 1], DIR_PATH[DEPTH])
            = [ret |-> 0, data |-> disk[at[Upto(DIR_PATH, DEPTH)]]]
      BY <1>1, <1>3, <2>1, ReadOnTrail
    <3> QED
      BY <2>2, <3>1, Zenon
  <2> QED
    BY <1>4, <2>3
<1>10. ASSUME NEW name \in Names
       PROVE  /\ Entry(name) \in Paths /\ Front(Entry(name)) = Here /\ Last(Entry(name)) = name
              /\ IsDirectory(Front(Entry(name))) /\ ParentOf(Entry(name)) = at[Here]
  <2>1. Len(Here) <= MaxDepth
    BY <1>3, <1>7, DepthAssumption
  <2>2. Entry(name) \in Paths
    BY <1>6, <2>1, PathsAre DEF Entry
  <2>3. Front(Entry(name)) = Here /\ Last(Entry(name)) = name
    BY <1>6, AppendFacts DEF Entry
  <2>4. IsDirectory(Here)
    <3>1. CASE Here = <<>>
      BY <3>1 DEF IsDirectory
    <3>2. CASE Here # <<>>
      <4>1. Here \in Paths
        BY <1>2, <1>5, <3>2 DEF Shaped
      <4>2. fat = AsFAT(disk[FAT_CLUSTER_NUMBER])
        BY <1>1, Held DEF Home, Settled
      <4>3. Node(disk, Here) = Folder
        BY <1>1, <1>5, <4>1, <4>2, FolderNodes
      <4> QED
        BY <4>3 DEF IsDirectory
    <3> QED
      BY <3>1, <3>2
  <2>5. DirectoryCluster(disk, Here) = at[Here]
    BY <1>1, <1>5, PlacesAre
  <2> QED
    BY <2>2, <2>3, <2>4, <2>5 DEF ParentOf
<1> QED
  BY <1>3, <1>4, <1>5, <1>6, <1>7, <1>8, <1>9, <1>10

-----------------------------------------------------------------------------
(* The commands that move the user *)

\* cd .. leads to the folder above.
LEMMA UpSession == ShellInv /\ SessionInv /\ steady /\ cdUp => SessionInv'
<1> SUFFICES ASSUME ShellInv, SessionInv, steady, cdUp
             PROVE  SessionInv'
  OBVIOUS
<1>1. PICK outcome : Tell(outcome)
  BY DEF cdUp
<1>2. ASSUME NEW at, OnTrail(at)
      PROVE  OnTrail(at)'
  <2>1. CASE ~(DEPTH > 0)
    BY <1>2, <2>1 DEF cdUp, place, OnTrail
  <2>2. CASE DEPTH > 0
    <3>1. DEPTH \in Nat /\ DIR_CLUSTERS \in [Depths -> Slots] /\ DEPTH \in Depths
      BY DepthAssumption DEF ShellInv, CursorInv, Depths
    <3>2. DEPTH' = DEPTH - 1 /\ DIR_CLUSTERS' = [DIR_CLUSTERS EXCEPT ![DEPTH] = -1] /\ DIR_PATH' = DIR_PATH
      BY <2>2 DEF cdUp, Forget
    <3>3. ASSUME NEW k \in 0 .. DEPTH - 1
          PROVE  Upto(DIR_PATH, k) \in DOMAIN at /\ at[Upto(DIR_PATH, k)] = DIR_CLUSTERS'[k]
      <4>1. k \in 0 .. DEPTH /\ k # DEPTH /\ k \in Depths
        BY <3>1, DepthAssumption DEF Depths
      <4>2. DIR_CLUSTERS'[k] = DIR_CLUSTERS[k]
        BY <3>1, <3>2, <4>1
      <4> QED
        BY <1>2, <4>1, <4>2 DEF OnTrail, Trails
    <3>4. Trails(at, DIR_PATH', DIR_CLUSTERS', DEPTH')
      BY <3>2, <3>3 DEF Trails
    <3> QED
      BY <3>4 DEF OnTrail
  <2> QED
    BY <2>1, <2>2
<1> QED
  BY <1>1, <1>2, TellSession

(***************************************************************************)
(* One component of cd's path: if it is a folder, the way leads on in the  *)
(* tree.                                                                   *)
(***************************************************************************)
LEMMA EnterTrail ==
  ASSUME NEW V, NEW at, Home(V, at), Scene(disk, fat, at), CursorInv,
         NEW k \in Nat, DEPTH + k + 1 <= MaxDepth, NEW w, OnTheWay(w, k),
         w.ok => Trails(at, w.path, w.clusters, w.depth), NEW name \in Names,
         NEW v, v = EnterFolder(w, name), v.ok
  PROVE  Trails(at, v.path, v.clusters, v.depth)
<1> DEFINE L == Listing(disk, at)
<1>1. disk \in Disks(V) /\ Sound(disk, fat, at)
  BY DEF Home, Settled, Scene
<1>2. Shaped(at, L) /\ Seated(disk, at, L)
  BY <1>1, SoundTree
<1>3. PICK above, r, found :
        /\ above = IF w.depth = 0 THEN 0 ELSE w.depth - 1
        /\ r = DirectoryRead(w.clusters[above], w.path[w.depth])
        /\ found = FolderEntries(AsTable(r.data), name)
  OBVIOUS
<1>4. /\ w.ok /\ found # {}
      /\ v = [ok |-> TRUE, depth |-> w.depth + 1,
              path |-> [w.path EXCEPT ![w.depth + 1] = name],
              clusters |-> [w.clusters EXCEPT ![w.depth + 1] = AsTable(r.data)[Min(found)].cluster]]
  <2>1. v = IF ~w.ok THEN w
            ELSE IF r.ret # 0 THEN [w EXCEPT !.ok = FALSE]
            ELSE IF found = {} THEN [w EXCEPT !.ok = FALSE]
            ELSE [ok |-> TRUE, depth |-> w.depth + 1,
                  path |-> [w.path EXCEPT ![w.depth + 1] = name],
                  clusters |-> [w.clusters EXCEPT ![w.depth + 1] = AsTable(r.data)[Min(found)].cluster]]
    BY <1>3 DEF EnterFolder
  <2>2. w.ok
    BY <2>1
  <2>3. w \in Walks
    BY DEF OnTheWay
  <2>4. [w EXCEPT !.ok = FALSE].ok = FALSE
    BY <2>3 DEF Walks
  <2> QED
    BY <2>1, <2>2, <2>4, SMTT(30)
<1>5. /\ w.path \in [Depths -> DirNames] /\ w.clusters \in [Depths -> Slots]
      /\ w.depth = DEPTH + k /\ DEPTH \in Nat /\ w.depth \in Nat /\ w.depth + 1 \in Depths
      /\ w.path[0] = Root /\ w.clusters[0] = ROOT_CLUSTER_NUMBER
  <2>1. w \in Walks /\ w.depth = DEPTH + k
    BY <1>4 DEF OnTheWay
  <2>2. DEPTH \in Nat /\ 0 \in 0 .. DEPTH
    BY DepthAssumption DEF CursorInv, Depths
  <2>3. w.path[0] = DIR_PATH[0] /\ w.clusters[0] = DIR_CLUSTERS[0]
    BY <2>2 DEF OnTheWay
  <2> QED
    BY <2>1, <2>2, <2>3, DepthAssumption DEF Walks, Depths, CursorInv
<1>6. PICK x : x = Upto(w.path, w.depth)
  OBVIOUS
<1>7. x \in DOMAIN at /\ r = [ret |-> 0, data |-> disk[at[x]]]
  <2>1. Trails(at, w.path, w.clusters, w.depth)
    BY <1>4
  <2>2. /\ Upto(w.path, w.depth) \in DOMAIN at
        /\ DirectoryRead(w.clusters[IF w.depth = 0 THEN 0 ELSE w.depth - 1], w.path[w.depth])
             = [ret |-> 0, data |-> disk[at[Upto(w.path, w.depth)]]]
    BY <1>5, <2>1, ReadOnTrail
  <2> QED
    BY <1>3, <1>6, <2>2
<1>8. PICK table : table = AsTable(disk[at[x]])
  OBVIOUS
<1>9. PICK j : j = Min(found)
  OBVIOUS
<1>10. j \in Rows /\ table[j].attribute = ATR_DIRECTORY /\ table[j].name = name
  <2>1. found = FolderEntries(table, name)
    BY <1>3, <1>7, <1>8
  <2>2. found \subseteq Nat
    BY <2>1, SizeFacts DEF FolderEntries
  <2>3. j \in found
    BY <1>4, <1>9, <2>2, MinProperty
  <2> QED
    BY <2>1, <2>3 DEF FolderEntries, Rows
<1>11. L[x][j] = table[j] /\ Leads(L, x, j, Append(x, name))
  <2>1. L[x][j] = table[j]
    BY <1>1, <1>2, <1>7, <1>8, <1>10, ListingFacts
  <2>2. name # NoName
    BY NamesAssumption DEF NoName
  <2>3. x \in DOMAIN L
    BY <1>7 DEF Listing
  <2> QED
    BY <1>10, <2>1, <2>2, <2>3 DEF Leads, Live
<1>12. table[j].filesize = 0
  <2>1. table[j].attribute = AttributeOf(table[j].filesize)
    BY <1>2, <1>11 DEF Seated, Leads
  <2> QED
    BY <1>10, <2>1 DEF AttributeOf, ATR_DIRECTORY, ATR_FILE
<1>13. Append(x, name) \in DOMAIN at /\ at[Append(x, name)] = table[j].cluster
  BY <1>2, <1>10, <1>11, <1>12 DEF Shaped, Leads
<1>14. PICK n \in Nat : n = w.depth
  BY <1>5
<1>15. /\ v.depth = n + 1 /\ n + 1 \in Depths
       /\ v.path[n + 1] = name /\ v.clusters[n + 1] = table[j].cluster
       /\ \A i \in 0 .. n : v.path[i] = w.path[i] /\ v.clusters[i] = w.clusters[i]
  <2>1. v.path = [w.path EXCEPT ![n + 1] = name]
        /\ v.clusters = [w.clusters EXCEPT ![n + 1] = table[j].cluster] /\ v.depth = n + 1
    BY <1>4, <1>7, <1>8, <1>9, <1>14
  <2>2. n + 1 \in Depths /\ \A i \in 0 .. n : i # n + 1 /\ i \in Depths
    <3>1. MaxDepth \in Nat /\ n + 1 \in 0 .. MaxDepth
      BY <1>5, <1>14, DepthAssumption DEF Depths
    <3> QED
      BY <1>14, <3>1 DEF Depths
  <2> QED
    BY <1>5, <1>14, <2>1, <2>2
<1>16. ASSUME NEW i \in 0 .. n
       PROVE  Upto(v.path, i) = Upto(w.path, i)
  <2>1. \A h \in 1 .. i : v.path[h] = w.path[h]
    BY <1>15
  <2> QED
    BY <2>1 DEF Upto
<1>17. Upto(v.path, n + 1) = Append(x, name)
  <2>1. n \in 0 .. n
    OBVIOUS
  <2>2. Upto(v.path, n) = x
    BY <1>6, <1>14, <1>16, <2>1
  <2>3. x \in Seq(Names)
    BY <1>2, <1>7, ShapedFacts
  <2> QED
    BY <1>15, <2>2, <2>3, UptoNext
<1>18. ASSUME NEW i \in 0 .. n + 1
       PROVE  Upto(v.path, i) \in DOMAIN at /\ at[Upto(v.path, i)] = v.clusters[i]
  <2>1. CASE i = n + 1
    BY <1>13, <1>15, <1>17, <2>1
  <2>2. CASE i # n + 1
    <3>1. i \in 0 .. n
      BY <2>2
    <3>2. Upto(w.path, i) \in DOMAIN at /\ at[Upto(w.path, i)] = w.clusters[i]
      BY <1>4, <1>14, <3>1 DEF Trails
    <3> QED
      BY <1>15, <1>16, <3>1, <3>2
  <2> QED
    BY <2>1, <2>2
<1> QED
  BY <1>15, <1>18 DEF Trails

(***************************************************************************)
(* cd: where it ends there is a folder, and one that fails leaves the user *)
(* where he was.                                                           *)
(***************************************************************************)
LEMMA CdTrail ==
  ASSUME NEW V, NEW at, Home(V, at), Scene(disk, fat, at), CursorInv, OnTrail(at),
         NEW path \in Seq(Names), DEPTH + Len(path) <= MaxDepth,
         NEW w, w = Walk(path)
  PROVE  /\ w.ok => Trails(at, w.path, w.clusters, w.depth)
         /\ Trails(at, w.path, w.clusters, DEPTH)
<1>0. disk \in Disks(V)
  BY DEF Home, Settled
<1>1. PICK n \in Nat : n = Len(path)
  OBVIOUS
<1>2. PICK f : Walk(path) = f[n] /\ Entering(f, path)
  BY <1>1, WalkFacts
<1>3. DEPTH \in Nat /\ MaxDepth \in Nat /\ DEPTH + n <= MaxDepth
  BY <1>1, DepthAssumption DEF CursorInv, Depths
<1> DEFINE Q(k) == /\ OnTheWay(f[k], k)
                   /\ f[k].ok => Trails(at, f[k].path, f[k].clusters, f[k].depth)
           S == {k \in 0 .. n : Q(k)}
<1>4. 0 \in S
  <2>1. f[0] = Start
    BY <1>2 DEF Entering
  <2>2. OnTheWay(f[0], 0)
    BY <2>1, StartOnTheWay
  <2>3. Trails(at, f[0].path, f[0].clusters, f[0].depth)
    BY <2>1 DEF Start, OnTrail
  <2> QED
    BY <2>2, <2>3
<1>5. ASSUME NEW k \in 0 .. n, k < n, k \in S
      PROVE  k + 1 \in S
  <2>1. k + 1 \in 1 .. n /\ k + 1 - 1 = k /\ k + 1 \in 0 .. n /\ k \in Nat
    BY <1>5
  <2>2. f[k + 1] = EnterFolder(f[k], path[k + 1])
    BY <2>1, <1>1, <1>2 DEF Entering
  <2>3. path[k + 1] \in Names
    BY <2>1, <1>1
  <2>4. OnTheWay(f[k], k) /\ (f[k].ok => Trails(at, f[k].path, f[k].clusters, f[k].depth))
    BY <1>5
  <2>5. DEPTH + k + 1 <= MaxDepth
    BY <2>1, <1>3
  <2>6. OnTheWay(f[k + 1], k + 1)
    BY <1>0, <2>1, <2>2, <2>3, <2>4, <2>5, EnterOnTheWay
  <2>7. ASSUME f[k + 1].ok
        PROVE  Trails(at, f[k + 1].path, f[k + 1].clusters, f[k + 1].depth)
    <3>1. PICK u, v : u = f[k] /\ v = f[k + 1]
      OBVIOUS
    <3>2. OnTheWay(u, k) /\ (u.ok => Trails(at, u.path, u.clusters, u.depth))
          /\ v = EnterFolder(u, path[k + 1]) /\ v.ok
      BY <2>2, <2>4, <2>7, <3>1
    <3>3. Trails(at, v.path, v.clusters, v.depth)
      BY <2>1, <2>3, <2>5, <3>2, EnterTrail
    <3> QED
      BY <3>1, <3>3
  <2> QED
    BY <2>1, <2>6, <2>7
<1>6. n \in S
  <2> HIDE DEF S
  <2>1. n \in 0 .. n
    OBVIOUS
  <2> QED
    BY <1>4, <1>5, <2>1, CountingUp
<1>7. OnTheWay(w, n) /\ (w.ok => Trails(at, w.path, w.clusters, w.depth))
  BY <1>2, <1>6
<1>8. \A i \in 0 .. DEPTH : w.path[i] = DIR_PATH[i] /\ w.clusters[i] = DIR_CLUSTERS[i]
  BY <1>7 DEF OnTheWay
<1>9. ASSUME NEW i \in 0 .. DEPTH
      PROVE  Upto(w.path, i) \in DOMAIN at /\ at[Upto(w.path, i)] = w.clusters[i]
  <2>1. \A h \in 1 .. i : w.path[h] = DIR_PATH[h]
    BY <1>3, <1>8
  <2>2. Upto(w.path, i) = Upto(DIR_PATH, i)
    BY <2>1 DEF Upto
  <2> QED
    BY <1>8, <2>2 DEF OnTrail, Trails
<1> QED
  BY <1>7, <1>9 DEF Trails

\* cd leads down the path it names, or nowhere.
LEMMA CdSession ==
  ASSUME ShellInv, SessionInv, Ready, steady, NEW path \in Paths, cd(path)
  PROVE  SessionInv'
<1>1. PICK V, a : Working(V, a) /\ FinalDisk = disk
  BY AtWork
<1>2. CursorInv /\ Settled(V)
  BY <1>1 DEF ShellInv, Working, Home
<1>3. path \in Seq(Names) /\ DEPTH + Len(path) <= MaxDepth
  BY PathsAssumption DEF cd
<1>4. PICK w : w = Walk(path)
  OBVIOUS
<1>5. /\ DIR_PATH' = w.path /\ DIR_CLUSTERS' = w.clusters
      /\ IF w.ok THEN DEPTH' = w.depth ELSE DEPTH' = DEPTH
      /\ \E outcome : Tell(outcome)
  BY <1>4, Zenon DEF cd
<1>6. ASSUME NEW at, Scene(FinalDisk, fat, at), OnTrail(at)
      PROVE  OnTrail(at)'
  <2>1. Home(V, at) /\ Scene(disk, fat, at)
    BY <1>1, <1>2, <1>6 DEF Home, Scene
  <2>2. /\ w.ok => Trails(at, w.path, w.clusters, w.depth)
        /\ Trails(at, w.path, w.clusters, DEPTH)
    BY <1>2, <1>3, <1>4, <1>6, <2>1, CdTrail
  <2>3. Trails(at, DIR_PATH', DIR_CLUSTERS', DEPTH')
    BY <1>5, <2>2
  <2> QED
    BY <2>3 DEF OnTrail
<1> QED
  BY <1>5, <1>6, TellSession

-----------------------------------------------------------------------------
(* The commands that call the driver *)

\* The disk as it will be once the effect's writes are made
Left(e) == Written(disk, e.writes)

\* Afterwards there is a tree with the user in it, and nothing is changed but
\* what is at q.
Leaves(e, q, node) ==
  /\ \E big : Scene(Left(e), e.fat, big) /\ OnTrail(big)
  /\ \A r \in Paths : Node(Left(e), r) = IF r = q THEN node ELSE Node(disk, r)

(***************************************************************************)
(* What the driver brings to a path, or takes from it.                     *)
(***************************************************************************)
LEMMA CallScene ==
  ASSUME NEW V, NEW at, Home(V, at), Scene(disk, fat, at), NEW e, Mirrored(e, V),
         NEW q \in Paths, NEW node, node # Damaged, Brings(V, e, q, node),
         node = Absent \/ NewPath(disk, at, q)
  PROVE  /\ \E big : Scene(Left(e), e.fat, big) /\ (node # Absent => Within(at, big))
         /\ \A r \in Paths : Node(Left(e), r) = IF r = q THEN node ELSE Node(disk, r)
<1>1. /\ disk \in Disks(V) /\ fat \in FATs /\ disk[FAT_CLUSTER_NUMBER] = FATImage(fat)
      /\ e.fat \in FATs /\ e.writes \in Seq(Writes(V)) /\ FATArrives(disk, e.writes, e.fat)
  BY DEF Home, Settled, Mirrored
<1>2. PICK m : m = Left(e)
  OBVIOUS
<1>3. m \in Disks(V) /\ m[FAT_CLUSTER_NUMBER] = FATImage(e.fat)
  BY <1>1, <1>2, WrittenTyped DEF Left
<1>4. e.fat = AsFAT(m[FAT_CLUSTER_NUMBER]) /\ fat = AsFAT(disk[FAT_CLUSTER_NUMBER])
  BY <1>1, <1>3, Held
<1>5. Does(disk, e.writes, e.fat, q, node)
  BY DEF Brings
<1>6. \A r \in Paths : Node(m, r) = IF r = q THEN node ELSE Node(disk, r)
  BY <1>2, <1>5 DEF Does, Left
<1>7. Onto(disk, m, e.fat, q, node)
  BY <1>2, <1>5, <1>6 DEF Does, Left, Onto
<1>8. \E big : Scene(m, e.fat, big) /\ (node # Absent => Within(at, big))
  <2>1. Changed(V, disk, fat, at, m, e.fat, q, node)
    BY <1>1, <1>3, <1>4, <1>7 DEF Changed
  <2> QED
    BY <2>1, SceneFrom
<1> QED
  BY <1>2, <1>6, <1>8

(***************************************************************************)
(* A tree that grows keeps the way the user took.                          *)
(***************************************************************************)
LEMMA TrailWithin ==
  ASSUME NEW at, NEW big, Within(at, big), OnTrail(at)
  PROVE  OnTrail(big)
BY DEF Within, OnTrail, Trails

(***************************************************************************)
(* A refused call leaves the scene as it is.                               *)
(***************************************************************************)
LEMMA RefusedScene ==
  ASSUME NEW V, NEW at, Working(V, at), NEW ret, NEW e, e = Refused(ret)
  PROVE  /\ Left(e) = disk /\ e.ret = ret /\ e.writes = <<>>
         /\ \E big : Scene(Left(e), e.fat, big) /\ OnTrail(big)
<1>1. disk \in Disks(V) /\ Scene(disk, fat, at) /\ OnTrail(at)
  BY DEF Working, Home, Settled
<1>2. e.ret = ret /\ e.writes = <<>> /\ e.fat = fat
  BY DEF Refused, Effect
<1>3. Left(e) = disk
  BY <1>1, <1>2, NothingSteady DEF Left
<1> QED
  BY <1>1, <1>2, <1>3

(***************************************************************************)
(* A name that no entry of the folder has, not even its own, is new.       *)
(***************************************************************************)
LEMMA FreshIsNew ==
  ASSUME NEW V, NEW at, Working(V, at), CursorInv, NEW name \in Names,
         Fresh(name, CURRENT_DIR_CLUSTER_NUMBER)
  PROVE  NewPath(disk, at, Entry(name)) /\ Node(disk, Entry(name)) = Absent
<1>1. PICK q : q = Entry(name)
  OBVIOUS
<1>2. Home(V, at) /\ Sound(disk, fat, at) /\ disk \in Disks(V)
  BY DEF Working, Home, Settled
<1>3. /\ q \in Paths /\ Front(q) = Here /\ Last(q) = name /\ ParentOf(q) = at[Here]
      /\ at[Here] = CURRENT_DIR_CLUSTER_NUMBER /\ Here \in DOMAIN at
  BY <1>1, HereFacts
<1>4. Matches(AsTable(disk[at[Here]]), name) = {}
  BY <1>3 DEF Fresh
<1>5. Node(disk, q) = Absent
  <2>1. Listed(AsTable(disk[at[Here]]), name) = {} /\ DirectoryCluster(disk, Front(q)) = at[Here]
    BY <1>3, <1>4 DEF Listed, ParentOf
  <2> QED
    BY <1>3, <2>1 DEF Node
<1>6. q \notin DOMAIN at
  <2>1. fat = AsFAT(disk[FAT_CLUSTER_NUMBER])
    BY <1>2, Held DEF Home, Settled
  <2> QED
    BY <1>2, <1>3, <1>5, <2>1, FolderNodes, KindsDiffer
<1>7. name # AsTable(disk[at[Here]])[0].name
  <2>1. 0 \notin Matches(AsTable(disk[at[Here]]), name)
    BY <1>4
  <2> QED
    BY <2>1, SizeFacts DEF Matches
<1> QED
  BY <1>1, <1>3, <1>5, <1>6, <1>7 DEF NewPath

(***************************************************************************)
(* An effect after which something is different makes writes.              *)
(***************************************************************************)
LEMMA ChangeWrites ==
  ASSUME NEW V, disk \in Disks(V), NEW e, NEW q, Node(Left(e), q) # Node(disk, q)
  PROVE  e.writes # <<>>
<1> SUFFICES ASSUME e.writes = <<>>
             PROVE  FALSE
  OBVIOUS
<1>1. Left(e) = disk
  BY NothingSteady DEF Left
<1> QED
  BY <1>1

(***************************************************************************)
(* mkdir makes a folder where the user is.                                 *)
(***************************************************************************)
LEMMA MkdirLeaves ==
  ASSUME NEW V, NEW at, Working(V, at), CursorInv, NEW name \in Names, FreeClusters(fat) # {},
         Fresh(name, CURRENT_DIR_CLUSTER_NUMBER), HasRoom(CURRENT_DIR_CLUSTER_NUMBER),
         NEW e, e = IF CurrentDirectory.ret # 0 THEN Refused(-1)
                    ELSE FolderWritten(CURRENT_DIR_CLUSTER_NUMBER, name)
  PROVE  e.ret = 0 /\ e.writes # <<>> /\ Leaves(e, Entry(name), Folder)
<1>1. PICK q : q = Entry(name)
  OBVIOUS
<1>2. /\ Home(V, at) /\ Scene(disk, fat, at) /\ OnTrail(at) /\ disk \in Disks(V)
      /\ Sound(disk, fat, at) /\ fat \in FATs
  BY DEF Working, Home, Settled
<1>3. /\ q \in Paths /\ Front(q) = Here /\ Last(q) = name /\ IsDirectory(Front(q))
      /\ ParentOf(q) = at[Here] /\ at[Here] = CURRENT_DIR_CLUSTER_NUMBER
      /\ Here \in DOMAIN at /\ CurrentDirectory.ret = 0
  BY <1>1, HereFacts
<1>4. Cardinality(FreeClusters(fat)) >= 1
  <2>1. Cardinality(FreeClusters(fat)) # 0 /\ Cardinality(FreeClusters(fat)) \in Nat
    BY <1>2, FreeFacts, FS_EmptySet
  <2> QED
    BY <2>1
<1>5. CarefulWrite(q, 1)
  BY <1>3, <1>4 DEF CarefulWrite, Fresh
<1>6. UnusedPositions(AsTable(disk[ParentOf(q)])) # {}
  BY <1>3 DEF HasRoom
<1>7. e = FolderWritten(ParentOf(q), Last(q))
  BY <1>3
<1>8. e.ret = 0 /\ Brings(V, e, q, Folder)
  BY <1>2, <1>3, <1>5, <1>6, <1>7, FolderCall
<1>9. Mirrored(e, V)
  <2>1. CURRENT_DIR_CLUSTER_NUMBER \in OffFAT
    BY CursorFacts
  <2>2. Settled(V)
    BY <1>2 DEF Home
  <2> QED
    BY <1>3, <1>4, <1>7, <2>1, <2>2, FolderMirrored DEF Called
<1>10. NewPath(disk, at, q) /\ Node(disk, q) = Absent
  BY <1>1, FreshIsNew
<1>11. /\ \E big : Scene(Left(e), e.fat, big) /\ (Folder # Absent => Within(at, big))
       /\ \A r \in Paths : Node(Left(e), r) = IF r = q THEN Folder ELSE Node(disk, r)
  BY <1>2, <1>3, <1>8, <1>9, <1>10, KindsDiffer, CallScene
<1>12. \E big : Scene(Left(e), e.fat, big) /\ OnTrail(big)
  BY <1>2, <1>11, KindsDiffer, TrailWithin
<1>13. e.writes # <<>>
  BY <1>2, <1>3, <1>10, <1>11, KindsDiffer, ChangeWrites
<1> QED
  BY <1>1, <1>8, <1>11, <1>12, <1>13 DEF Leaves

(***************************************************************************)
(* In the root directory a user is in any tree, and works on that          *)
(* directory.                                                              *)
(***************************************************************************)
LEMMA AtTop ==
  ASSUME NEW V, NEW at, Working(V, at), CursorInv, DEPTH = 0
  PROVE  /\ \A d, map, big : Sound(d, map, big) => OnTrail(big)
         /\ Here = <<>> /\ <<>> \in DOMAIN at /\ at[<<>>] = ROOT_CLUSTER_NUMBER
         /\ CURRENT_DIR_CLUSTER_NUMBER = ROOT_CLUSTER_NUMBER
         /\ CURRENT_DIR_PARENT_CLUSTER_NUMBER = ROOT_CLUSTER_NUMBER
         /\ CurrentDirectory = [ret |-> 0, data |-> disk[ROOT_CLUSTER_NUMBER]]
         /\ AsTable(disk[ROOT_CLUSTER_NUMBER])[0].name = Root
         /\ \A name \in Names : NotItself(Entry(name)) /\ Entry(name) = <<name>>
<1>1. /\ CursorInv /\ Here \in DOMAIN at /\ Here = <<>>
      /\ CurrentDirectory = [ret |-> 0, data |-> disk[at[Here]]]
      /\ \A name \in Names : Last(Entry(name)) = name /\ ParentOf(Entry(name)) = at[Here]
  BY HereFacts
<1>2. Shaped(at, Listing(disk, at)) /\ RootRow(disk)
  BY SoundTree DEF Working, Scene
<1>3. at[<<>>] = ROOT_CLUSTER_NUMBER /\ <<>> \in DOMAIN at
  BY <1>2 DEF Shaped
<1>4. /\ DIR_CLUSTERS[0] = ROOT_CLUSTER_NUMBER
      /\ CURRENT_DIR_CLUSTER_NUMBER = ROOT_CLUSTER_NUMBER
      /\ CURRENT_DIR_PARENT_CLUSTER_NUMBER = ROOT_CLUSTER_NUMBER
  BY DEF CursorInv, CursorConsistent
<1>5. AsTable(disk[ROOT_CLUSTER_NUMBER])[0].name = Root
  BY <1>2 DEF RootRow, UsedEntry
<1>6. ASSUME NEW d, NEW map, NEW big, Sound(d, map, big)
      PROVE  OnTrail(big)
  <2>1. <<>> \in DOMAIN big /\ big[<<>>] = ROOT_CLUSTER_NUMBER
    BY <1>6, SoundTree DEF Shaped
  <2>2. ASSUME NEW k \in 0 .. DEPTH
        PROVE  Upto(DIR_PATH, k) \in DOMAIN big /\ big[Upto(DIR_PATH, k)] = DIR_CLUSTERS[k]
    <3>1. k = 0
      BY <2>2
    <3>2. Upto(DIR_PATH, k) = <<>>
      BY <3>1, UptoFacts
    <3> QED
      BY <1>4, <2>1, <3>1, <3>2
  <2> QED
    BY <2>2 DEF OnTrail, Trails
<1>7. ASSUME NEW name \in Names
      PROVE  NotItself(Entry(name)) /\ Entry(name) = <<name>>
  <2>1. name # Root
    BY NamesAssumption DEF Root
  <2>2. NotItself(Entry(name))
    BY <1>1, <1>3, <1>5, <2>1 DEF NotItself
  <2>3. Entry(name) = Append(<<>>, name)
    BY <1>1 DEF Entry
  <2>4. Append(<<>>, name) = <<name>>
    OBVIOUS
  <2> QED
    BY <2>2, <2>3, <2>4
<1> QED
  BY <1>1, <1>3, <1>4, <1>5, <1>6, <1>7

(***************************************************************************)
(* rm in the root directory deletes what has the name there, or finds      *)
(* nothing.                                                                *)
(***************************************************************************)
LEMMA RmLeaves ==
  ASSUME NEW V, NEW at, Working(V, at), CursorInv, DEPTH = 0, NEW name \in Names,
         ~Populated(Entry(name)),
         NEW e, e = IF CurrentDirectory.ret # 0 THEN Refused(-1)
                    ELSE IF Matches(AsTable(CurrentDirectory.data), name) = {} THEN Refused(1)
                    ELSE Deleted(CURRENT_DIR_PARENT_CLUSTER_NUMBER, name)
  PROVE  \/ e = Refused(1) /\ Node(disk, Entry(name)) = Absent
         \/ e.ret = 0 /\ e.writes # <<>> /\ Leaves(e, Entry(name), Absent)
<1>1. PICK q : q = Entry(name)
  OBVIOUS
<1>2. /\ Home(V, at) /\ Scene(disk, fat, at) /\ disk \in Disks(V) /\ Settled(V)
  BY DEF Working, Home, Settled
<1>3. /\ q \in Paths /\ Front(q) = Here /\ Last(q) = name /\ IsDirectory(Front(q))
      /\ ParentOf(q) = at[Here]
  BY <1>1, HereFacts
<1>4. /\ at[Here] = ROOT_CLUSTER_NUMBER /\ NotItself(q)
      /\ CURRENT_DIR_PARENT_CLUSTER_NUMBER = ROOT_CLUSTER_NUMBER
      /\ CurrentDirectory = [ret |-> 0, data |-> disk[ROOT_CLUSTER_NUMBER]]
  BY <1>1, AtTop
<1>5. PICK found : found = Matches(AsTable(disk[ROOT_CLUSTER_NUMBER]), name)
  OBVIOUS
<1>6. e = IF found = {} THEN Refused(1) ELSE Deleted(ROOT_CLUSTER_NUMBER, name)
  BY <1>4, <1>5
<1>7. CASE found = {}
  <2>1. Listed(AsTable(disk[ROOT_CLUSTER_NUMBER]), name) = {}
    BY <1>5, <1>7 DEF Listed
  <2>2. Node(disk, q) = Absent
    BY <1>3, <1>4, <2>1 DEF Node, ParentOf
  <2> QED
    BY <1>1, <1>6, <1>7, <2>2
<1>8. CASE found # {}
  <2>1. e = Deleted(ParentOf(q), Last(q))
    BY <1>3, <1>4, <1>6, <1>8
  <2>2. e.ret = 0
    <3>1. \E map, w : e = Effect(0, map, w)
      BY <1>3, <1>4, <1>5, <1>8, <2>1, ZenonT(60) DEF Deleted
    <3> QED
      BY <3>1 DEF Effect
  <2>3. Node(disk, q) # Absent /\ Brings(V, e, q, Absent)
    BY <1>1, <1>2, <1>3, <1>4, <2>1, <2>2, DeleteCall
  <2>4. Mirrored(e, V)
    <3>1. ROOT_CLUSTER_NUMBER \in OffFAT
      BY EmptyTyped
    <3> QED
      BY <1>2, <1>3, <1>4, <2>1, <3>1, DeletedMirrored
  <2>5. /\ \E big : Scene(Left(e), e.fat, big) /\ (Absent # Absent => Within(at, big))
        /\ \A r \in Paths : Node(Left(e), r) = IF r = q THEN Absent ELSE Node(disk, r)
    BY <1>2, <1>3, <2>3, <2>4, KindsDiffer, CallScene
  <2>6. \E big : Scene(Left(e), e.fat, big) /\ OnTrail(big)
    BY <2>5, AtTop DEF Scene
  <2>7. e.writes # <<>>
    BY <1>2, <1>3, <2>3, <2>5, ChangeWrites
  <2> QED
    BY <1>1, <2>2, <2>5, <2>6, <2>7 DEF Leaves
<1> QED
  BY <1>7, <1>8

(***************************************************************************)
(* What is on the stack and no other entry's is in the root directory only *)
(* if it is the name that was typed.                                       *)
(***************************************************************************)
LEMMA OnlyTheName ==
  ASSUME NEW bytes, NEW name, NoOther(bytes, name, ROOT_CLUSTER_NUMBER),
         Matches(AsTable(disk[ROOT_CLUSTER_NUMBER]), bytes) # {}
  PROVE  bytes = name
BY DEF NoOther, Fresh

(***************************************************************************)
(* In the root directory a name's entry is the tree's entry for it.        *)
(***************************************************************************)
LEMMA FoundAtTop ==
  ASSUME NEW V, NEW at, Working(V, at), CursorInv, DEPTH = 0, NEW name \in Names,
         NEW table, table = AsTable(disk[ROOT_CLUSTER_NUMBER]),
         Matches(table, name) # {}, NEW j, j = Min(Matches(table, name))
  PROVE  /\ Leads(Listing(disk, at), <<>>, j, <<name>>) /\ j \in Rows
         /\ table \in Tables /\ table[j] = Listing(disk, at)[<<>>][j]
         /\ table[j] \in Entries /\ table[j].name = name
         /\ Node(disk, <<name>>) = NodeOfEntry(disk, table[j]) /\ <<name>> \in Paths
<1> DEFINE L == Listing(disk, at)
<1>1. /\ disk \in Disks(V) /\ Scene(disk, fat, at) /\ TreeOn(disk, at)
      /\ Sound(disk, fat, at)
  BY SoundTree DEF Working, Home, Settled, Scene
<1>2. /\ <<>> \in DOMAIN at /\ at[<<>>] = ROOT_CLUSTER_NUMBER /\ table[0].name = Root
      /\ Entry(name) = <<name>> /\ Here = <<>>
  BY AtTop
<1>3. <<name>> \in Paths /\ Append(<<>>, name) = <<name>>
  BY <1>2, HereFacts
<1>4. \A k \in Matches(table, name) : k # 0
  BY <1>2, NamesAssumption DEF Matches, Root
<1>5. table = AsTable(disk[at[<<>>]])
  BY <1>2
<1>6. PICK k : Leads(L, <<>>, k, Append(<<>>, name))
  <2>1. (\A k : ~Leads(L, <<>>, k, Append(<<>>, name))) => \A k \in Matches(table, name) : k = 0
    <3> HIDE DEF L
    <3> QED
      BY <1>1, <1>2, <1>5, LookupIn, ZenonT(60) DEF L
  <2> QED
    BY <1>4, <2>1
<1>7. k = j /\ k \in Rows /\ table[k] = L[<<>>][k] /\ table \in Tables
  <2>1. PICK x : x = <<>>
    OBVIOUS
  <2>2. /\ disk \in Disks(V) /\ Scene(disk, fat, at) /\ x \in DOMAIN at
        /\ table = AsTable(disk[at[x]]) /\ Leads(L, x, k, Append(x, name))
    BY <1>1, <1>2, <1>5, <1>6, <2>1
  <2> HIDE DEF L
  <2>3. /\ table \in Tables /\ Min(Matches(table, name)) = k /\ k \in Rows
        /\ table[k] = L[x][k]
    BY <2>2, LookupIn DEF L
  <2> QED
    BY <2>1, <2>3
<1>8. Node(disk, <<name>>) = NodeOfEntry(disk, L[<<>>][k])
  <2> HIDE DEF L
  <2> QED
    BY <1>1, <1>3, <1>6, NodeFacts DEF L
<1>9. table[j] \in Entries /\ table[j].name = name
  <2>1. j \in Matches(table, name)
    <3>1. Matches(table, name) \subseteq Nat
      BY SizeFacts DEF Matches
    <3> QED
      BY <3>1, MinProperty
  <2> QED
    BY <1>7, <2>1 DEF Matches, Tables, PointingOff
<1> QED
  BY <1>3, <1>6, <1>7, <1>8, <1>9

(***************************************************************************)
(* A file that is not damaged has the version of its first cluster.        *)
(***************************************************************************)
LEMMA FileOfVersion ==
  ASSUME NEW V, NEW contents, NEW size, Len(contents) \in Nat \ {0},
         contents[1] \in HeldContents(V), FileOf(contents, size) # Damaged
  PROVE  FileOf(contents, size) = File(contents[1].version, size) /\ contents[1].version \in V
<1>1. /\ \A k \in 1 .. Len(contents) : contents[k].kind = "data"
      /\ FileOf(contents, size) = File(contents[1].version, size)
  BY DEF FileOf
<1>2. contents[1].kind = "data"
  BY <1>1
<1>3. PICK v \in V, k \in 1 .. CLUSTER_MAP_SIZE : contents[1] = Data(v, k)
  BY <1>2 DEF HeldContents, Blank, Signature, FATImage, Table
<1>4. contents[1].version = v
  BY <1>3, SMTT(30) DEF Data
<1> QED
  BY <1>1, <1>4

(***************************************************************************)
(* What is read of a file in the root directory.                           *)
(***************************************************************************)
LEMMA FileAtTop ==
  ASSUME NEW V, NEW at, Working(V, at), CursorInv, DEPTH = 0, NEW name \in Names,
         NEW table, table = AsTable(disk[ROOT_CLUSTER_NUMBER]),
         Matches(table, name) # {}, NEW j, j = Min(Matches(table, name)),
         NEW buffer_size, NEW file, file = FileRead(ROOT_CLUSTER_NUMBER, name, buffer_size),
         file.ret = 0
  PROVE  /\ table[j].filesize \in FileSizes
         /\ file.data[1].version \in V
         /\ Node(disk, <<name>>) = File(file.data[1].version, table[j].filesize)
<1>1. /\ Home(V, at) /\ disk \in Disks(V) /\ Whole(disk)
  BY DEF Working, Home, Settled, Scene
<1>2. table[j] \in Entries /\ <<name>> \in Paths /\ table[j].cluster \in Clusters
  BY FoundAtTop DEF Entries
<1>3. /\ <<name>> = Entry(name) /\ NotItself(<<name>>) /\ IsDirectory(Front(<<name>>))
      /\ ParentOf(<<name>>) = ROOT_CLUSTER_NUMBER /\ Last(<<name>>) = name
  BY AtTop, HereFacts
<1>4. PICK entry, chain, count :
        /\ entry = table[j] /\ chain = Chain(fat, entry.cluster)
        /\ count = Min({Len(chain), ReadableClusters(buffer_size)})
  OBVIOUS
<1>5. file = CASE Matches(table, name) = {} -> [ret |-> 3]
               [] Matches(table, name) # {} /\ entry.filesize = 0 -> [ret |-> 1]
               [] OTHER -> [ret |-> IF count = Len(chain) THEN 0 ELSE 2,
                            data |-> [k \in 1 .. count |-> disk[chain[k]]],
                            filesize |-> entry.filesize]
  BY <1>4, Zenon DEF FileRead
<1>6. /\ entry.filesize # 0 /\ count = Len(chain) /\ file.filesize = entry.filesize
      /\ file.data = [k \in 1 .. count |-> disk[chain[k]]]
  BY <1>5, SMTT(30)
<1>7. entry.filesize \in FileSizes
  BY <1>2, <1>4, <1>6 DEF Entries
<1>8. Len(chain) \in Nat \ {0} /\ chain[1] \in Clusters
  BY <1>2, <1>4, ChainTyped
<1>9. Len(file.data) \in Nat \ {0} /\ file.data[1] \in HeldContents(V)
  BY <1>1, <1>6, <1>8 DEF Disks
<1>10. FileOf(file.data, file.filesize) = Node(disk, <<name>>)
  <2>1. PICK path : path = <<name>>
    OBVIOUS
  <2>2. /\ path \in Paths /\ IsDirectory(Front(path)) /\ NotItself(path)
        /\ file = FileRead(ParentOf(path), Last(path), buffer_size) /\ file.ret = 0
    BY <1>2, <1>3, <2>1
  <2>3. FileOf(file.data, file.filesize) = Node(disk, path)
    BY <1>1, <2>2, FileReadGives
  <2> QED
    BY <2>1, <2>3
<1>11. FileOf(file.data, file.filesize) # Damaged
  BY <1>1, <1>2, <1>10 DEF Whole
<1>12. /\ FileOf(file.data, file.filesize) = File(file.data[1].version, file.filesize)
       /\ file.data[1].version \in V
  BY <1>9, <1>11, FileOfVersion
<1> QED
  BY <1>4, <1>6, <1>7, <1>10, <1>12, ZenonT(60)

(***************************************************************************)
(* cp in the root directory makes a file with the content of the other,    *)
(* or nothing.                                                             *)
(***************************************************************************)
LEMMA CpLeaves ==
  ASSUME NEW V, NEW at, Working(V, at), CursorInv, DEPTH = 0,
         NEW source \in Names, NEW dest \in Names, NEW s, NEW d,
         NoOther(s, source, CURRENT_DIR_CLUSTER_NUMBER),
         \A size \in FileSizes : Cardinality(FreeClusters(fat)) >= ClusterNeed(size),
         Fresh(dest, CURRENT_DIR_CLUSTER_NUMBER),
         NEW e, e = CopyEffect(s, d), e.ret = 0 => d = dest
  PROVE  \/ \E ret : e = Refused(ret) /\ e.ret # 0
         \/ e.ret = 0 /\ e.writes # <<>> /\ Leaves(e, Entry(dest), Node(disk, Entry(source)))
<1>1. /\ Home(V, at) /\ Scene(disk, fat, at) /\ disk \in Disks(V) /\ Settled(V)
  BY DEF Working, Home, Settled
<1>2. /\ CURRENT_DIR_CLUSTER_NUMBER = ROOT_CLUSTER_NUMBER
      /\ CURRENT_DIR_PARENT_CLUSTER_NUMBER = ROOT_CLUSTER_NUMBER
      /\ CurrentDirectory.ret = 0 /\ CurrentDirectory.data = disk[ROOT_CLUSTER_NUMBER]
      /\ Entry(source) = <<source>>
  BY AtTop
<1>3. PICK table, found, j, size, file, version :
        /\ table = AsTable(disk[ROOT_CLUSTER_NUMBER]) /\ found = Matches(table, s)
        /\ j = Min(found) /\ size = table[j].filesize
        /\ file = FileRead(ROOT_CLUSTER_NUMBER, s, CLUSTER_SIZE * ClusterNeed(size))
        /\ version = file.data[1].version
  OBVIOUS
<1>4. e = IF found = {} THEN Refused(1)
          ELSE IF file.ret # 0 THEN Refused(file.ret)
          ELSE IF size = 0 THEN FolderWritten(ROOT_CLUSTER_NUMBER, d)
          ELSE FileWritten(ROOT_CLUSTER_NUMBER, d, size, version)
  <2>1. e = IF CurrentDirectory.ret # 0 THEN Refused(-1)
            ELSE IF found = {} THEN Refused(1)
            ELSE IF file.ret # 0 THEN Refused(file.ret)
            ELSE IF size = 0 THEN FolderWritten(CURRENT_DIR_CLUSTER_NUMBER, d)
            ELSE FileWritten(CURRENT_DIR_CLUSTER_NUMBER, d, size, version)
    <3>1. e = CopyEffect(s, d)
      OBVIOUS
    <3> QED
      BY <1>2, <1>3, <3>1, Zenon DEF CopyEffect
  <2> QED
    BY <1>2, <2>1
<1>5. CASE found = {}
  BY <1>4, <1>5 DEF Refused, Effect
<1>6. CASE found # {} /\ file.ret # 0
  <2>1. PICK ret : ret = file.ret
    OBVIOUS
  <2>2. e = Refused(ret) /\ ret # 0
    BY <1>4, <1>6, <2>1
  <2>3. e.ret # 0
    BY <2>2 DEF Refused, Effect
  <2> QED
    BY <2>2, <2>3
<1>7. CASE found # {} /\ file.ret = 0
  <2>1. s = source
    BY <1>2, <1>3, <1>7, OnlyTheName
  <2>2. /\ size \in FileSizes /\ version \in V
        /\ Node(disk, Entry(source)) = File(version, size)
    <3>1. s \in Names
      BY <2>1, SMTT(30)
    <3>2. /\ table[j].filesize \in FileSizes /\ file.data[1].version \in V
          /\ Node(disk, <<s>>) = File(file.data[1].version, table[j].filesize)
      BY <1>3, <1>7, <3>1, FileAtTop
    <3> QED
      BY <1>2, <1>3, <2>1, <3>2, ZenonT(60)
  <2>3. e = FileWritten(ROOT_CLUSTER_NUMBER, d, size, version)
    BY <1>4, <1>7, <2>2, SizesAssumption
  <2>4. CASE e.ret # 0
    BY <2>3, <2>4, WrittenOrRefused
  <2>5. CASE e.ret = 0
    <3>1. PICK q : q = Entry(dest)
      OBVIOUS
    <3>2. /\ q \in Paths /\ Front(q) = Here /\ Last(q) = dest /\ IsDirectory(Front(q))
          /\ ParentOf(q) = ROOT_CLUSTER_NUMBER
      BY <1>2, <3>1, AtTop, HereFacts
    <3>3. e = FileWritten(ParentOf(q), Last(q), size, version)
      BY <2>3, <2>5, <3>2
    <3>4. CarefulWrite(q, ClusterNeed(size))
      BY <1>2, <2>2, <3>2 DEF CarefulWrite, Fresh
    <3>5. Brings(V, e, q, File(version, size))
      BY <1>1, <2>2, <2>5, <3>2, <3>3, <3>4, FileCall
    <3>6. Mirrored(e, V)
      <4>1. ROOT_CLUSTER_NUMBER \in OffFAT /\ dest \in Called
        BY EmptyTyped DEF Called
      <4>2. Cardinality(FreeClusters(fat)) >= ClusterNeed(size)
        BY <2>2
      <4> QED
        BY <1>1, <2>2, <3>2, <3>3, <4>1, <4>2, FileMirrored
    <3>7. NewPath(disk, at, q) /\ Node(disk, q) = Absent
      BY <3>1, FreshIsNew
    <3>8. PICK node : node = File(version, size)
      OBVIOUS
    <3>9. node # Absent /\ node # Damaged
      BY <3>8, KindsDiffer
    <3>10. /\ \E big : Scene(Left(e), e.fat, big) /\ (node # Absent => Within(at, big))
           /\ \A r \in Paths : Node(Left(e), r) = IF r = q THEN node ELSE Node(disk, r)
      BY <1>1, <3>2, <3>5, <3>6, <3>7, <3>8, <3>9, CallScene
    <3>11. \E big : Scene(Left(e), e.fat, big) /\ OnTrail(big)
      BY <3>10, AtTop DEF Scene
    <3>12. e.writes # <<>>
      BY <1>1, <3>2, <3>7, <3>9, <3>10, ChangeWrites
    <3> QED
      BY <2>2, <2>5, <3>1, <3>8, <3>10, <3>11, <3>12 DEF Leaves
  <2> QED
    BY <2>4, <2>5
<1> QED
  BY <1>5, <1>6, <1>7

-----------------------------------------------------------------------------
(* mv of a name in the root directory *)

\* The names a and b exchanged, in paths that begin with one of them.
SwapName(a, b, n) == IF n = a THEN b ELSE IF n = b THEN a ELSE n
Swap(a, b, p) == [i \in DOMAIN p |-> IF i = 1 THEN SwapName(a, b, p[1]) ELSE p[i]]

\* Exchanging twice is no exchange.
LEMMA SwapFacts ==
  ASSUME NEW a \in Names, NEW b \in Names, NEW p \in Seq(Names), NEW q, q = Swap(a, b, p)
  PROVE  /\ q \in Seq(Names) /\ Len(q) = Len(p) /\ Swap(a, b, q) = p
         /\ p = <<>> <=> q = <<>>
         /\ p \in Paths <=> q \in Paths
<1>1. PICK n \in Nat : n = Len(p) /\ DOMAIN p = 1 .. n
  OBVIOUS
<1>2. q = Swap(a, b, p)
  OBVIOUS
<1>3. /\ q = [i \in 1 .. n |-> q[i]] /\ DOMAIN q = 1 .. n
      /\ \A i \in 1 .. n : q[i] = IF i = 1 THEN SwapName(a, b, p[1]) ELSE p[i]
  BY <1>1, <1>2 DEF Swap
<1>4. \A i \in 1 .. n : p[i] \in Names
  BY <1>1, ElementOfSeq
<1>5. \A i \in 1 .. n : q[i] \in Names
  BY <1>3, <1>4 DEF SwapName
<1>6. q \in Seq(Names) /\ Len(q) = n
  BY <1>1, <1>3, <1>5, IsASeq
<1>7. Swap(a, b, q) = p
  <2>1. p = [i \in 1 .. n |-> p[i]]
    BY <1>1
  <2>2. \A i \in 1 .. n : p[i] = IF i = 1 THEN SwapName(a, b, q[1]) ELSE q[i]
    BY <1>3 DEF SwapName
  <2>3. Swap(a, b, q) = [i \in 1 .. n |-> IF i = 1 THEN SwapName(a, b, q[1]) ELSE q[i]]
    BY <1>3 DEF Swap
  <2> QED
    BY <2>1, <2>2, <2>3
<1>8. p = <<>> <=> q = <<>>
  <2>1. p = <<>> <=> n = 0
    BY <1>1, EmptySeq
  <2>2. q = <<>> <=> n = 0
    BY <1>6, EmptySeq
  <2> QED
    BY <2>1, <2>2
<1>9. p \in Paths <=> q \in Paths
  BY <1>1, <1>6, PathsAre
<1> QED
  BY <1>1, <1>2, <1>3, <1>6, <1>7, <1>8, <1>9

(***************************************************************************)
(* Only the first name of a path is exchanged.                             *)
(***************************************************************************)
LEMMA SwapAppend ==
  ASSUME NEW a \in Names, NEW b \in Names, NEW p \in Seq(Names), NEW name \in Names
  PROVE  /\ p # <<>> => Swap(a, b, Append(p, name)) = Append(Swap(a, b, p), name)
         /\ p = <<>> => Swap(a, b, Append(p, name)) = Append(p, SwapName(a, b, name))
<1>1. PICK q, r, n : q = Swap(a, b, p) /\ r = Append(p, name) /\ n = Len(p)
  OBVIOUS
<1>2. /\ n \in Nat /\ q \in Seq(Names) /\ Len(q) = n
      /\ \A i \in 1 .. n : q[i] = IF i = 1 THEN SwapName(a, b, p[1]) ELSE p[i]
  <2>1. q = Swap(a, b, p)
    BY <1>1
  <2>2. q \in Seq(Names) /\ Len(q) = Len(p)
    BY <2>1, SwapFacts
  <2>3. ASSUME NEW i \in 1 .. Len(p)
        PROVE  q[i] = IF i = 1 THEN SwapName(a, b, p[1]) ELSE p[i]
    BY <2>1 DEF Swap
  <2> QED
    BY <1>1, <2>2, <2>3
<1>3. /\ r \in Seq(Names) /\ Len(r) = n + 1 /\ r[n + 1] = name
      /\ \A i \in 1 .. n : r[i] = p[i]
  BY <1>1, <1>2, AppendProperties
<1>4. PICK s : s = Swap(a, b, r)
  OBVIOUS
<1>5. /\ s \in Seq(Names) /\ Len(s) = n + 1
      /\ \A i \in 1 .. n + 1 : s[i] = IF i = 1 THEN SwapName(a, b, r[1]) ELSE r[i]
  <2>1. s \in Seq(Names) /\ Len(s) = Len(r)
    BY <1>3, <1>4, SwapFacts
  <2>2. ASSUME NEW i \in 1 .. n + 1
        PROVE  s[i] = IF i = 1 THEN SwapName(a, b, r[1]) ELSE r[i]
    BY <1>3, <1>4 DEF Swap
  <2> QED
    BY <1>3, <2>1, <2>2
<1>6. s = [i \in 1 .. n + 1 |-> s[i]]
  BY <1>5
<1>7. ASSUME p # <<>>
      PROVE  s = Append(q, name)
  <2>1. n > 0
    BY <1>1, <1>2, <1>7, EmptySeq
  <2>2. PICK t : t = Append(q, name)
    OBVIOUS
  <2>3. /\ t \in Seq(Names) /\ Len(t) = n + 1 /\ t[n + 1] = name
        /\ \A i \in 1 .. n : t[i] = q[i]
    BY <1>2, <2>2, AppendProperties
  <2>4. t = [i \in 1 .. n + 1 |-> t[i]]
    BY <2>3
  <2>5. \A i \in 1 .. n + 1 : s[i] = t[i]
    BY <1>2, <1>3, <1>5, <2>1, <2>3
  <2> QED
    BY <1>6, <2>2, <2>4, <2>5
<1>8. ASSUME p = <<>>
      PROVE  s = Append(p, SwapName(a, b, name))
  <2>1. n = 0
    BY <1>1, <1>8
  <2>2. s[1] = SwapName(a, b, name)
    BY <1>2, <1>3, <1>5, <2>1
  <2>3. s = [i \in 1 .. 1 |-> SwapName(a, b, name)]
    BY <1>6, <2>1, <2>2
  <2>4. Append(p, SwapName(a, b, name)) = <<SwapName(a, b, name)>>
    BY <1>8
  <2> QED
    BY <2>3, <2>4
<1> QED
  BY <1>1, <1>4, <1>7, <1>8

\* Entry j of the root directory, called a, is called b on disk m; the folders
\* below it go with it.
Renaming(V, d, map, at, j, a, b, m, new) ==
  /\ d \in Disks(V) /\ m \in Disks(V) /\ map = AsFAT(d[FAT_CLUSTER_NUMBER]) /\ Scene(d, map, at)
  /\ a \in Names /\ b \in Names /\ Leads(Listing(d, at), <<>>, j, <<a>>)
  /\ Matches(AsTable(d[ROOT_CLUSTER_NUMBER]), b) = {}
  /\ m[ROOT_CLUSTER_NUMBER] = Table([AsTable(d[ROOT_CLUSTER_NUMBER]) EXCEPT ![j].name = b])
  /\ \A c \in Clusters : c = ROOT_CLUSTER_NUMBER \/ m[c] = d[c]
  /\ new = [p \in {Swap(a, b, y) : y \in DOMAIN at} |-> at[Swap(a, b, p)]]

(***************************************************************************)
(* The folders' rows on the two disks.                                     *)
(***************************************************************************)
LEMMA RenamedRows ==
  ASSUME NEW V, NEW d, NEW map, NEW at, NEW j, NEW a, NEW b, NEW m, NEW new,
         Renaming(V, d, map, at, j, a, b, m, new),
         NEW L, L = Listing(d, at), NEW B, B = Listing(m, new)
  PROVE  /\ \A y \in DOMAIN at : y \in Seq(Names) /\ Swap(a, b, y) \in DOMAIN new
                                 /\ new[Swap(a, b, y)] = at[y]
         /\ \A x \in DOMAIN new : x \in Seq(Names) /\ Swap(a, b, x) \in DOMAIN at
                                  /\ new[x] = at[Swap(a, b, x)]
         /\ \A x \in DOMAIN new : B[x] \in [Rows -> PointingOff]
         /\ \A x \in DOMAIN new, r \in Rows :
              (x = <<>> /\ r = j) \/ B[x][r] = L[Swap(a, b, x)][r]
         /\ <<>> \in DOMAIN at /\ <<>> \in DOMAIN new /\ Swap(a, b, <<>>) = <<>>
         /\ j \in Rows /\ B[<<>>][j] = [L[<<>>][j] EXCEPT !.name = b] /\ L[<<>>][j].name = a
         /\ L[<<>>][j] \in PointingOff
         /\ \A x \in DOMAIN new :
              /\ m[new[x]].kind = "dir"
              /\ AsTable(m[new[x]])[0] = AsTable(d[new[x]])[0]
<1>1. /\ d \in Disks(V) /\ m \in Disks(V) /\ map = AsFAT(d[FAT_CLUSTER_NUMBER]) /\ Scene(d, map, at)
      /\ a \in Names /\ b \in Names /\ Leads(L, <<>>, j, <<a>>)
      /\ m[ROOT_CLUSTER_NUMBER] = Table([AsTable(d[ROOT_CLUSTER_NUMBER]) EXCEPT ![j].name = b])
      /\ \A c \in Clusters : c = ROOT_CLUSTER_NUMBER \/ m[c] = d[c]
      /\ new = [p \in {Swap(a, b, y) : y \in DOMAIN at} |-> at[Swap(a, b, p)]]
  BY DEF Renaming
<1>2. Shaped(at, L) /\ Allotted(map, L) /\ Seated(d, at, L)
  BY <1>1, SoundTree DEF Scene
<1>3. <<>> \in DOMAIN at /\ at[<<>>] = ROOT_CLUSTER_NUMBER /\ <<>> \in Seq(Names)
  BY <1>2 DEF Shaped
<1>4. \A y \in DOMAIN at : y \in Seq(Names) /\ at[y] \in OffFAT /\ at[y] \in Clusters
  BY <1>2, ShapedFacts, EmptyTyped
<1>5. ASSUME NEW y \in DOMAIN at
      PROVE  Swap(a, b, y) \in DOMAIN new /\ new[Swap(a, b, y)] = at[y]
  <2>1. PICK x : x = Swap(a, b, y)
    OBVIOUS
  <2>2. Swap(a, b, x) = y
    BY <1>1, <1>4, <2>1, SwapFacts
  <2> QED
    BY <1>1, <2>1, <2>2
<1>6. ASSUME NEW x \in DOMAIN new
      PROVE  /\ x \in Seq(Names) /\ Swap(a, b, x) \in DOMAIN at /\ new[x] = at[Swap(a, b, x)]
             /\ x = <<>> <=> Swap(a, b, x) = <<>>
  <2>1. PICK y \in DOMAIN at : x = Swap(a, b, y)
    BY <1>1
  <2>2. x \in Seq(Names) /\ Swap(a, b, x) = y
    BY <1>1, <1>4, <2>1, SwapFacts
  <2>3. y = <<>> <=> x = <<>>
    <3>1. a \in Names /\ b \in Names /\ y \in Seq(Names)
      BY <1>1, <1>4
    <3> QED
      BY <2>1, <3>1, SwapFacts, ZenonT(60)
  <2> QED
    BY <1>1, <2>1, <2>2, <2>3
<1>7. Swap(a, b, <<>>) = <<>> /\ <<>> \in DOMAIN new
  <2>1. PICK x : x = Swap(a, b, <<>>)
    OBVIOUS
  <2>2. x = <<>>
    BY <1>1, <1>3, <2>1, SwapFacts
  <2> QED
    BY <1>3, <1>5, <2>1, <2>2
<1>8. \A x \in DOMAIN new : new[x] \in Clusters /\ new[x] \in OffFAT
  BY <1>4, <1>6
<1>9. \A x \in DOMAIN new : /\ B[x] \in [Rows -> PointingOff]
                            /\ \A r \in Rows : B[x][r] = AsTable(m[new[x]])[r]
  <2>1. m \in Disks(V)
    BY <1>1
  <2> QED
    BY <1>8, <2>1, ListingTyped
<1>10. \A y \in DOMAIN at : /\ L[y] \in [Rows -> PointingOff]
                            /\ \A r \in Rows : L[y][r] = AsTable(d[at[y]])[r]
  BY <1>1, <1>4, ListingTyped
<1>11. j \in Rows /\ L[<<>>][j].name = a /\ L[<<>>][j] \in PointingOff /\ j # 0 /\ j \in Positions
  <2>1. j \in Rows
    BY <1>1 DEF Leads, Live
  <2>2. L[<<>>][j].name = Last(<<a>>) /\ L[<<>>][j] \in PointingOff
    BY <1>1, <1>2, ShapedFacts
  <2>3. Last(<<a>>) = a
    <3>1. <<a>> = Append(<<>>, a)
      OBVIOUS
    <3> QED
      BY <1>3, <3>1, AppendFacts
  <2> QED
    BY <2>1, <2>2, <2>3 DEF Rows
<1>12. PICK table : table = AsTable(d[ROOT_CLUSTER_NUMBER])
  OBVIOUS
<1>13. table \in Tables /\ AsTable(m[ROOT_CLUSTER_NUMBER]) = [table EXCEPT ![j].name = b]
  <2>1. table \in Tables
    BY <1>1, <1>2, <1>3, <1>12, ListingFacts
  <2> QED
    BY <1>1, <1>12, <2>1 DEF AsTable, Table
<1>14. ASSUME NEW x \in DOMAIN new, x # <<>>
       PROVE  m[new[x]] = d[new[x]]
  <2>1. Swap(a, b, x) # <<>> /\ Swap(a, b, x) \in DOMAIN at
    BY <1>6, <1>14
  <2>2. at[Swap(a, b, x)] # ROOT_CLUSTER_NUMBER
    BY <1>2, <1>3, <2>1, FoldersApart
  <2> QED
    BY <1>1, <1>6, <1>8, <2>2
<1>15. new[<<>>] = ROOT_CLUSTER_NUMBER
  BY <1>3, <1>6, <1>7
<1>16. ASSUME NEW x \in DOMAIN new, NEW r \in Rows
       PROVE  (x = <<>> /\ r = j) \/ B[x][r] = L[Swap(a, b, x)][r]
  <2>1. L[Swap(a, b, x)][r] = AsTable(d[new[x]])[r] /\ B[x][r] = AsTable(m[new[x]])[r]
    BY <1>6, <1>9, <1>10
  <2>2. CASE x # <<>>
    BY <1>14, <2>1, <2>2
  <2>3. CASE x = <<>> /\ r # j
    <3>1. r \in Positions
      BY DEF Rows
    <3>2. [table EXCEPT ![j].name = b][r] = table[r]
      BY <1>11, <1>13, <2>3, <3>1 DEF Tables
    <3> QED
      BY <1>12, <1>13, <1>15, <2>1, <2>3, <3>2
  <2> QED
    BY <2>2, <2>3
<1>17. B[<<>>][j] = [L[<<>>][j] EXCEPT !.name = b]
  <2>1. L[<<>>][j] = table[j] /\ B[<<>>][j] = AsTable(m[ROOT_CLUSTER_NUMBER])[j]
    BY <1>3, <1>7, <1>9, <1>10, <1>11, <1>12, <1>15
  <2>2. [table EXCEPT ![j].name = b][j] = [table[j] EXCEPT !.name = b]
    BY <1>11, <1>13 DEF Tables
  <2> QED
    BY <1>13, <2>1, <2>2
<1>18. ASSUME NEW x \in DOMAIN new
       PROVE  m[new[x]].kind = "dir" /\ AsTable(m[new[x]])[0] = AsTable(d[new[x]])[0]
  <2>1. CASE x # <<>>
    <3>1. d[at[Swap(a, b, x)]].kind = "dir"
      BY <1>2, <1>6 DEF Seated
    <3> QED
      BY <1>6, <1>14, <2>1, <3>1
  <2>2. CASE x = <<>>
    <3>1. [table EXCEPT ![j].name = b][0] = table[0]
      BY <1>11, <1>13, SizeFacts DEF Tables
    <3>2. m[ROOT_CLUSTER_NUMBER].kind = "dir"
      BY <1>1 DEF Table
    <3> QED
      BY <1>12, <1>13, <1>15, <2>2, <3>1, <3>2
  <2> QED
    BY <2>1, <2>2
<1> QED
  BY <1>3, <1>4, <1>5, <1>6, <1>7, <1>9, <1>11, <1>16, <1>17, <1>18

(***************************************************************************)
(* The entries lead where they led, with the names exchanged.              *)
(***************************************************************************)
LEMMA RenamedLeads ==
  ASSUME NEW V, NEW d, NEW map, NEW at, NEW j, NEW a, NEW b, NEW m, NEW new,
         Renaming(V, d, map, at, j, a, b, m, new),
         NEW L, L = Listing(d, at), NEW B, B = Listing(m, new)
  PROVE  /\ \A x, r, p : Leads(B, x, r, p) =>
              Leads(L, Swap(a, b, x), r, Swap(a, b, p)) /\ p \in Seq(Names)
         /\ \A y, r, q : Leads(L, y, r, q) => Leads(B, Swap(a, b, y), r, Swap(a, b, q))
         /\ \A x, r : Live(B, x, r) =>
              /\ Live(L, Swap(a, b, x), r) /\ x \in DOMAIN new /\ r \in Rows
              /\ B[x][r].cluster = L[Swap(a, b, x)][r].cluster
              /\ B[x][r].filesize = L[Swap(a, b, x)][r].filesize
              /\ B[x][r].attribute = L[Swap(a, b, x)][r].attribute
<1>1. /\ d \in Disks(V) /\ Scene(d, map, at) /\ a \in Names /\ b \in Names
      /\ Leads(L, <<>>, j, <<a>>) /\ Matches(AsTable(d[ROOT_CLUSTER_NUMBER]), b) = {}
  BY DEF Renaming
<1>2. Shaped(at, L)
  BY <1>1, SoundTree DEF Scene
<1>3. /\ \A y \in DOMAIN at : y \in Seq(Names) /\ Swap(a, b, y) \in DOMAIN new
      /\ \A x \in DOMAIN new : x \in Seq(Names) /\ Swap(a, b, x) \in DOMAIN at
      /\ \A x \in DOMAIN new, r \in Rows :
           (x = <<>> /\ r = j) \/ B[x][r] = L[Swap(a, b, x)][r]
      /\ <<>> \in DOMAIN at /\ <<>> \in DOMAIN new /\ Swap(a, b, <<>>) = <<>>
      /\ j \in Rows /\ B[<<>>][j] = [L[<<>>][j] EXCEPT !.name = b] /\ L[<<>>][j].name = a
      /\ L[<<>>][j] \in PointingOff
  BY RenamedRows
<1>4. DOMAIN L = DOMAIN at /\ DOMAIN B = DOMAIN new
  BY DEF Listing
<1>5. /\ B[<<>>][j].name = b /\ B[<<>>][j].cluster = L[<<>>][j].cluster
      /\ B[<<>>][j].filesize = L[<<>>][j].filesize /\ B[<<>>][j].attribute = L[<<>>][j].attribute
  BY <1>3 DEF PointingOff, Entries
<1>6. ASSUME NEW r, Live(L, <<>>, r), r # j
      PROVE  L[<<>>][r].name # a /\ L[<<>>][r].name # b
  <2>1. L[<<>>][r].name # a
    <3>1. Append(<<>>, a) = <<a>>
      OBVIOUS
    <3>2. L[<<>>][r].name = a => Leads(L, <<>>, r, <<a>>)
      BY <1>6, <3>1 DEF Leads
    <3> QED
      BY <1>1, <1>2, <1>6, <3>2 DEF Shaped
  <2>2. L[<<>>][r].name # b
    <3>1. r \in Rows /\ at[<<>>] = ROOT_CLUSTER_NUMBER
      BY <1>2, <1>6 DEF Live, Shaped
    <3>2. r \in Positions /\ L[<<>>][r] = AsTable(d[ROOT_CLUSTER_NUMBER])[r]
      BY <1>1, <1>2, <1>3, <3>1, ListingFacts
    <3> QED
      BY <1>1, <3>2 DEF Matches
  <2> QED
    BY <2>1, <2>2
<1>7. ASSUME NEW y, NEW r, Live(L, y, r)
      PROVE  /\ y \in DOMAIN at /\ r \in Rows /\ y \in Seq(Names) /\ L[y][r].name \in Names
             /\ Append(y, L[y][r].name) \in Seq(Names)
  <2>1. PICK q : q = Append(y, L[y][r].name) /\ Leads(L, y, r, q)
    BY <1>7 DEF Leads
  <2>2. q \in Paths /\ y \in DOMAIN at /\ r \in Rows /\ L[y][r].name = Last(q)
    BY <1>2, <2>1, ShapedFacts
  <2> QED
    BY <1>3, <2>1, <2>2, PathFacts
<1>8. a # NoName /\ b # NoName
  BY <1>1, NamesAssumption DEF NoName
\* the same row, and the path it leads to
<1>9. ASSUME NEW y, NEW r, Live(L, y, r), NEW x, x = Swap(a, b, y)
      PROVE  Live(B, x, r) /\ Append(x, B[x][r].name) = Swap(a, b, Append(y, L[y][r].name))
  <2>1. /\ y \in DOMAIN at /\ r \in Rows /\ y \in Seq(Names) /\ L[y][r].name \in Names
    BY <1>7, <1>9
  <2>2. x \in DOMAIN new /\ Swap(a, b, x) = y
    BY <1>1, <1>3, <1>9, <2>1, SwapFacts
  <2>3. y = <<>> <=> x = <<>>
    BY <1>1, <1>9, <2>1, SwapFacts
  <2>4. /\ y # <<>> => Swap(a, b, Append(y, L[y][r].name)) = Append(x, L[y][r].name)
        /\ y = <<>> => Swap(a, b, Append(y, L[y][r].name)) = Append(x, SwapName(a, b, L[y][r].name))
    <3>1. PICK name : name = L[y][r].name
      OBVIOUS
    <3>2. a \in Names /\ b \in Names /\ y \in Seq(Names) /\ name \in Names
      BY <1>1, <2>1, <3>1
    <3>3. y # <<>> => Swap(a, b, Append(y, name)) = Append(x, name)
      BY <1>9, <3>2, SwapAppend, ZenonT(60)
    <3>4. y = <<>> => Swap(a, b, Append(y, name)) = Append(y, SwapName(a, b, name))
      BY <3>2, SwapAppend, ZenonT(60)
    <3>5. y = <<>> => y = x
      BY <2>3
    <3> QED
      BY <3>1, <3>3, <3>4, <3>5
  <2>5. CASE y = <<>> /\ r = j
    <3>1. B[x][r].name = b /\ L[y][r].name = a
      BY <1>3, <1>5, <2>3, <2>5
    <3>2. SwapName(a, b, a) = b
      BY DEF SwapName
    <3> QED
      BY <1>4, <1>8, <2>1, <2>2, <2>4, <2>5, <3>1, <3>2 DEF Live
  <2>6. CASE ~(y = <<>> /\ r = j)
    <3>1. B[x][r] = L[y][r]
      BY <1>3, <2>1, <2>2, <2>3, <2>6, SMTT(30)
    <3>2. Live(B, x, r)
      BY <1>4, <1>9, <2>1, <2>2, <3>1 DEF Live
    <3>3. y = <<>> => SwapName(a, b, L[y][r].name) = L[y][r].name
      BY <1>6, <1>9, <2>6 DEF SwapName
    <3> QED
      BY <2>4, <3>1, <3>2, <3>3
  <2> QED
    BY <2>5, <2>6
<1>10. ASSUME NEW x, NEW r, Live(B, x, r)
       PROVE  /\ Live(L, Swap(a, b, x), r) /\ x \in DOMAIN new /\ r \in Rows
              /\ Swap(a, b, Swap(a, b, x)) = x
              /\ B[x][r].cluster = L[Swap(a, b, x)][r].cluster
              /\ B[x][r].filesize = L[Swap(a, b, x)][r].filesize
              /\ B[x][r].attribute = L[Swap(a, b, x)][r].attribute
  <2>1. x \in DOMAIN new /\ r \in Rows /\ B[x][r].name # NoName
    BY <1>4, <1>10 DEF Live
  <2>2. PICK y : y = Swap(a, b, x)
    OBVIOUS
  <2>3. y \in DOMAIN at /\ Swap(a, b, y) = x
    BY <1>1, <1>3, <2>1, <2>2, SwapFacts
  <2>4. CASE x = <<>> /\ r = j
    BY <1>3, <1>4, <1>5, <1>8, <2>1, <2>2, <2>3, <2>4 DEF Live
  <2>5. CASE ~(x = <<>> /\ r = j)
    BY <1>3, <1>4, <2>1, <2>2, <2>3, <2>5 DEF Live
  <2> QED
    BY <2>1, <2>2, <2>3, <2>4, <2>5
<1>11. ASSUME NEW y, NEW r, NEW q, Leads(L, y, r, q)
       PROVE  Leads(B, Swap(a, b, y), r, Swap(a, b, q))
  <2>1. Live(L, y, r) /\ q = Append(y, L[y][r].name)
    BY <1>11 DEF Leads
  <2> QED
    BY <1>9, <2>1 DEF Leads
<1>12. ASSUME NEW x, NEW r, NEW p, Leads(B, x, r, p)
       PROVE  Leads(L, Swap(a, b, x), r, Swap(a, b, p)) /\ p \in Seq(Names)
  <2>1. Live(B, x, r) /\ p = Append(x, B[x][r].name)
    BY <1>12 DEF Leads
  <2>2. PICK y, q : y = Swap(a, b, x) /\ q = Append(y, L[y][r].name)
    OBVIOUS
  <2>3. Live(L, y, r) /\ Swap(a, b, y) = x
    BY <1>10, <2>1, <2>2
  <2>4. p = Swap(a, b, q)
    BY <1>9, <2>1, <2>2, <2>3
  <2>5. q \in Seq(Names)
    BY <1>7, <2>2, <2>3
  <2>6. Swap(a, b, p) = q /\ p \in Seq(Names)
    BY <1>1, <2>4, <2>5, SwapFacts
  <2> QED
    BY <2>2, <2>3, <2>6 DEF Leads
<1> QED
  BY <1>10, <1>11, <1>12

(***************************************************************************)
(* Two entries that can be found do not share their first cluster.         *)
(***************************************************************************)
LEMMA EntriesApart ==
  ASSUME NEW at, NEW L, NEW map, Shaped(at, L), Allotted(map, L)
  PROVE  /\ \A x, j : Live(L, x, j) => L[x][j].cluster \in Clusters /\ L[x][j] \in PointingOff
         /\ \A x, j, y, k :
              Live(L, x, j) /\ Live(L, y, k) /\ L[x][j].cluster = L[y][k].cluster => x = y /\ j = k
<1>1. ASSUME NEW x, NEW j, Live(L, x, j)
      PROVE  L[x][j].cluster \in Clusters /\ L[x][j] \in PointingOff
  <2>1. L[x][j] \in PointingOff
    BY <1>1 DEF Live, Shaped
  <2> QED
    BY <2>1, EmptyTyped DEF PointingOff
<1>2. ASSUME NEW x, NEW j, NEW y, NEW k, Live(L, x, j), Live(L, y, k),
             L[x][j].cluster = L[y][k].cluster
      PROVE  x = y /\ j = k
  <2>1. L[x][j].cluster \in ToSet(Chain(map, L[x][j].cluster))
    BY <1>1, <1>2, ChainTyped
  <2>2. \/ x = y /\ j = k
        \/ ToSet(ChainOf(map, L, x, j)) \cap ToSet(ChainOf(map, L, y, k)) = {}
    BY <1>2 DEF Allotted
  <2> QED
    BY <1>2, <2>1, <2>2 DEF ChainOf
<1> QED
  BY <1>1, <1>2

\* The entries that can be found have the clusters and the sizes they had.
SameFiles(L, B) ==
  /\ \A x, j : Live(B, x, j) =>
       \E y, k : Live(L, y, k) /\ L[y][k].cluster = B[x][j].cluster
                               /\ L[y][k].filesize = B[x][j].filesize
  /\ \A y, k : Live(L, y, k) => \E x, j : Live(B, x, j) /\ L[y][k].cluster = B[x][j].cluster
  /\ \A x, j, y, k :
       Live(B, x, j) /\ Live(B, y, k) /\ B[x][j].cluster = B[y][k].cluster => x = y /\ j = k

(***************************************************************************)
(* Entries that only change their names or their places keep their chains. *)
(***************************************************************************)
LEMMA AllottedMoved ==
  ASSUME NEW map, NEW L, NEW B, Allotted(map, L), SameFiles(L, B)
  PROVE  Allotted(map, B)
<1>1. ASSUME NEW x, NEW j, Live(B, x, j)
      PROVE  \E y, k : /\ Live(L, y, k) /\ L[y][k].cluster = B[x][j].cluster
                       /\ ChainOf(map, L, y, k) = ChainOf(map, B, x, j)
                       /\ NeedOf(L[y][k]) = NeedOf(B[x][j])
  <2>1. PICK y, k : Live(L, y, k) /\ L[y][k].cluster = B[x][j].cluster
                    /\ L[y][k].filesize = B[x][j].filesize
    BY <1>1 DEF SameFiles
  <2> QED
    BY <2>1 DEF ChainOf, NeedOf
<1>2. ASSUME NEW x, NEW j, Live(B, x, j)
      PROVE  /\ Complete(map, ChainOf(map, B, x, j))
             /\ Len(ChainOf(map, B, x, j)) = NeedOf(B[x][j])
             /\ ToSet(ChainOf(map, B, x, j)) \cap {0, 1, 2} = {}
  <2>1. PICK y, k : /\ Live(L, y, k) /\ ChainOf(map, L, y, k) = ChainOf(map, B, x, j)
                    /\ NeedOf(L[y][k]) = NeedOf(B[x][j])
    BY <1>1, <1>2
  <2>2. /\ Complete(map, ChainOf(map, L, y, k))
        /\ Len(ChainOf(map, L, y, k)) = NeedOf(L[y][k])
        /\ ToSet(ChainOf(map, L, y, k)) \cap {0, 1, 2} = {}
    BY <2>1 DEF Allotted
  <2> QED
    BY <2>1, <2>2
<1>3. ASSUME NEW x, NEW j, NEW z, NEW i, Live(B, x, j), Live(B, z, i), ~(x = z /\ j = i)
      PROVE  ToSet(ChainOf(map, B, x, j)) \cap ToSet(ChainOf(map, B, z, i)) = {}
  <2>1. PICK y, k : /\ Live(L, y, k) /\ L[y][k].cluster = B[x][j].cluster
                    /\ ChainOf(map, L, y, k) = ChainOf(map, B, x, j)
    BY <1>1, <1>3
  <2>2. PICK w, l : /\ Live(L, w, l) /\ L[w][l].cluster = B[z][i].cluster
                    /\ ChainOf(map, L, w, l) = ChainOf(map, B, z, i)
    BY <1>1, <1>3
  <2>3. ~(y = w /\ k = l)
    BY <1>3, <2>1, <2>2 DEF SameFiles
  <2>4. ToSet(ChainOf(map, L, y, k)) \cap ToSet(ChainOf(map, L, w, l)) = {}
    BY <2>1, <2>2, <2>3 DEF Allotted
  <2> QED
    BY <2>1, <2>2, <2>4
<1>4. ASSUME NEW y, NEW k, Live(L, y, k)
      PROVE  \E x, j : Live(B, x, j) /\ ChainOf(map, B, x, j) = ChainOf(map, L, y, k)
  <2>1. PICK x, j : Live(B, x, j) /\ L[y][k].cluster = B[x][j].cluster
    BY <1>4 DEF SameFiles
  <2> QED
    BY <2>1 DEF ChainOf
<1>5. ASSUME NEW c \in Clusters
      PROVE  map[c] # FAT32_FAT_EMPTY_ENTRY <=>
               \/ c \in {0, 1, 2}
               \/ \E x, j : Live(B, x, j) /\ c \in ToSet(ChainOf(map, B, x, j))
  <2>1. map[c] # FAT32_FAT_EMPTY_ENTRY <=>
          \/ c \in {0, 1, 2}
          \/ \E y, k : Live(L, y, k) /\ c \in ToSet(ChainOf(map, L, y, k))
    BY DEF Allotted
  <2>2. ASSUME NEW x, NEW j, Live(B, x, j), c \in ToSet(ChainOf(map, B, x, j))
        PROVE  \E y, k : Live(L, y, k) /\ c \in ToSet(ChainOf(map, L, y, k))
    BY <1>1, <2>2
  <2>3. ASSUME NEW y, NEW k, Live(L, y, k), c \in ToSet(ChainOf(map, L, y, k))
        PROVE  \E x, j : Live(B, x, j) /\ c \in ToSet(ChainOf(map, B, x, j))
    BY <1>4, <2>3
  <2> QED
    BY <2>1, <2>2, <2>3
<1> QED
  BY <1>2, <1>3, <1>5 DEF Allotted

(***************************************************************************)
(* The renamed tree is a tree.                                             *)
(***************************************************************************)
LEMMA RenamedShape ==
  ASSUME NEW V, NEW d, NEW map, NEW at, NEW j, NEW a, NEW b, NEW m, NEW new,
         Renaming(V, d, map, at, j, a, b, m, new),
         NEW L, L = Listing(d, at), NEW B, B = Listing(m, new)
  PROVE  Shaped(new, B)
<1>1. a \in Names /\ b \in Names /\ Scene(d, map, at) /\ Leads(L, <<>>, j, <<a>>)
  BY DEF Renaming
<1>2. Shaped(at, L)
  BY <1>1, SoundTree DEF Scene
<1>3. /\ \A y \in DOMAIN at : y \in Seq(Names) /\ Swap(a, b, y) \in DOMAIN new
                              /\ new[Swap(a, b, y)] = at[y]
      /\ \A x \in DOMAIN new : x \in Seq(Names) /\ Swap(a, b, x) \in DOMAIN at
                               /\ new[x] = at[Swap(a, b, x)]
      /\ \A x \in DOMAIN new : B[x] \in [Rows -> PointingOff]
      /\ \A x \in DOMAIN new, r \in Rows :
           (x = <<>> /\ r = j) \/ B[x][r] = L[Swap(a, b, x)][r]
      /\ <<>> \in DOMAIN at /\ <<>> \in DOMAIN new /\ Swap(a, b, <<>>) = <<>>
      /\ j \in Rows /\ B[<<>>][j] = [L[<<>>][j] EXCEPT !.name = b] /\ L[<<>>][j] \in PointingOff
  BY RenamedRows
<1>4. /\ \A x, r, p : Leads(B, x, r, p) =>
           Leads(L, Swap(a, b, x), r, Swap(a, b, p)) /\ p \in Seq(Names)
      /\ \A y, r, q : Leads(L, y, r, q) => Leads(B, Swap(a, b, y), r, Swap(a, b, q))
      /\ \A x, r : Live(B, x, r) =>
           /\ Live(L, Swap(a, b, x), r) /\ x \in DOMAIN new /\ r \in Rows
           /\ B[x][r].cluster = L[Swap(a, b, x)][r].cluster
           /\ B[x][r].filesize = L[Swap(a, b, x)][r].filesize
  BY RenamedLeads
<1>5. ASSUME NEW x \in DOMAIN new
      PROVE  /\ x \in Paths \cup {<<>>} /\ new[x] \in OffFAT \ {0}
             /\ Swap(a, b, Swap(a, b, x)) = x /\ (Swap(a, b, x) = <<>> <=> x = <<>>)
  <2>1. PICK y : y = Swap(a, b, x)
    OBVIOUS
  <2>2. y \in DOMAIN at /\ x \in Seq(Names) /\ new[x] = at[y]
    BY <1>3, <2>1
  <2>3. Swap(a, b, y) = x /\ (y \in Paths <=> x \in Paths)
    BY <1>1, <2>1, <2>2, SwapFacts, SMTT(30)
  <2>4. y = <<>> <=> x = <<>>
    BY <1>1, <2>1, <2>2, SwapFacts, ZenonT(60)
  <2>5. y \in Paths \cup {<<>>} /\ at[y] \in OffFAT \ {0}
    BY <1>2, <2>2 DEF Shaped
  <2> QED
    BY <2>1, <2>2, <2>3, <2>4, <2>5
<1>6. DOMAIN B = DOMAIN new
  BY DEF Listing
<1>7. new[<<>>] = ROOT_CLUSTER_NUMBER
  BY <1>2, <1>3 DEF Shaped
<1>8. ASSUME NEW x \in DOMAIN new, NEW r \in Rows
      PROVE  Vacant(x, B[x][r]) \/ (B[x][r].used /\ B[x][r].name # NoName)
  <2>1. Vacant(Swap(a, b, x), L[Swap(a, b, x)][r])
          \/ (L[Swap(a, b, x)][r].used /\ L[Swap(a, b, x)][r].name # NoName)
    BY <1>2, <1>3 DEF Shaped
  <2>2. CASE x = <<>> /\ r = j
    <3>1. L[<<>>][j].name # NoName
      BY <1>1 DEF Leads, Live
    <3>2. L[<<>>][j].used
      BY <1>3, <2>1, <2>2, <3>1 DEF Vacant, EmptyEntry
    <3>3. B[<<>>][j].used /\ B[<<>>][j].name = b
      BY <1>3, <3>2 DEF PointingOff, Entries
    <3> QED
      BY <1>1, <2>2, <3>3, NamesAssumption DEF NoName
  <2>3. CASE ~(x = <<>> /\ r = j)
    <3>1. B[x][r] = L[Swap(a, b, x)][r]
      BY <1>3, <2>3
    <3>2. Swap(a, b, x) = <<>> <=> x = <<>>
      BY <1>5
    <3> QED
      BY <2>1, <3>1, <3>2 DEF Vacant
  <2> QED
    BY <2>2, <2>3
<1>9. ASSUME NEW x, NEW r, NEW p, Leads(B, x, r, p)
      PROVE  /\ p \in Paths /\ p \in Seq(Names) /\ Swap(a, b, Swap(a, b, p)) = p
             /\ B[x][r].filesize = 0 => p \in DOMAIN new /\ new[p] = B[x][r].cluster
  <2>1. Live(B, x, r)
    BY <1>9 DEF Leads
  <2>2. PICK q : q = Swap(a, b, p)
    OBVIOUS
  <2>3. Leads(L, Swap(a, b, x), r, q) /\ p \in Seq(Names)
    BY <1>4, <1>9, <2>2
  <2>4. Swap(a, b, q) = p /\ (p \in Paths <=> q \in Paths)
    BY <1>1, <2>2, <2>3, SwapFacts, SMTT(30)
  <2>5. q \in Paths
    BY <1>2, <2>3, ShapedFacts
  <2>6. ASSUME B[x][r].filesize = 0
        PROVE  p \in DOMAIN new /\ new[p] = B[x][r].cluster
    <3>1. PICK y : y = Swap(a, b, x)
      OBVIOUS
    <3>2. L[y][r].filesize = 0 /\ Live(L, y, r) /\ q = Append(y, L[y][r].name)
          /\ B[x][r].cluster = L[y][r].cluster
      BY <1>4, <2>1, <2>3, <2>6, <3>1 DEF Leads
    <3>3. q \in DOMAIN at /\ at[q] = L[y][r].cluster
      BY <1>2, <3>2 DEF Shaped
    <3> QED
      BY <1>3, <2>4, <3>2, <3>3
  <2> QED
    BY <2>2, <2>3, <2>4, <2>5, <2>6
<1>10. ASSUME NEW x, NEW r, NEW y, NEW k, NEW p, Leads(B, x, r, p), Leads(B, y, k, p)
       PROVE  x = y /\ r = k
  <2>1. Swap(a, b, x) = Swap(a, b, y) /\ r = k
    BY <1>2, <1>4, <1>10 DEF Shaped
  <2>2. x \in DOMAIN new /\ y \in DOMAIN new
    BY <1>4, <1>10 DEF Leads
  <2> QED
    BY <1>5, <2>1, <2>2
<1>11. ASSUME NEW p \in DOMAIN new, p # <<>>
       PROVE  \E x, r : Leads(B, x, r, p) /\ B[x][r].filesize = 0
  <2>1. Swap(a, b, p) \in DOMAIN at \ {<<>>} /\ Swap(a, b, Swap(a, b, p)) = p
    BY <1>3, <1>5, <1>11
  <2>2. PICK y, r : Leads(L, y, r, Swap(a, b, p)) /\ L[y][r].filesize = 0
    BY <1>2, <2>1 DEF Shaped
  <2>3. PICK x : x = Swap(a, b, y)
    OBVIOUS
  <2>4. Leads(B, x, r, p)
    BY <1>4, <2>1, <2>2, <2>3
  <2>5. Swap(a, b, x) = y
    <3>1. y \in Seq(Names)
      BY <1>2, <1>3, <2>2, ShapedFacts
    <3> QED
      BY <1>1, <2>3, <3>1, SwapFacts
  <2>6. B[x][r].filesize = L[y][r].filesize
    BY <1>4, <2>4, <2>5 DEF Leads
  <2> QED
    BY <2>2, <2>4, <2>6
<1>12. \A x, r : Live(B, x, r) => Leads(B, x, r, Append(x, B[x][r].name))
  BY DEF Leads
<1>13. \A x, r : Live(B, x, r) => Append(x, B[x][r].name) \in Paths
  BY <1>9, <1>12
<1>14. \A x, r : Live(B, x, r) /\ B[x][r].filesize = 0 =>
         /\ Append(x, B[x][r].name) \in DOMAIN new
         /\ new[Append(x, B[x][r].name)] = B[x][r].cluster
  BY <1>9, <1>12
<1>15. \A x, r, y, k, p : Leads(B, x, r, p) /\ Leads(B, y, k, p) => x = y /\ r = k
  BY <1>10
<1>16. \A p \in DOMAIN new \ {<<>>} : \E x, r : Leads(B, x, r, p) /\ B[x][r].filesize = 0
  BY <1>11
<1>17. \A x \in DOMAIN new, r \in Rows : Vacant(x, B[x][r]) \/ (B[x][r].used /\ B[x][r].name # NoName)
  BY <1>8
<1>18. DOMAIN new \subseteq Paths \cup {<<>>} /\ \A x \in DOMAIN new : new[x] \in OffFAT \ {0}
  BY <1>5
<1> QED
  BY <1>3, <1>6, <1>7, <1>13, <1>14, <1>15, <1>16, <1>17, <1>18 DEF Shaped

(***************************************************************************)
(* An entry's content is what its chain's clusters hold, and no entry's    *)
(* chain has the clusters that are formatted.                              *)
(***************************************************************************)
OnlyFolders(d, m, at) ==
  \A c \in Clusters : (\E x \in DOMAIN at : c = at[x] /\ m[c].kind = "dir") \/ m[c] = d[c]

\* What an entry stands for does not change when folders' tables do.
LEMMA EntryStays ==
  ASSUME NEW V, NEW d \in Disks(V), NEW map, NEW at, Sound(d, map, at),
         map = AsFAT(d[FAT_CLUSTER_NUMBER]), NEW m, AsFAT(m[FAT_CLUSTER_NUMBER]) = map,
         OnlyFolders(d, m, at),
         NEW y, NEW k, Live(Listing(d, at), y, k),
         NEW e, e.cluster = Listing(d, at)[y][k].cluster,
         e.filesize = Listing(d, at)[y][k].filesize,
         e.attribute = Listing(d, at)[y][k].attribute
  PROVE  NodeOfEntry(m, e) = NodeOfEntry(d, Listing(d, at)[y][k])
<1>1. PICK f : f = Listing(d, at)[y][k]
  OBVIOUS
<1>2. Shaped(at, Listing(d, at)) /\ Allotted(map, Listing(d, at)) /\ Seated(d, at, Listing(d, at))
  BY SoundTree
<1>3. f.cluster \in Clusters /\ e.cluster = f.cluster
  BY <1>1, <1>2, EntriesApart
<1>4. ToSet(Chain(map, e.cluster)) \cap {0, 1, 2} = {} /\ ToSet(Chain(map, e.cluster)) \subseteq Clusters
  <2>1. ToSet(ChainOf(map, Listing(d, at), y, k)) \cap {0, 1, 2} = {}
    BY <1>2 DEF Allotted
  <2> QED
    BY <1>1, <1>3, <2>1, ChainTyped DEF ChainOf
<1>5. ASSUME NEW c \in ToSet(Chain(map, e.cluster)), m[c] # d[c]
      PROVE  e.filesize = 0 /\ m[c].kind = "dir" /\ d[c].kind = "dir"
  <2>1. PICK x \in DOMAIN at : c = at[x] /\ m[c].kind = "dir"
    BY <1>4, <1>5 DEF OnlyFolders
  <2>2. at[x] \in ToSet(ChainOf(map, Listing(d, at), y, k))
    BY <1>1, <1>3, <1>5, <2>1 DEF ChainOf
  <2>3. f.filesize = 0
    BY <1>1, <1>2, <2>1, <2>2, FolderOwner
  <2>4. d[at[x]].kind = "dir"
    BY <1>2, <2>1 DEF Seated
  <2> QED
    BY <1>1, <2>1, <2>3, <2>4
<1>6. NodeOfEntry(m, e) = NodeOfEntry(d, e)
  <2>1. \A c \in ToSet(Chain(map, e.cluster)) :
          /\ AsFAT(m[FAT_CLUSTER_NUMBER])[c] = map[c]
          /\ m[c] = d[c] \/ (e.filesize = 0 /\ m[c].kind = "dir" /\ d[c].kind = "dir")
    BY <1>5
  <2> QED
    BY <1>3, <2>1, EntryKept
<1>7. NodeOfEntry(d, e) = NodeOfEntry(d, f)
  <2>1. e.cluster = f.cluster /\ e.filesize = f.filesize /\ e.attribute = f.attribute
    BY <1>1
  <2> QED
    BY <2>1, Zenon DEF NodeOfEntry
<1> QED
  BY <1>1, <1>6, <1>7

(***************************************************************************)
(* A name in the root directory is changed: the tree is what it was, with  *)
(* the names exchanged.                                                    *)
(***************************************************************************)
LEMMA RenamedScene ==
  ASSUME NEW V, NEW d, NEW map, NEW at, NEW j, NEW a, NEW b, NEW m, NEW new,
         Renaming(V, d, map, at, j, a, b, m, new)
  PROVE  /\ Scene(m, map, new)
         /\ \A p \in Paths : Swap(a, b, p) \in Paths /\ Node(m, p) = Node(d, Swap(a, b, p))
<1> DEFINE L == Listing(d, at)
           B == Listing(m, new)
<1>1. /\ d \in Disks(V) /\ m \in Disks(V) /\ map = AsFAT(d[FAT_CLUSTER_NUMBER]) /\ Scene(d, map, at)
      /\ a \in Names /\ b \in Names
      /\ \A c \in Clusters : c = ROOT_CLUSTER_NUMBER \/ m[c] = d[c]
  BY DEF Renaming
<1>2. Sound(d, map, at) /\ OwnNames(d, at) /\ RootRow(d) /\ Whole(d)
  BY <1>1 DEF Scene
<1>3. TreeOn(d, at) /\ Shaped(at, L) /\ Allotted(map, L) /\ Seated(d, at, L)
  BY <1>2, SoundTree
<1>4. Shaped(new, B)
  BY RenamedShape
<1>5. /\ \A y \in DOMAIN at : y \in Seq(Names)
      /\ \A x \in DOMAIN new : x \in Seq(Names) /\ Swap(a, b, x) \in DOMAIN at
                               /\ new[x] = at[Swap(a, b, x)]
      /\ \A x \in DOMAIN new, r \in Rows :
           (x = <<>> /\ r = j) \/ B[x][r] = L[Swap(a, b, x)][r]
      /\ <<>> \in DOMAIN at /\ <<>> \in DOMAIN new /\ Swap(a, b, <<>>) = <<>>
      /\ B[<<>>][j] = [L[<<>>][j] EXCEPT !.name = b] /\ L[<<>>][j] \in PointingOff
      /\ \A x \in DOMAIN new : /\ m[new[x]].kind = "dir"
                               /\ AsTable(m[new[x]])[0] = AsTable(d[new[x]])[0]
  BY RenamedRows
<1>6. /\ \A x, r, p : Leads(B, x, r, p) => Leads(L, Swap(a, b, x), r, Swap(a, b, p))
      /\ \A y, r, q : Leads(L, y, r, q) => Leads(B, Swap(a, b, y), r, Swap(a, b, q))
      /\ \A x, r : Live(B, x, r) =>
           /\ Live(L, Swap(a, b, x), r) /\ x \in DOMAIN new /\ r \in Rows
           /\ B[x][r].cluster = L[Swap(a, b, x)][r].cluster
           /\ B[x][r].filesize = L[Swap(a, b, x)][r].filesize
           /\ B[x][r].attribute = L[Swap(a, b, x)][r].attribute
  BY RenamedLeads
<1>7. at[<<>>] = ROOT_CLUSTER_NUMBER /\ new[<<>>] = ROOT_CLUSTER_NUMBER
  BY <1>3, <1>4 DEF Shaped
<1>8. BOOT_SECTOR \in Clusters /\ FAT_CLUSTER_NUMBER \in Clusters /\ BOOT_SECTOR # ROOT_CLUSTER_NUMBER
      /\ FAT_CLUSTER_NUMBER # ROOT_CLUSTER_NUMBER
  BY MapSizeAssumption DEF Clusters, BOOT_SECTOR, FAT_CLUSTER_NUMBER, ROOT_CLUSTER_NUMBER
<1>9. m[BOOT_SECTOR] = Signature /\ AsFAT(m[FAT_CLUSTER_NUMBER]) = map
  BY <1>1, <1>2, <1>8 DEF Sound
<1>9b. OnlyFolders(d, m, at)
  <2>1. m[new[<<>>]].kind = "dir"
    BY <1>5
  <2> QED
    BY <1>1, <1>5, <1>7, <2>1 DEF OnlyFolders
<1>10. Seated(m, new, B)
  <2>1. \A x \in DOMAIN new : OwnRow(AsTable(m[new[x]]))
    <3>1. \A x \in DOMAIN new : OwnRow(AsTable(d[new[x]]))
      BY <1>3, <1>5 DEF Seated
    <3> QED
      BY <1>5, <3>1 DEF OwnRow
  <2>2. \A x, r : Live(B, x, r) => B[x][r].attribute = AttributeOf(B[x][r].filesize)
    BY <1>3, <1>6 DEF Seated
  <2> QED
    BY <1>5, <2>1, <2>2 DEF Seated
<1>11. SameFiles(L, B)
  <2>1. ASSUME NEW y, NEW k, Live(L, y, k)
        PROVE  \E x, r : Live(B, x, r) /\ L[y][k].cluster = B[x][r].cluster
    <3>1. PICK x : x = Swap(a, b, y)
      OBVIOUS
    <3>2. Leads(L, y, k, Append(y, L[y][k].name))
      BY <2>1 DEF Leads
    <3>3. Live(B, x, k)
      <4>1. PICK q : q = Append(y, L[y][k].name)
        OBVIOUS
      <4>2. Leads(B, x, k, Swap(a, b, q))
        BY ONLY <1>6, <3>1, <3>2, <4>1
      <4> QED
        BY ONLY <4>2 DEF Leads
    <3>4. Swap(a, b, x) = y
      <4>1. y \in Seq(Names)
        BY <1>3, <1>5, <3>2, ShapedFacts
      <4> QED
        BY <1>1, <3>1, <4>1, SwapFacts
    <3> QED
      BY <1>6, <3>3, <3>4
  <2>2. ASSUME NEW x, NEW r, NEW y, NEW k, Live(B, x, r), Live(B, y, k),
               B[x][r].cluster = B[y][k].cluster
        PROVE  x = y /\ r = k
    <3>1. PICK w, z : w = Swap(a, b, x) /\ z = Swap(a, b, y)
      OBVIOUS
    <3>2. w = z /\ r = k
      BY <1>3, <1>6, <2>2, <3>1, EntriesApart
    <3>3. x \in Seq(Names) /\ y \in Seq(Names)
      BY <1>5, <1>6, <2>2
    <3>4. Swap(a, b, w) = x
      BY <1>1, <3>1, <3>3, SwapFacts
    <3>5. Swap(a, b, z) = y
      BY <1>1, <3>1, <3>3, SwapFacts
    <3> QED
      BY <3>2, <3>4, <3>5
  <2>3. \A x, r : Live(B, x, r) =>
          \E y, k : Live(L, y, k) /\ L[y][k].cluster = B[x][r].cluster
                                  /\ L[y][k].filesize = B[x][r].filesize
    BY <1>6
  <2> QED
    BY <2>1, <2>2, <2>3 DEF SameFiles
<1>12. Allotted(map, B)
  BY <1>3, <1>11, AllottedMoved
<1>13. Sound(m, map, new)
  BY <1>4, <1>9, <1>10, <1>12 DEF Sound
<1>14. TreeOn(m, new)
  BY <1>13, SoundTree
<1>15. OwnNames(m, new)
  <2>1. ASSUME NEW x, NEW r, Live(B, x, r)
        PROVE  B[x][r].name # AsTable(m[new[x]])[0].name
    <3>1. x \in DOMAIN new /\ r \in Rows /\ Live(L, Swap(a, b, x), r)
      BY <1>6, <2>1
    <3>2. AsTable(m[new[x]])[0] = AsTable(d[at[Swap(a, b, x)]])[0]
      BY <1>5, <3>1
    <3>3. CASE x = <<>> /\ r = j
      <4>1. B[x][r].name = b
        BY <1>5, <3>3 DEF PointingOff, Entries
      <4>2. AsTable(d[ROOT_CLUSTER_NUMBER])[0].name = Root
        BY <1>2 DEF RootRow, UsedEntry
      <4>3. at[Swap(a, b, x)] = ROOT_CLUSTER_NUMBER
        BY <1>5, <1>7, <3>3
      <4>4. b # Root
        BY <1>1, NamesAssumption DEF Root
      <4> QED
        BY <3>2, <4>1, <4>2, <4>3, <4>4
    <3>4. CASE ~(x = <<>> /\ r = j)
      <4>1. PICK y : y = Swap(a, b, x)
        OBVIOUS
      <4>2. B[x][r] = L[y][r]
        BY <1>5, <3>1, <3>4, <4>1
      <4>3. L[y][r].name # AsTable(d[at[y]])[0].name
        <5>1. Live(L, y, r)
          BY <3>1, <4>1
        <5> QED
          BY <1>2, <5>1 DEF OwnNames
      <4> QED
        BY <3>2, <4>1, <4>2, <4>3
    <3> QED
      BY <3>3, <3>4
  <2> QED
    BY <2>1 DEF OwnNames
<1>16. RootRow(m)
  BY <1>2, <1>5, <1>7 DEF RootRow
<1>17. ASSUME NEW p \in Paths
       PROVE  Swap(a, b, p) \in Paths /\ Node(m, p) = Node(d, Swap(a, b, p))
  <2>1. PICK q : q = Swap(a, b, p)
    OBVIOUS
  <2>2. p \in Seq(Names)
    BY PathFacts
  <2>3. q \in Paths /\ Swap(a, b, q) = p
    BY <1>1, <2>1, <2>2, SwapFacts
  <2>4. CASE \E x, r : Leads(B, x, r, p)
    <3>1. PICK x, r : Leads(B, x, r, p)
      BY <2>4
    <3>2. PICK y : y = Swap(a, b, x)
      OBVIOUS
    <3>3. Live(B, x, r) /\ Leads(L, y, r, q) /\ Live(L, y, r)
      BY <1>6, <2>1, <3>1, <3>2 DEF Leads
    <3>4. PICK e : e = B[x][r]
      OBVIOUS
    <3>5. e.cluster = L[y][r].cluster /\ e.filesize = L[y][r].filesize
          /\ e.attribute = L[y][r].attribute
      BY <1>6, <3>2, <3>3, <3>4
    <3>6. NodeOfEntry(m, e) = NodeOfEntry(d, L[y][r])
      BY <1>1, <1>2, <1>9, <1>9b, <3>3, <3>5, EntryStays
    <3>7. Node(m, p) = NodeOfEntry(m, e)
      BY <1>1, <1>14, <3>1, <3>4, NodeFacts
    <3>8. Node(d, q) = NodeOfEntry(d, L[y][r])
      BY <1>1, <1>3, <2>3, <3>3, NodeFacts
    <3> QED
      BY <2>1, <2>3, <3>6, <3>7, <3>8
  <2>5. CASE \A x, r : ~Leads(B, x, r, p)
    <3>1. \A y, r : ~Leads(L, y, r, q)
      BY <1>6, <2>3, <2>5
    <3>2. Node(m, p) = Absent
      BY <1>1, <1>14, <2>5, NodeFacts
    <3>3. Node(d, q) = Absent
      BY <1>1, <1>3, <2>3, <3>1, NodeFacts
    <3> QED
      BY <2>1, <2>3, <3>2, <3>3
  <2> QED
    BY <2>4, <2>5
<1>18. Whole(m)
  BY <1>2, <1>17 DEF Whole
<1> QED
  BY <1>13, <1>15, <1>16, <1>17, <1>18 DEF Scene

(***************************************************************************)
(* The disk after one table is written, and after another one.             *)
(***************************************************************************)
OneWrite(w, c, t) == w = <<write_cluster(c, Table(t))>>
TwoWrites(w, c, t, b, u) == w = <<write_cluster(c, Table(t)), write_cluster(b, Table(u))>>

\* What one write of a table leaves, and what it passes through.
LEMMA OneTable ==
  ASSUME NEW V, NEW d \in Disks(V), NEW c \in OffFAT, NEW t \in Tables,
         NEW w, OneWrite(w, c, t)
  PROVE  /\ w \in Seq(Writes(V)) /\ w # <<>> /\ Len(w) = 1
         /\ Begun(d, w, 0) = d /\ Begun(d, w, 1) = Written(d, w) /\ Written(d, w) \in Disks(V)
         /\ Written(d, w)[c] = Table(t)
         /\ \A e \in Clusters : e = c \/ Written(d, w)[e] = d[e]
<1>1. PICK x : x = write_cluster(c, Table(t))
  OBVIOUS
<1>2. x \in Writes(V) /\ x.cluster = c /\ x.content = Table(t) /\ c \in Clusters
  BY <1>1, Held, WriteTyped, EmptyTyped DEF write_cluster
<1>3. w \in Seq(Writes(V)) /\ w # <<>> /\ Len(w) = 1 /\ w[1] = x
  <2>1. w = <<x>>
    BY <1>1 DEF OneWrite
  <2> QED
    BY <1>2, <2>1
<1>4. Begun(d, w, 0) = d /\ Begun(d, w, Len(w)) = Written(d, w)
  BY <1>3, BegunEnds
<1>5. 1 \in 0 .. Len(w) /\ 1 \in 1 .. 1
  BY <1>3
<1>6. Begun(d, w, 1) \in Disks(V)
  BY <1>3, <1>5, BegunTyped
<1>7. Begun(d, w, 1)[c] = x.content
  <2>1. PICK k \in 0 .. Len(w) : k = 1
    BY <1>5
  <2>2. PICK j \in 1 .. k : j = 1
    BY <2>1
  <2>3. w[j].cluster = c /\ \A l \in j + 1 .. k : w[l].cluster # c
    BY <1>2, <1>3, <2>1, <2>2
  <2>4. Begun(d, w, k)[c] = w[j].content
    BY <1>2, <1>3, <2>3, BegunLast
  <2> QED
    BY <1>3, <2>1, <2>2, <2>4
<1>8. ASSUME NEW e \in Clusters, e # c
      PROVE  Begun(d, w, 1)[e] = d[e]
  <2>1. PICK k \in 0 .. Len(w) : k = 1
    BY <1>5
  <2>2. \A j \in 1 .. k : w[j].cluster # e
    BY <1>2, <1>3, <1>8, <2>1
  <2>3. Begun(d, w, k)[e] = d[e]
    BY <1>3, <2>2, BegunAt
  <2> QED
    BY <2>1, <2>3
<1> QED
  BY <1>2, <1>3, <1>4, <1>6, <1>7, <1>8

\* What two writes of tables leave, and what they pass through.
LEMMA TwoTables ==
  ASSUME NEW V, NEW d \in Disks(V), NEW c \in OffFAT, NEW t \in Tables,
         NEW b \in OffFAT, NEW u \in Tables, b # c,
         NEW w, TwoWrites(w, c, t, b, u)
  PROVE  /\ w \in Seq(Writes(V)) /\ w # <<>> /\ Len(w) = 2
         /\ Begun(d, w, 0) = d /\ Begun(d, w, 2) = Written(d, w)
         /\ Begun(d, w, 1) \in Disks(V) /\ Written(d, w) \in Disks(V)
         /\ Begun(d, w, 1)[c] = Table(t) /\ Written(d, w)[c] = Table(t) /\ Written(d, w)[b] = Table(u)
         /\ \A e \in Clusters : e = c \/ Begun(d, w, 1)[e] = d[e]
         /\ \A e \in Clusters : e \in {c, b} \/ Written(d, w)[e] = d[e]
<1>1. PICK x, y : x = write_cluster(c, Table(t)) /\ y = write_cluster(b, Table(u))
  OBVIOUS
<1>2. /\ x \in Writes(V) /\ x.cluster = c /\ x.content = Table(t) /\ c \in Clusters
      /\ y \in Writes(V) /\ y.cluster = b /\ y.content = Table(u) /\ b \in Clusters
  BY <1>1, Held, WriteTyped, EmptyTyped DEF write_cluster
<1>3. w \in Seq(Writes(V)) /\ w # <<>> /\ Len(w) = 2 /\ w[1] = x /\ w[2] = y
  <2>1. w = <<x, y>>
    BY <1>1 DEF TwoWrites
  <2> QED
    BY <1>2, <2>1
<1>4. Begun(d, w, 0) = d /\ Begun(d, w, Len(w)) = Written(d, w)
  BY <1>3, BegunEnds
<1>5. 1 \in 0 .. Len(w) /\ 2 \in 0 .. Len(w) /\ 1 \in 1 .. 1 /\ 1 \in 1 .. 2 /\ 2 \in 1 .. 2
  BY <1>3
<1>6. Begun(d, w, 1) \in Disks(V) /\ Begun(d, w, 2) \in Disks(V)
  BY <1>3, <1>5, BegunTyped
<1>7. PICK k, n : k \in 0 .. Len(w) /\ n \in 0 .. Len(w) /\ k = 1 /\ n = 2
  BY <1>5
<1>8. Begun(d, w, k)[c] = x.content /\ Begun(d, w, n)[c] = x.content
  <2>1. PICK i \in 1 .. k : i = 1
    BY <1>7
  <2>2. PICK j \in 1 .. n : j = 1
    BY <1>7
  <2>3. w[i].cluster = c /\ \A l \in i + 1 .. k : w[l].cluster # c
    BY <1>2, <1>3, <1>7, <2>1
  <2>4. w[j].cluster = c /\ \A l \in j + 1 .. n : w[l].cluster # c
    BY <1>2, <1>3, <1>7, <2>2
  <2>5. Begun(d, w, k)[c] = w[i].content
    <3>1. k \in 0 .. Len(w) /\ c \in Clusters /\ w \in Seq(Writes(V))
      BY <1>2, <1>3, <1>7
    <3> QED
      BY <2>3, <3>1, BegunLast
  <2>6. Begun(d, w, n)[c] = w[j].content
    BY <1>2, <1>3, <1>7, <2>4, BegunLast
  <2> QED
    BY <1>3, <2>1, <2>2, <2>5, <2>6
<1>9. Begun(d, w, n)[b] = y.content
  <2>1. PICK j \in 1 .. n : j = 2
    BY <1>7
  <2>2. w[j].cluster = b /\ \A l \in j + 1 .. n : w[l].cluster # b
    BY <1>2, <1>3, <1>7, <2>1
  <2>3. Begun(d, w, n)[b] = w[j].content
    BY <1>2, <1>3, <1>7, <2>2, BegunLast
  <2> QED
    BY <1>3, <2>1, <2>3
<1>10. ASSUME NEW e \in Clusters, e # c
       PROVE  Begun(d, w, k)[e] = d[e] /\ (e = b \/ Begun(d, w, n)[e] = d[e])
  <2>1. \A j \in 1 .. k : w[j].cluster # e
    BY <1>2, <1>3, <1>7, <1>10
  <2>2. e # b => \A j \in 1 .. n : w[j].cluster # e
    BY <1>2, <1>3, <1>7, <1>10
  <2>3. Begun(d, w, k)[e] = d[e]
    BY <1>3, <1>7, <2>1, BegunAt
  <2>4. ASSUME e # b
        PROVE  Begun(d, w, n)[e] = d[e]
    <3>1. /\ n \in 0 .. Len(w) /\ \A j \in 1 .. n : w[j].cluster # e
          /\ w \in Seq(Writes(V)) /\ e \in Clusters
      BY <1>3, <1>7, <2>2, <2>4
    <3> QED
      BY ONLY <3>1, BegunAt
  <2> QED
    BY <2>3, <2>4
<1> QED
  BY <1>2, <1>3, <1>4, <1>6, <1>7, <1>8, <1>9, <1>10

-----------------------------------------------------------------------------
(* What is below a path *)

LEMMA PrefixFacts ==
  ASSUME NEW S, NEW s \in Seq(S), NEW t \in Seq(S)
  PROVE  /\ IsPrefix(s, t) <=> Len(s) <= Len(t) /\ \A i \in 1 .. Len(s) : s[i] = t[i]
         /\ IsPrefix(s, t) => s = SubSeq(t, 1, Len(s))
         /\ IsPrefix(s, t) /\ Len(s) = Len(t) => s = t
<1>1. PICK m, n : m = Len(s) /\ n = Len(t) /\ m \in Nat /\ n \in Nat
  BY LenProperties
<1>2. SubSeq(s, 1, m) = s
  BY <1>1
<1>3. m <= n => /\ SubSeq(t, 1, m) \in Seq(S) /\ Len(SubSeq(t, 1, m)) = m
                /\ \A i \in 1 .. m : SubSeq(t, 1, m)[i] = t[i]
  BY <1>1
<1>4. (m <= n /\ \A i \in 1 .. m : s[i] = t[i]) => s = SubSeq(t, 1, m)
  BY <1>1, <1>3, SeqEqual
<1>5. IsPrefix(s, t) => s = SubSeq(t, 1, m) /\ m <= n
  BY <1>1, <1>2 DEF IsPrefix
<1>6. (m <= n /\ \A i \in 1 .. m : s[i] = t[i]) => IsPrefix(s, t)
  BY <1>1, <1>2, <1>4 DEF IsPrefix
<1>7. IsPrefix(s, t) => \A i \in 1 .. m : s[i] = t[i]
  BY <1>3, <1>5
<1>8. m = n => SubSeq(t, 1, m) = t
  BY <1>1
<1> QED
  BY <1>1, <1>5, <1>6, <1>7, <1>8

(***************************************************************************)
(* A path begins like the path of the folder it is in.                     *)
(***************************************************************************)
LEMMA FrontBegins ==
  ASSUME NEW p \in Paths, NEW q \in Seq(Names), IsPrefix(q, p)
  PROVE  q = p \/ (Len(q) < Len(p) /\ IsPrefix(q, Front(p)))
<1>1. /\ p \in Seq(Names) /\ Front(p) \in Seq(Names) /\ Len(Front(p)) = Len(p) - 1
      /\ Last(p) \in Names /\ Append(Front(p), Last(p)) = p /\ Len(p) \in Nat /\ Len(q) \in Nat
  BY PathFacts
<1>2. Len(q) <= Len(p) /\ \A i \in 1 .. Len(q) : q[i] = p[i]
  BY <1>1, PrefixFacts
<1>3. CASE Len(q) = Len(p)
  BY <1>1, <1>3, PrefixFacts
<1>4. CASE Len(q) # Len(p)
  <2>1. \A i \in 1 .. Len(Front(p)) : p[i] = Front(p)[i]
    <3>1. PICK f, n : f = Front(p) /\ n = Last(p)
      OBVIOUS
    <3>2. f \in Seq(Names) /\ n \in Names /\ p = Append(f, n)
      BY <1>1, <3>1
    <3>3. \A i \in 1 .. Len(f) : p[i] = f[i]
      BY <3>2, AppendProperties
    <3> QED
      BY <3>1, <3>3
  <2>2. Len(q) <= Len(Front(p)) /\ Len(q) < Len(p)
    BY <1>1, <1>2, <1>4
  <2>3. \A i \in 1 .. Len(q) : q[i] = Front(p)[i]
    BY <1>1, <1>2, <2>1, <2>2
  <2> QED
    BY <1>1, <2>2, <2>3, PrefixFacts
<1> QED
  BY <1>3, <1>4

(***************************************************************************)
(* The folders on the way to a folder are folders of the tree.             *)
(***************************************************************************)
LEMMA PrefixesAreFolders ==
  ASSUME NEW at, NEW L, Shaped(at, L), NEW x \in DOMAIN at, NEW q \in Seq(Names), IsPrefix(q, x)
  PROVE  q \in DOMAIN at
<1> DEFINE S == {n \in Nat : \A y \in DOMAIN at : Len(y) = n =>
                   \A r \in Seq(Names) : IsPrefix(r, y) => r \in DOMAIN at}
<1>1. x \in Seq(Names) /\ Len(x) \in Nat
  BY ShapedFacts
<1>2. 0 \in S
  <2>1. ASSUME NEW y \in DOMAIN at, Len(y) = 0, NEW r \in Seq(Names), IsPrefix(r, y)
        PROVE  r = y
    <3>1. y \in Seq(Names)
      BY ShapedFacts
    <3>2. Len(r) \in Nat /\ Len(r) <= Len(y)
      BY <2>1, <3>1, PrefixFacts, LenProperties
    <3>3. Len(r) = Len(y)
      BY <2>1, <3>2
    <3> QED
      BY <2>1, <3>1, <3>3, PrefixFacts
  <2> QED
    BY <2>1
<1>3. ASSUME NEW k \in 0 .. Len(x), k < Len(x), k \in S
      PROVE  k + 1 \in S
  <2>1. ASSUME NEW y \in DOMAIN at, Len(y) = k + 1, NEW r \in Seq(Names), IsPrefix(r, y)
        PROVE  r \in DOMAIN at
    <3>1. y # <<>>
      BY <2>1
    <3>2. PICK z, j : Leads(L, z, j, y)
      BY <3>1 DEF Shaped
    <3>3. y \in Paths /\ z = Front(y) /\ z \in DOMAIN at
      BY <3>2, ShapedFacts
    <3>4. Len(z) = k
      <4>1. Len(z) = Len(y) - 1
        BY <3>3, PathFacts
      <4> QED
        BY <2>1, <4>1
    <3>5. r = y \/ IsPrefix(r, z)
      BY <2>1, <3>3, FrontBegins
    <3> QED
      BY <1>3, <3>3, <3>4, <3>5
  <2>2. k + 1 \in Nat
    OBVIOUS
  <2> QED
    BY <2>1, <2>2
<1>4. \A k \in 0 .. Len(x) : k \in S
  <2> HIDE DEF S
  <2> QED
    BY <1>1, <1>2, <1>3, CountingUp
<1>5. Len(x) \in S
  BY <1>1, <1>4
<1> QED
  BY <1>5

(***************************************************************************)
(* Only below folders is there anything.                                   *)
(***************************************************************************)
LEMMA OnlyBelowFolders ==
  ASSUME NEW V, NEW d \in Disks(V), NEW map, NEW at, Sound(d, map, at),
         map = AsFAT(d[FAT_CLUSTER_NUMBER]),
         NEW p \in Paths, Node(d, p) # Absent, NEW q \in Paths, IsPrefix(q, p)
  PROVE  q = p \/ Node(d, q) = Folder
<1>1. TreeOn(d, at) /\ Shaped(at, Listing(d, at))
  BY SoundTree
<1>2. PICK x, j : Leads(Listing(d, at), x, j, p)
  BY <1>1, NodeFacts
<1>3. x = Front(p) /\ x \in DOMAIN at
  BY <1>1, <1>2, ShapedFacts
<1>4. q \in Seq(Names)
  BY PathFacts
<1>5. q = p \/ IsPrefix(q, x)
  BY <1>3, <1>4, FrontBegins
<1>6. q = p \/ q \in DOMAIN at
  BY <1>1, <1>3, <1>4, <1>5, PrefixesAreFolders
<1> QED
  BY <1>6, FolderNodes

\* What comes to path p, when what is at or below "from" moves to "to"
Origin(from, to, p) == from \o SubSeq(p, Len(to) + 1, Len(p))

\* What is at a path after a move.
LEMMA MovedAt ==
  ASSUME NEW tree, NEW from, NEW to, NEW p \in Paths
  PROVE  /\ IsPrefix(to, p) =>
              Moved(tree, from, to)[p]
                = IF Origin(from, to, p) \in Paths THEN tree[Origin(from, to, p)] ELSE Absent
         /\ ~IsPrefix(to, p) /\ IsPrefix(from, p) => Moved(tree, from, to)[p] = Absent
         /\ ~IsPrefix(to, p) /\ ~IsPrefix(from, p) => Moved(tree, from, to)[p] = tree[p]
<1>1. Moved(tree, from, to)[p] =
        CASE IsPrefix(to, p) ->
               IF Origin(from, to, p) \in Paths THEN tree[Origin(from, to, p)] ELSE Absent
          [] ~IsPrefix(to, p) /\ IsPrefix(from, p) -> Absent
          [] OTHER -> tree[p]
  BY Zenon DEF Moved, Origin
<1> QED
  BY <1>1

\* A path of one name is at the beginning of those that have that name first.
LEMMA OneName ==
  ASSUME NEW a \in Names
  PROVE  /\ <<a>> \in Paths /\ <<a>> \in Seq(Names) /\ Len(<<a>>) = 1
         /\ \A p \in Paths : /\ IsPrefix(<<a>>, p) <=> p[1] = a
                             /\ p[1] \in Names /\ 1 \in 1 .. Len(p)
<1>1. PICK u : u = <<a>>
  OBVIOUS
<1>2. u \in Seq(Names) /\ Len(u) = 1 /\ u[1] = a
  BY <1>1
<1>3. u \in Paths
  <2>1. <<>> \in Seq(Names) /\ Len(<<>>) <= MaxDepth /\ u = Append(<<>>, a)
    BY <1>1, DepthAssumption
  <2> QED
    BY <2>1, PathsAre
<1>4. ASSUME NEW p \in Paths
      PROVE  (IsPrefix(u, p) <=> p[1] = a) /\ p[1] \in Names /\ 1 \in 1 .. Len(p)
  <2>1. p \in Seq(Names) /\ Len(p) \in Nat \ {0}
    BY PathFacts
  <2>2. 1 \in 1 .. Len(p)
    BY <2>1
  <2>3. u \in Seq(Names) /\ p \in Seq(Names)
    BY <1>2, <2>1
  <2>4. IsPrefix(u, p) <=> p[1] = a
    <3>1. ASSUME IsPrefix(u, p)
          PROVE  p[1] = a
      <4>1. \A i \in 1 .. Len(u) : u[i] = p[i]
        BY <2>3, <3>1, PrefixFacts
      <4> QED
        BY <1>2, <4>1
    <3>2. ASSUME p[1] = a
          PROVE  IsPrefix(u, p)
      <4>1. Len(u) <= Len(p) /\ \A i \in 1 .. Len(u) : u[i] = p[i]
        BY <1>2, <2>1, <3>2
      <4> QED
        BY <2>3, <4>1, PrefixFacts
    <3> QED
      BY <3>1, <3>2
  <2> QED
    BY <2>1, <2>2, <2>4, ElementOfSeq
<1> QED
  BY <1>1, <1>2, <1>3, <1>4

\* Disk m has the tree of disk d with names exchanged.
Swapped(d, m, a, b) ==
  \A p \in Paths : Swap(a, b, p) \in Paths /\ Node(m, p) = Node(d, Swap(a, b, p))

(***************************************************************************)
(* With a name for which there is nothing, exchanging names moves what is  *)
(* at and below the other.                                                 *)
(***************************************************************************)
LEMMA SwappedIsMoved ==
  ASSUME NEW V, NEW d \in Disks(V), NEW map, NEW at, Sound(d, map, at),
         map = AsFAT(d[FAT_CLUSTER_NUMBER]), NEW a \in Names, NEW b \in Names,
         Node(d, <<b>>) = Absent, NEW m, Swapped(d, m, a, b)
  PROVE  Tree(m) = Moved(Tree(d), <<a>>, <<b>>)
<1>1. ASSUME NEW p \in Paths
      PROVE  Node(m, p) = Moved(Tree(d), <<a>>, <<b>>)[p]
  <2>1. PICK q, n, origin : /\ q = Swap(a, b, p) /\ n = Len(p)
                            /\ origin = Origin(<<a>>, <<b>>, p)
    OBVIOUS
  <2>2. /\ p \in Seq(Names) /\ n \in Nat \ {0} /\ p[1] \in Names
        /\ IsPrefix(<<a>>, p) <=> p[1] = a
        /\ IsPrefix(<<b>>, p) <=> p[1] = b
    BY <2>1, PathFacts, OneName
  <2>3. /\ IsPrefix(<<b>>, p) => Moved(Tree(d), <<a>>, <<b>>)[p]
                                   = IF origin \in Paths THEN Tree(d)[origin] ELSE Absent
        /\ ~IsPrefix(<<b>>, p) /\ IsPrefix(<<a>>, p) => Moved(Tree(d), <<a>>, <<b>>)[p] = Absent
        /\ ~IsPrefix(<<b>>, p) /\ ~IsPrefix(<<a>>, p) => Moved(Tree(d), <<a>>, <<b>>)[p] = Tree(d)[p]
    <3>1. PICK from, to, tree : from = <<a>> /\ to = <<b>> /\ tree = Tree(d)
      OBVIOUS
    <3>2. origin = Origin(from, to, p)
      BY <2>1, <3>1
    <3>3. /\ IsPrefix(to, p) => Moved(tree, from, to)[p] = IF origin \in Paths THEN tree[origin] ELSE Absent
          /\ ~IsPrefix(to, p) /\ IsPrefix(from, p) => Moved(tree, from, to)[p] = Absent
          /\ ~IsPrefix(to, p) /\ ~IsPrefix(from, p) => Moved(tree, from, to)[p] = tree[p]
      BY <3>2, MovedAt
    <3> QED
      BY <3>1, <3>3
  <2>4. q \in Paths /\ q \in Seq(Names) /\ Len(q) = n /\ Node(m, p) = Node(d, q)
    <3>1. q \in Paths /\ Node(m, p) = Node(d, q)
      BY <2>1 DEF Swapped
    <3> QED
      BY <2>1, <2>2, <3>1, SwapFacts
  <2>5. \A i \in 1 .. n : q[i] = IF i = 1 THEN SwapName(a, b, p[1]) ELSE p[i]
    BY <2>1, <2>2 DEF Swap
  <2>6. 1 \in 1 .. n
    BY <2>2
  <2>7. CASE p[1] = b
    <3>1. PICK s : s = SubSeq(p, 2, n)
      OBVIOUS
    <3>2. /\ s \in Seq(Names) /\ Len(s) = n - 1 /\ \A i \in 1 .. n - 1 : s[i] = p[i + 1]
      <4>1. \A i \in 2 .. n : p[i] \in Names
        BY <2>1, <2>2, ElementOfSeq
      <4>2. n \in Int /\ 2 \in Int
        BY <2>2
      <4>3. /\ SubSeq(p, 2, n) \in Seq(Names)
            /\ Len(SubSeq(p, 2, n)) = IF 2 <= n THEN n - 2 + 1 ELSE 0
            /\ \A i \in 1 .. n - 2 + 1 : SubSeq(p, 2, n)[i] = p[2 + i - 1]
        BY <4>1, <4>2, SubSeqProperties
      <4>4. \A i \in 1 .. n - 1 : i \in 1 .. n - 2 + 1 /\ 2 + i - 1 = i + 1
        BY <2>2
      <4> QED
        BY <2>2, <3>1, <4>3, <4>4
    <3>3. <<a>> \in Seq(Names) /\ Len(<<a>>) = 1 /\ <<a>>[1] = a /\ Len(<<b>>) + 1 = 2
      OBVIOUS
    <3>4. origin = <<a>> \o s
      BY <2>1, <3>1, <3>3 DEF Origin
    <3>5. /\ origin \in Seq(Names) /\ Len(origin) = 1 + (n - 1)
          /\ \A i \in 1 .. 1 + (n - 1) : origin[i] = IF i <= 1 THEN <<a>>[i] ELSE s[i - 1]
      BY <3>2, <3>3, <3>4, ConcatProperties
    <3>6. SwapName(a, b, b) = a
      BY DEF SwapName
    <3>7. ASSUME NEW i \in 1 .. n
          PROVE  origin[i] = q[i]
      <4>1. CASE i = 1
        BY <2>2, <2>5, <2>7, <3>3, <3>5, <3>6, <4>1
      <4>2. CASE i # 1
        <5>1. i - 1 \in 1 .. n - 1 /\ i - 1 + 1 = i
          BY <2>2, <4>2
        <5>2. origin[i] = s[i - 1]
          BY <2>2, <3>5, <4>2
        <5>3. s[i - 1] = p[i]
          BY <3>2, <5>1
        <5> QED
          BY <2>5, <4>2, <5>2, <5>3
      <4> QED
        BY <4>1, <4>2
    <3>8. Len(origin) = n
      BY <2>2, <3>5
    <3>9. origin = q
      BY <2>4, <3>5, <3>7, <3>8, SeqEqual
    <3> QED
      BY <2>2, <2>3, <2>4, <2>7, <3>9 DEF Tree
  <2>8. CASE p[1] = a /\ p[1] # b
    <3>1. q[1] = b
      BY <2>5, <2>6, <2>8 DEF SwapName
    <3>2. IsPrefix(<<b>>, q) /\ <<b>> \in Paths
      BY <2>4, <3>1, OneName
    <3>3. Node(d, q) = Absent
      BY <2>4, <3>2, OnlyBelowFolders, KindsDiffer
    <3> QED
      BY <2>2, <2>3, <2>4, <2>8, <3>3
  <2>9. CASE p[1] # a /\ p[1] # b
    <3>1. \A i \in 1 .. n : q[i] = p[i]
      BY <2>5, <2>9 DEF SwapName
    <3>2. q = p
      BY <2>1, <2>2, <2>4, <3>1, SeqEqual
    <3> QED
      BY <2>2, <2>3, <2>4, <2>9, <3>2 DEF Tree
  <2> QED
    BY <2>7, <2>8, <2>9
<1>2. Moved(Tree(d), <<a>>, <<b>>) = [p \in Paths |-> Moved(Tree(d), <<a>>, <<b>>)[p]]
  BY DEF Moved
<1>3. Tree(m) = [p \in Paths |-> Moved(Tree(d), <<a>>, <<b>>)[p]]
  BY <1>1 DEF Tree
<1> QED
  BY <1>2, <1>3

-----------------------------------------------------------------------------
(* mv *)

\* Afterwards there is a tree with the user in it, what was at one path is at
\* the other, and at no instant in between is it at neither.
NeverNeither(w, from, to) ==
  \A k \in 0 .. Len(w) :
    Node(Begun(disk, w, k), from) # Absent \/ Node(Begun(disk, w, k), to) # Absent

Moves(e, from, to) ==
  /\ e.ret = 0 /\ e.writes # <<>>
  /\ \E big : Scene(Left(e), e.fat, big) /\ OnTrail(big)
  /\ Tree(Left(e)) = Moved(Tree(disk), from, to)
  /\ NeverNeither(e.writes, from, to)

LEMMA RefusedReturns == \A ret : Refused(ret).ret = ret
BY DEF Refused, Effect

(***************************************************************************)
(* mv of a name in the root directory changes the name, or nothing.        *)
(***************************************************************************)
LEMMA RenameLeaves ==
  ASSUME NEW V, NEW at, Working(V, at), CursorInv, DEPTH = 0,
         NEW source \in Names, NEW dest \in Names, NEW s, NEW garbage,
         NoOther(s, source, CURRENT_DIR_CLUSTER_NUMBER),
         Fresh(dest, CURRENT_DIR_CLUSTER_NUMBER),
         NEW e, e = RenameEffect(s, dest, garbage)
  PROVE  \/ \E ret : e = Refused(ret) /\ e.ret # 0
         \/ Moves(e, <<source>>, <<dest>>)
<1>1. /\ Home(V, at) /\ Scene(disk, fat, at) /\ Sound(disk, fat, at) /\ disk \in Disks(V)
      /\ Settled(V) /\ fat = AsFAT(disk[FAT_CLUSTER_NUMBER])
  BY DEF Working, Home, Settled, Scene, AsFAT, FATImage
<1>2. /\ CURRENT_DIR_CLUSTER_NUMBER = ROOT_CLUSTER_NUMBER
      /\ CURRENT_DIR_PARENT_CLUSTER_NUMBER = ROOT_CLUSTER_NUMBER
      /\ CurrentDirectory.ret = 0 /\ CurrentDirectory.data = disk[ROOT_CLUSTER_NUMBER]
      /\ Entry(dest) = <<dest>>
  BY AtTop
<1>3. PICK table, found, j, t :
        /\ table = AsTable(disk[ROOT_CLUSTER_NUMBER]) /\ found = Matches(table, s)
        /\ j = Min(found) /\ t = [table EXCEPT ![j].name = dest]
  OBVIOUS
<1>4. PICK w : w = <<write_cluster(ROOT_CLUSTER_NUMBER, Table(t))>>
  OBVIOUS
<1>5. e = IF garbage # 0 THEN Refused(-1)
          ELSE IF found = {} THEN Refused(1)
          ELSE Effect(0, fat, w)
  <2>1. e = IF CurrentDirectory.ret # 0 \/ garbage # 0 THEN Refused(-1)
            ELSE IF found = {} THEN Refused(1)
            ELSE WriteTables(<<write_cluster(CURRENT_DIR_PARENT_CLUSTER_NUMBER, Table(t))>>)
    <3>1. e = RenameEffect(s, dest, garbage)
      OBVIOUS
    <3> QED
      BY <1>2, <1>3, <3>1, Zenon DEF RenameEffect
  <2> QED
    BY <1>2, <1>4, <2>1 DEF WriteTables
<1>6. CASE garbage # 0
  BY <1>5, <1>6, RefusedReturns
<1>7. CASE garbage = 0 /\ found = {}
  BY <1>5, <1>7, RefusedReturns
<1>8. CASE garbage = 0 /\ found # {}
  <2>1. e = Effect(0, fat, w) /\ e.ret = 0 /\ e.fat = fat /\ e.writes = w
    BY <1>5, <1>8 DEF Effect
  <2>2. s = source
    BY <1>2, <1>3, <1>8, OnlyTheName
  <2>3. /\ Leads(Listing(disk, at), <<>>, j, <<source>>) /\ j \in Rows /\ table \in Tables
        /\ table[j] \in Entries /\ Node(disk, <<source>>) = NodeOfEntry(disk, table[j])
    BY <1>3, <1>8, <2>2, FoundAtTop
  <2>4. t \in Tables
    <3>1. table[j] \in PointingOff /\ j \in Positions /\ [table[j] EXCEPT !.name = dest] \in PointingOff
      BY <2>3 DEF Tables, PointingOff, Entries, Rows
    <3>2. t = [table EXCEPT ![j] = [table[j] EXCEPT !.name = dest]]
      BY <1>3
    <3> QED
      BY <2>3, <3>1, <3>2 DEF Tables
  <2>5. PICK m : m = Written(disk, w)
    OBVIOUS
  <2>6. /\ w \in Seq(Writes(V)) /\ w # <<>> /\ Len(w) = 1
        /\ Begun(disk, w, 0) = disk /\ Begun(disk, w, 1) = m /\ m \in Disks(V)
        /\ m[ROOT_CLUSTER_NUMBER] = Table(t)
        /\ \A c \in Clusters : c = ROOT_CLUSTER_NUMBER \/ m[c] = disk[c]
    <3>1. ROOT_CLUSTER_NUMBER \in OffFAT
      BY EmptyTyped
    <3>2. /\ w \in Seq(Writes(V)) /\ w # <<>> /\ Len(w) = 1
          /\ Begun(disk, w, 0) = disk /\ Begun(disk, w, 1) = Written(disk, w)
          /\ Written(disk, w) \in Disks(V) /\ Written(disk, w)[ROOT_CLUSTER_NUMBER] = Table(t)
          /\ \A c \in Clusters : c = ROOT_CLUSTER_NUMBER \/ Written(disk, w)[c] = disk[c]
      <4>1. PICK c \in OffFAT : c = ROOT_CLUSTER_NUMBER
        BY <3>1
      <4>2. OneWrite(w, c, t)
        BY <1>4, <4>1 DEF OneWrite
      <4>3. /\ w \in Seq(Writes(V)) /\ w # <<>> /\ Len(w) = 1
            /\ Begun(disk, w, 0) = disk /\ Begun(disk, w, 1) = Written(disk, w)
            /\ Written(disk, w) \in Disks(V) /\ Written(disk, w)[c] = Table(t)
            /\ \A b \in Clusters : b = c \/ Written(disk, w)[b] = disk[b]
        BY ONLY <1>1, <2>4, <4>2, c \in OffFAT, OneTable
      <4> QED
        BY <4>1, <4>3
    <3> QED
      BY <2>5, <3>2
  <2>7. PICK new : new = [p \in {Swap(source, dest, y) : y \in DOMAIN at}
                            |-> at[Swap(source, dest, p)]]
    OBVIOUS
  <2>8. Renaming(V, disk, fat, at, j, source, dest, m, new)
    <3>1. Matches(AsTable(disk[ROOT_CLUSTER_NUMBER]), dest) = {}
      BY <1>2 DEF Fresh
    <3>2. m[ROOT_CLUSTER_NUMBER]
            = Table([AsTable(disk[ROOT_CLUSTER_NUMBER]) EXCEPT ![j].name = dest])
      BY <1>3, <2>6
    <3> QED
      BY <1>1, <2>3, <2>6, <2>7, <3>1, <3>2 DEF Renaming
  <2>9. Scene(m, fat, new) /\ Swapped(disk, m, source, dest)
    BY <2>8, RenamedScene DEF Swapped
  <2>10. Left(e) = m
    BY <2>1, <2>5 DEF Left
  <2>11. \E big : Scene(Left(e), e.fat, big) /\ OnTrail(big)
    <3>1. OnTrail(new)
      BY <2>9, AtTop DEF Scene
    <3> QED
      BY <2>1, <2>9, <2>10, <3>1
  <2>12. Tree(m) = Moved(Tree(disk), <<source>>, <<dest>>)
    <3>1. Node(disk, <<dest>>) = Absent
      BY <1>2, FreshIsNew
    <3> QED
      BY <1>1, <2>9, <3>1, SwappedIsMoved
  <2>13. Node(disk, <<source>>) # Absent
    BY <2>3, EntryKind
  <2>14. Node(m, <<dest>>) # Absent
    <3>1. PICK p : p = <<dest>>
      OBVIOUS
    <3>2. p \in Paths /\ p \in Seq(Names) /\ DOMAIN p = {1} /\ p[1] = dest
      BY <3>1, OneName
    <3>3. Swap(source, dest, p) = <<source>>
      <4>1. Swap(source, dest, p) = [i \in {1} |-> SwapName(source, dest, dest)]
        BY <3>2 DEF Swap
      <4>2. SwapName(source, dest, dest) = source
        BY DEF SwapName
      <4>3. {1} = 1 .. 1
        OBVIOUS
      <4> QED
        BY <4>1, <4>2, <4>3
    <3>4. Node(m, p) = Node(disk, Swap(source, dest, p))
      BY <2>9, <3>2 DEF Swapped
    <3> QED
      BY <2>13, <3>1, <3>3, <3>4
  <2>15. NeverNeither(w, <<source>>, <<dest>>)
    <3>1. \A k \in 0 .. Len(w) : k = 0 \/ k = 1
      BY <2>6
    <3> QED
      BY <2>6, <2>13, <2>14, <3>1 DEF NeverNeither
  <2> QED
    BY <2>1, <2>6, <2>10, <2>11, <2>12, <2>15 DEF Moves
<1> QED
  BY <1>6, <1>7, <1>8

-----------------------------------------------------------------------------
(* mv of a file from the root directory to a folder *)

\* Row j of the root directory, the file a, goes to the free row i of the folder
\* at y and is called b there: m has the folder's table, n both tables.
Placing(V, d, map, at, y, i, j, a, b, m) ==
  /\ d \in Disks(V) /\ map = AsFAT(d[FAT_CLUSTER_NUMBER]) /\ Scene(d, map, at) /\ m \in Disks(V)
  /\ y \in DOMAIN at \ {<<>>} /\ a \in Names /\ b \in Names /\ Append(y, b) \in Paths
  /\ Leads(Listing(d, at), <<>>, j, <<a>>) /\ Node(d, <<a>>).kind = "file"
  /\ Matches(AsTable(d[at[y]]), b) = {}
  /\ i \in Positions /\ ~AsTable(d[at[y]])[i].used
  /\ m[at[y]] = Table([AsTable(d[at[y]]) EXCEPT
                         ![i] = MovedEntry(AsTable(d[ROOT_CLUSTER_NUMBER])[j], b)])
  /\ \A c \in Clusters : c = at[y] \/ m[c] = d[c]

Removal(V, d, at, y, j, m, n) ==
  /\ n \in Disks(V) /\ n[at[y]] = m[at[y]]
  /\ n[ROOT_CLUSTER_NUMBER] = Table(Vacated(AsTable(d[ROOT_CLUSTER_NUMBER]), j))
  /\ \A c \in Clusters : c \in {at[y], ROOT_CLUSTER_NUMBER} \/ n[c] = d[c]

\* The folders' clusters and rows
Rooms(d, map, at, y, L) ==
  /\ Sound(d, map, at) /\ Shaped(at, L) /\ Seated(d, at, L) /\ Allotted(map, L)
  /\ at[<<>>] = ROOT_CLUSTER_NUMBER /\ <<>> \in DOMAIN at /\ at[y] # ROOT_CLUSTER_NUMBER
  /\ \A x \in DOMAIN at : at[x] \in Clusters /\ at[x] \notin {0, 1}
  /\ \A x \in DOMAIN at : x = y \/ at[x] # at[y]
  /\ \A x \in DOMAIN at : x = <<>> \/ at[x] # ROOT_CLUSTER_NUMBER
  /\ \A x \in DOMAIN at : /\ L[x] \in [Rows -> PointingOff]
                          /\ \A r \in Rows : L[x][r] = AsTable(d[at[x]])[r]

\* What moves, and where it goes
Luggage(d, at, y, i, j, a, b, q, L) ==
  /\ i \in Rows /\ L[y][i] = EmptyEntry /\ j \in Rows
  /\ L[<<>>][j] \in PointingOff /\ L[<<>>][j].name = a /\ L[<<>>][j].used
  /\ L[<<>>][j].filesize # 0 /\ L[<<>>][j].attribute = ATR_FILE
  /\ \A x, r : ~Leads(L, x, r, q)
  /\ q \in Paths /\ q \notin DOMAIN at /\ q # <<a>> /\ <<a>> \notin DOMAIN at /\ <<a>> \in Paths
  /\ b # AsTable(d[at[y]])[0].name /\ b # NoName

(***************************************************************************)
(* What moves is a file with a name, and where it goes there is room for   *)
(* it and none of that name.                                               *)
(***************************************************************************)
LEMMA PlacingFacts ==
  ASSUME NEW V, NEW d, NEW map, NEW at, NEW y, NEW i, NEW j, NEW a, NEW b, NEW m,
         Placing(V, d, map, at, y, i, j, a, b, m),
         NEW L, L = Listing(d, at), NEW q, q = Append(y, b)
  PROVE  Rooms(d, map, at, y, L) /\ Luggage(d, at, y, i, j, a, b, q, L)
<1>1. /\ d \in Disks(V) /\ map = AsFAT(d[FAT_CLUSTER_NUMBER]) /\ Scene(d, map, at)
      /\ y \in DOMAIN at \ {<<>>} /\ a \in Names /\ b \in Names /\ q \in Paths
      /\ Leads(L, <<>>, j, <<a>>) /\ Node(d, <<a>>).kind = "file"
      /\ Matches(AsTable(d[at[y]]), b) = {}
      /\ i \in Positions /\ ~AsTable(d[at[y]])[i].used
  BY DEF Placing
<1>2. /\ Sound(d, map, at) /\ Shaped(at, L) /\ Seated(d, at, L) /\ Allotted(map, L)
      /\ TreeOn(d, at)
  BY <1>1, SoundTree DEF Scene
<1>3. at[<<>>] = ROOT_CLUSTER_NUMBER /\ <<>> \in DOMAIN at
  BY <1>2 DEF Shaped
<1>4. \A x \in DOMAIN at : at[x] \in Clusters /\ at[x] \notin {0, 1}
  BY <1>2, FolderAllocated
<1>5. \A x \in DOMAIN at : x = y \/ at[x] # at[y]
  BY <1>1, <1>2, FoldersApart
<1>6. \A x \in DOMAIN at : x = <<>> \/ at[x] # ROOT_CLUSTER_NUMBER
  BY <1>2, <1>3, FoldersApart
<1>7. \A x \in DOMAIN at : /\ L[x] \in [Rows -> PointingOff]
                           /\ \A r \in Rows : L[x][r] = AsTable(d[at[x]])[r]
  BY <1>1, <1>4, ListingTyped
<1>8. i \in Rows /\ L[y][i] = EmptyEntry
  <2>1. OwnRow(AsTable(d[at[y]]))
    BY <1>1, <1>2 DEF Seated
  <2>2. i \in Rows /\ L[y][i] = AsTable(d[at[y]])[i]
    BY <1>1, <1>7, <2>1 DEF OwnRow, Rows
  <2> QED
    BY <1>1, <1>2, <2>2 DEF Shaped, Vacant
<1>9. j \in Rows /\ L[<<>>][j] \in PointingOff /\ L[<<>>][j].name = a /\ L[<<>>][j].used
      /\ L[<<>>][j].attribute = AttributeOf(L[<<>>][j].filesize)
  <2>1. j \in Rows /\ Live(L, <<>>, j)
    BY <1>1 DEF Leads, Live
  <2>2. L[<<>>][j].name = Last(<<a>>) /\ L[<<>>][j] \in PointingOff
    BY <1>1, <1>2, ShapedFacts
  <2>3. Last(<<a>>) = a
    <3>1. <<a>> = Append(<<>>, a) /\ <<>> \in Seq(Names)
      OBVIOUS
    <3> QED
      BY <3>1, AppendFacts
  <2>4. L[<<>>][j].used
    <3>1. L[<<>>][j].name # NoName
      BY <2>1 DEF Live
    <3> QED
      BY <1>2, <1>3, <2>1, <3>1 DEF Shaped, Vacant, EmptyEntry
  <2>5. L[<<>>][j].attribute = AttributeOf(L[<<>>][j].filesize)
    BY <1>2, <2>1 DEF Seated
  <2> QED
    BY <2>1, <2>2, <2>3, <2>4, <2>5
<1>10. <<a>> \in Paths
  BY <1>1, OneName
<1>11. <<a>> \notin DOMAIN at
  <2>1. Node(d, <<a>>) # Folder
    BY <1>1 DEF Folder
  <2> QED
    BY <1>1, <1>2, <1>10, <2>1, FolderNodes
<1>12. L[<<>>][j].filesize # 0
  <2>1. Live(L, <<>>, j) /\ Append(<<>>, L[<<>>][j].name) = <<a>>
    BY <1>1 DEF Leads
  <2>2. \A x, r : Live(L, x, r) /\ L[x][r].filesize = 0 => Append(x, L[x][r].name) \in DOMAIN at
    BY <1>2 DEF Shaped
  <2> QED
    BY <1>11, <2>1, <2>2
<1>13. L[<<>>][j].attribute = ATR_FILE
  BY <1>9, <1>12 DEF AttributeOf
<1>14. y \in Seq(Names)
  BY <1>1, <1>2, ShapedFacts
<1>15. ASSUME NEW x, NEW r, Leads(L, x, r, q)
       PROVE  FALSE
  <2>1. x = y /\ L[x][r].name = b /\ r \in Rows
    BY <1>1, <1>2, <1>14, <1>15, ShapedFacts, AppendFacts
  <2>2. r \in Matches(AsTable(d[at[y]]), b)
    BY <1>1, <1>7, <2>1 DEF Matches, Rows
  <2> QED
    BY <1>1, <2>2
<1>16. q \notin DOMAIN at
  <2>1. q # <<>>
    BY <1>1, PathFacts
  <2> QED
    BY <1>2, <1>15, <2>1 DEF Shaped
<1>17. q # <<a>>
  <2>1. Front(q) = y
    BY <1>14, AppendFacts
  <2>2. Front(<<a>>) = <<>>
    <3>1. <<a>> = Append(<<>>, a) /\ <<>> \in Seq(Names)
      OBVIOUS
    <3> QED
      BY <3>1, AppendFacts
  <2> QED
    BY <1>1, <2>1, <2>2
<1>18. b # AsTable(d[at[y]])[0].name /\ b # NoName
  <2>1. 0 \notin Matches(AsTable(d[at[y]]), b)
    BY <1>1
  <2>2. b # AsTable(d[at[y]])[0].name
    BY <2>1, SizeFacts DEF Matches
  <2>3. b # NoName
    BY <1>1, NamesAssumption DEF NoName
  <2> QED
    BY <2>2, <2>3
<1>19. Rooms(d, map, at, y, L)
  BY <1>1, <1>2, <1>3, <1>4, <1>5, <1>6, <1>7 DEF Rooms
<1>20. Luggage(d, at, y, i, j, a, b, q, L)
  BY <1>1, <1>8, <1>9, <1>10, <1>11, <1>12, <1>13, <1>15, <1>16, <1>17, <1>18 DEF Luggage
<1> QED
  BY <1>19, <1>20

(***************************************************************************)
(* With the folder's table written, the file is at both paths.             *)
(***************************************************************************)
\* The folders' tables on disk m, where B is L but for row i of y
Seats(d, map, at, y, i, m, L, B) ==
  /\ \A x \in DOMAIN at : /\ B[x] \in [Rows -> PointingOff] /\ m[at[x]].kind = "dir"
                          /\ AsTable(m[at[x]])[0] = AsTable(d[at[x]])[0]
                          /\ \A r \in Rows : B[x][r] = AsTable(m[at[x]])[r]
  /\ \A x \in DOMAIN at, r \in Rows : (x = y /\ r = i) \/ B[x][r] = L[x][r]
  /\ m[BOOT_SECTOR] = Signature /\ AsFAT(m[FAT_CLUSTER_NUMBER]) = map
  /\ AsTable(m[BOOT_SECTOR]) = ZeroTable

\* The same file under another name
SameFile(e, f, b) ==
  /\ e.cluster = f.cluster /\ e.filesize = f.filesize /\ e.attribute = f.attribute
  /\ e.name = b /\ e.used

\* The row that the entry gets at its destination.
LEMMA PlacingRows ==
  ASSUME NEW V, NEW d, NEW map, NEW at, NEW y, NEW i, NEW j, NEW a, NEW b, NEW m,
         Placing(V, d, map, at, y, i, j, a, b, m),
         NEW L, L = Listing(d, at), NEW B, B = Listing(m, at)
  PROVE  Seats(d, map, at, y, i, m, L, B) /\ SameFile(B[y][i], L[<<>>][j], b)
<1>1. /\ d \in Disks(V) /\ map = AsFAT(d[FAT_CLUSTER_NUMBER]) /\ m \in Disks(V) /\ b \in Names
      /\ y \in DOMAIN at /\ y # <<>>
      /\ \A c \in Clusters : c = at[y] \/ m[c] = d[c]
  BY DEF Placing
<1>2. /\ Sound(d, map, at) /\ Shaped(at, L) /\ Seated(d, at, L)
      /\ at[<<>>] = ROOT_CLUSTER_NUMBER /\ <<>> \in DOMAIN at
      /\ \A x \in DOMAIN at : at[x] \in Clusters /\ at[x] \notin {0, 1}
      /\ \A x \in DOMAIN at : x = y \/ at[x] # at[y]
      /\ \A x \in DOMAIN at : /\ L[x] \in [Rows -> PointingOff]
                              /\ \A r \in Rows : L[x][r] = AsTable(d[at[x]])[r]
      /\ i \in Rows /\ j \in Rows /\ L[<<>>][j] \in PointingOff /\ L[<<>>][j].used
      /\ L[<<>>][j].attribute = ATR_FILE
  <2>1. PICK q : q = Append(y, b)
    OBVIOUS
  <2>2. Rooms(d, map, at, y, L) /\ Luggage(d, at, y, i, j, a, b, q, L)
    BY <2>1, PlacingFacts
  <2> QED
    BY <2>2 DEF Rooms, Luggage
<1>3. \A x \in DOMAIN at : /\ B[x] \in [Rows -> PointingOff]
                           /\ \A r \in Rows : B[x][r] = AsTable(m[at[x]])[r]
  BY <1>1, <1>2, ListingTyped
<1>4. PICK u, e : u = AsTable(d[at[y]]) /\ e = MovedEntry(AsTable(d[ROOT_CLUSTER_NUMBER])[j], b)
  OBVIOUS
<1>5. u \in Tables /\ AsTable(m[at[y]]) = [u EXCEPT ![i] = e] /\ m[at[y]].kind = "dir"
  <2>1. u \in Tables
    BY <1>1, <1>2, <1>4, ListingFacts
  <2>2. m[at[y]] = Table([u EXCEPT ![i] = e])
    BY <1>4 DEF Placing
  <2> QED
    BY <2>1, <2>2 DEF Table, AsTable
<1>6. i \in Positions /\ i # 0 /\ 0 \in Positions
  BY <1>2, SizeFacts DEF Rows
<1>7. B[y][i] = e /\ e = MovedEntry(L[<<>>][j], b)
  <2>1. [u EXCEPT ![i] = e][i] = e
    BY <1>5, <1>6 DEF Tables
  <2>2. B[y][i] = AsTable(m[at[y]])[i]
    BY <1>1, <1>2, <1>3
  <2>3. L[<<>>][j] = AsTable(d[ROOT_CLUSTER_NUMBER])[j]
    BY <1>2
  <2> QED
    BY <1>4, <1>5, <2>1, <2>2, <2>3
<1>8. ASSUME NEW x \in DOMAIN at, NEW r \in Rows, ~(x = y /\ r = i)
      PROVE  B[x][r] = L[x][r]
  <2>1. CASE x # y
    <3>1. m[at[x]] = d[at[x]]
      BY <1>1, <1>2, <2>1
    <3>2. B[x][r] = AsTable(m[at[x]])[r] /\ L[x][r] = AsTable(d[at[x]])[r]
      BY <1>2, <1>3
    <3> QED
      BY <3>1, <3>2
  <2>2. CASE x = y
    <3>1. r # i /\ r \in Positions
      BY <1>8, <2>2 DEF Rows
    <3>2. [u EXCEPT ![i] = e][r] = u[r]
      BY <1>5, <3>1 DEF Tables
    <3>3. B[x][r] = AsTable(m[at[y]])[r] /\ L[x][r] = u[r]
      BY <1>2, <1>3, <1>4, <2>2
    <3> QED
      BY <1>5, <3>2, <3>3
  <2> QED
    BY <2>1, <2>2
<1>9. ASSUME NEW x \in DOMAIN at
      PROVE  m[at[x]].kind = "dir" /\ AsTable(m[at[x]])[0] = AsTable(d[at[x]])[0]
  <2>1. CASE x # y
    <3>1. m[at[x]] = d[at[x]] /\ d[at[x]].kind = "dir"
      BY <1>1, <1>2, <2>1 DEF Seated
    <3> QED
      BY <3>1
  <2>2. CASE x = y
    <3>1. [u EXCEPT ![i] = e][0] = u[0]
      BY <1>5, <1>6 DEF Tables
    <3> QED
      BY <1>4, <1>5, <2>2, <3>1
  <2> QED
    BY <2>1, <2>2
<1>10. /\ e.cluster = L[<<>>][j].cluster /\ e.filesize = L[<<>>][j].filesize
       /\ e.attribute = L[<<>>][j].attribute /\ e.name = b /\ e.used
  BY <1>2, <1>7 DEF MovedEntry, PointingOff, Entries
<1>11. m[BOOT_SECTOR] = Signature /\ AsFAT(m[FAT_CLUSTER_NUMBER]) = map
  <2>1. /\ BOOT_SECTOR \in Clusters /\ FAT_CLUSTER_NUMBER \in Clusters
        /\ BOOT_SECTOR # at[y] /\ FAT_CLUSTER_NUMBER # at[y]
    BY <1>1, <1>2, MapSizeAssumption DEF Clusters, BOOT_SECTOR, FAT_CLUSTER_NUMBER
  <2>2. d[BOOT_SECTOR] = Signature
    BY <1>2 DEF Sound
  <2> QED
    BY <1>1, <2>1, <2>2
<1>12. AsTable(m[BOOT_SECTOR]) = ZeroTable
  BY <1>11 DEF AsTable, Signature
<1>13. Seats(d, map, at, y, i, m, L, B)
  BY <1>3, <1>8, <1>9, <1>11, <1>12 DEF Seats
<1>14. SameFile(B[y][i], L[<<>>][j], b)
  BY <1>7, <1>10 DEF SameFile
<1> QED
  BY <1>13, <1>14

\* With the entry at both places the folder has grown by one row.
LEMMA PlacingGrown ==
  ASSUME NEW V, NEW d, NEW map, NEW at, NEW y, NEW i, NEW j, NEW a, NEW b, NEW m,
         Placing(V, d, map, at, y, i, j, a, b, m),
         NEW L, L = Listing(d, at), NEW B, B = Listing(m, at), NEW q, q = Append(y, b)
  PROVE  /\ Grown(at, L, at, B, y, i, q) /\ Shaped(at, B) /\ TreeOn(m, at)
         /\ Leads(B, <<>>, j, <<a>>) /\ Leads(B, y, i, q)
<1>1. /\ y \in DOMAIN at /\ Leads(L, <<>>, j, <<a>>) /\ y # <<>>
  BY DEF Placing
<1>2. /\ Shaped(at, L) /\ i \in Rows /\ L[y][i] = EmptyEntry /\ j \in Rows
      /\ L[<<>>][j].filesize # 0 /\ \A x, r : ~Leads(L, x, r, q)
      /\ \A x \in DOMAIN at : L[x] \in [Rows -> PointingOff]
      /\ q \in Paths /\ q \notin DOMAIN at /\ b # NoName
  <2>1. Rooms(d, map, at, y, L) /\ Luggage(d, at, y, i, j, a, b, q, L)
    BY PlacingFacts
  <2> QED
    BY <2>1 DEF Rooms, Luggage
<1>3. /\ \A x \in DOMAIN at : B[x] \in [Rows -> PointingOff]
      /\ \A x \in DOMAIN at, r \in Rows : (x = y /\ r = i) \/ B[x][r] = L[x][r]
      /\ B[y][i].filesize = L[<<>>][j].filesize
      /\ B[y][i].name = b /\ B[y][i].used
      /\ AsTable(m[BOOT_SECTOR]) = ZeroTable
  <2>1. Seats(d, map, at, y, i, m, L, B) /\ SameFile(B[y][i], L[<<>>][j], b)
    BY PlacingRows
  <2> QED
    BY <2>1 DEF Seats, SameFile
<1>4. DOMAIN L = DOMAIN at /\ DOMAIN B = DOMAIN at
  BY DEF Listing
<1>5. Leads(B, y, i, q)
  BY <1>1, <1>2, <1>3, <1>4 DEF Leads, Live
<1>6. Grown(at, L, at, B, y, i, q)
  <2>1. Vacant(y, L[y][i])
    BY <1>2 DEF Vacant
  <2>2. DOMAIN at = DOMAIN at \cup (IF B[y][i].filesize = 0 THEN {q} ELSE {})
    BY <1>2, <1>3
  <2> QED
    BY <1>1, <1>2, <1>3, <1>4, <1>5, <2>1, <2>2 DEF Grown
<1>7. Shaped(at, B)
  BY <1>2, <1>6, ShapedLarger
<1>8. TreeOn(m, at)
  BY <1>3, <1>7 DEF TreeOn
<1>9. Leads(B, <<>>, j, <<a>>)
  <2>1. Live(L, <<>>, j) /\ Append(<<>>, L[<<>>][j].name) = <<a>> /\ <<>> \in DOMAIN at
    BY <1>1, <1>4 DEF Leads, Live
  <2>2. B[<<>>][j] = L[<<>>][j]
    BY <1>1, <1>2, <1>3, <2>1
  <2> QED
    BY <1>2, <1>4, <2>1, <2>2 DEF Leads, Live
<1> QED
  BY <1>5, <1>6, <1>7, <1>8, <1>9

(***************************************************************************)
(* With the root directory's table written too, it is at the new one only. *)
(***************************************************************************)
LEMMA RemovalRows ==
  ASSUME NEW V, NEW d, NEW map, NEW at, NEW y, NEW i, NEW j, NEW a, NEW b, NEW m, NEW n,
         Placing(V, d, map, at, y, i, j, a, b, m), Removal(V, d, at, y, j, m, n),
         NEW B, B = Listing(m, at), NEW C, C = Listing(n, at)
  PROVE  /\ Seats(d, map, at, <<>>, j, n, B, C)
         /\ C[<<>>][j].used /\ C[<<>>][j].name = NoName
<1>1. /\ d \in Disks(V) /\ map = AsFAT(d[FAT_CLUSTER_NUMBER]) /\ m \in Disks(V) /\ n \in Disks(V)
      /\ y \in DOMAIN at /\ y # <<>> /\ n[at[y]] = m[at[y]]
      /\ \A c \in Clusters : c = at[y] \/ m[c] = d[c]
      /\ \A c \in Clusters : c \in {at[y], ROOT_CLUSTER_NUMBER} \/ n[c] = d[c]
  BY DEF Placing, Removal
<1>2. PICK L, q : L = Listing(d, at) /\ q = Append(y, b)
  OBVIOUS
<1>3. Rooms(d, map, at, y, L) /\ Luggage(d, at, y, i, j, a, b, q, L)
  BY <1>2, PlacingFacts
<1>4. Seats(d, map, at, y, i, m, L, B)
  BY <1>2, PlacingRows
<1>5. /\ at[<<>>] = ROOT_CLUSTER_NUMBER /\ <<>> \in DOMAIN at /\ at[y] # ROOT_CLUSTER_NUMBER
      /\ \A x \in DOMAIN at : at[x] \in Clusters /\ at[x] \notin {0, 1}
      /\ \A x \in DOMAIN at : x = y \/ at[x] # at[y]
      /\ \A x \in DOMAIN at : x = <<>> \/ at[x] # ROOT_CLUSTER_NUMBER
      /\ Shaped(at, L) /\ j \in Rows /\ L[<<>>][j].used /\ L[<<>>][j] \in PointingOff
      /\ \A r \in Rows : L[<<>>][r] = AsTable(d[at[<<>>]])[r]
      /\ Sound(d, map, at) /\ Seated(d, at, L)
  BY <1>3 DEF Rooms, Luggage
<1>6. \A x \in DOMAIN at : /\ C[x] \in [Rows -> PointingOff]
                           /\ \A r \in Rows : C[x][r] = AsTable(n[at[x]])[r]
  BY <1>1, <1>5, ListingTyped
<1>7. \A x \in DOMAIN at : /\ m[at[x]].kind = "dir" /\ AsTable(m[at[x]])[0] = AsTable(d[at[x]])[0]
                           /\ \A r \in Rows : B[x][r] = AsTable(m[at[x]])[r]
  BY <1>4 DEF Seats
<1>8. PICK u, t : u = AsTable(d[ROOT_CLUSTER_NUMBER]) /\ t = Vacated(u, j)
  OBVIOUS
<1>9. u \in Tables /\ AsTable(n[ROOT_CLUSTER_NUMBER]) = t /\ n[ROOT_CLUSTER_NUMBER].kind = "dir"
  <2>1. u \in Tables
    BY <1>1, <1>2, <1>5, <1>8, ListingFacts
  <2>2. n[ROOT_CLUSTER_NUMBER] = Table(t)
    BY <1>8 DEF Removal
  <2> QED
    BY <2>1, <2>2 DEF Table, AsTable
<1>10. j \in Positions /\ j # 0 /\ 0 \in Positions
  BY <1>5, SizeFacts DEF Rows
<1>11. /\ t[j] = [u[j] EXCEPT !.name = NoName]
       /\ \A r \in Positions : r = j \/ t[r] = u[r]
  BY <1>8, <1>9, <1>10 DEF Vacated, Tables
<1>12. C[<<>>][j].used /\ C[<<>>][j].name = NoName
  <2>1. u[j] = L[<<>>][j]
    BY <1>5, <1>8
  <2>2. C[<<>>][j] = t[j]
    BY <1>5, <1>6, <1>9
  <2>3. u[j].used /\ u[j] \in Entries
    BY <1>5, <2>1 DEF PointingOff
  <2> QED
    BY <1>11, <2>2, <2>3 DEF Entries
<1>13. ASSUME NEW x \in DOMAIN at, x # <<>>
       PROVE  n[at[x]] = m[at[x]]
  <2>1. CASE x = y
    BY <1>1, <2>1
  <2>2. CASE x # y
    <3>1. at[x] \in Clusters /\ at[x] # at[y] /\ at[x] # ROOT_CLUSTER_NUMBER
      BY <1>5, <1>13, <2>2
    <3> QED
      BY <1>1, <3>1
  <2> QED
    BY <2>1, <2>2
<1>14. m[ROOT_CLUSTER_NUMBER] = d[ROOT_CLUSTER_NUMBER]
  <2>1. ROOT_CLUSTER_NUMBER \in Clusters
    BY <1>5
  <2> QED
    BY <1>1, <1>5, <2>1
<1>15. ASSUME NEW x \in DOMAIN at, NEW r \in Rows, ~(x = <<>> /\ r = j)
       PROVE  C[x][r] = B[x][r]
  <2>1. C[x][r] = AsTable(n[at[x]])[r] /\ B[x][r] = AsTable(m[at[x]])[r]
    BY <1>6, <1>7
  <2>2. CASE x # <<>>
    BY <1>13, <2>1, <2>2
  <2>3. CASE x = <<>>
    <3>1. r # j /\ r \in Positions
      BY <1>15, <2>3 DEF Rows
    <3> QED
      BY <1>5, <1>8, <1>9, <1>11, <1>14, <2>1, <2>3, <3>1
  <2> QED
    BY <2>2, <2>3
<1>16. ASSUME NEW x \in DOMAIN at
       PROVE  n[at[x]].kind = "dir" /\ AsTable(n[at[x]])[0] = AsTable(d[at[x]])[0]
  <2>1. CASE x # <<>>
    BY <1>7, <1>13, <2>1
  <2>2. CASE x = <<>>
    BY <1>5, <1>8, <1>9, <1>10, <1>11, <2>2
  <2> QED
    BY <2>1, <2>2
<1>17. n[BOOT_SECTOR] = Signature /\ AsFAT(n[FAT_CLUSTER_NUMBER]) = map
  <2>1. /\ BOOT_SECTOR \in Clusters /\ FAT_CLUSTER_NUMBER \in Clusters
        /\ BOOT_SECTOR \notin {at[y], ROOT_CLUSTER_NUMBER}
        /\ FAT_CLUSTER_NUMBER \notin {at[y], ROOT_CLUSTER_NUMBER}
    BY <1>1, <1>5, MapSizeAssumption
      DEF Clusters, BOOT_SECTOR, FAT_CLUSTER_NUMBER, ROOT_CLUSTER_NUMBER
  <2>2. d[BOOT_SECTOR] = Signature
    BY <1>5 DEF Sound
  <2> QED
    BY <1>1, <2>1, <2>2
<1>18. AsTable(n[BOOT_SECTOR]) = ZeroTable
  BY <1>17 DEF AsTable, Signature
<1>19. Seats(d, map, at, <<>>, j, n, B, C)
  BY <1>6, <1>15, <1>16, <1>17, <1>18 DEF Seats
<1> QED
  BY <1>12, <1>19

\* The root directory that the entry has left would grow by its row.
LEMMA VacatingGrown ==
  ASSUME NEW V, NEW d, NEW map, NEW at, NEW y, NEW i, NEW j, NEW a, NEW b, NEW m, NEW n,
         Placing(V, d, map, at, y, i, j, a, b, m), Removal(V, d, at, y, j, m, n),
         NEW B, B = Listing(m, at), NEW C, C = Listing(n, at)
  PROVE  /\ Grown(at, C, at, B, <<>>, j, <<a>>) /\ Shaped(at, C) /\ TreeOn(n, at)
         /\ \A x, r : ~Leads(C, x, r, <<a>>)
<1>1. PICK L, q : L = Listing(d, at) /\ q = Append(y, b)
  OBVIOUS
<1>2. /\ Rooms(d, map, at, y, L) /\ Luggage(d, at, y, i, j, a, b, q, L)
  BY <1>1, PlacingFacts
<1>3. /\ Seats(d, map, at, y, i, m, L, B)
  BY <1>1, PlacingRows
<1>4. /\ Seats(d, map, at, <<>>, j, n, B, C) /\ C[<<>>][j].used /\ C[<<>>][j].name = NoName
  BY RemovalRows
<1>5. Shaped(at, B) /\ Leads(B, <<>>, j, <<a>>)
  BY <1>1, PlacingGrown
<1>6. DOMAIN B = DOMAIN at /\ DOMAIN C = DOMAIN at
  BY DEF Listing
<1>7. /\ <<>> \in DOMAIN at /\ j \in Rows /\ L[<<>>][j].filesize # 0 /\ L[<<>>][j].used
      /\ <<a>> \notin DOMAIN at /\ y # <<>>
  BY <1>2 DEF Rooms, Luggage, Placing
<1>8. B[<<>>][j] = L[<<>>][j]
  BY <1>3, <1>7 DEF Seats
<1>9. /\ \A x \in DOMAIN at : B[x] \in [Rows -> PointingOff] /\ C[x] \in [Rows -> PointingOff]
      /\ \A x \in DOMAIN at, r \in Rows : (x = <<>> /\ r = j) \/ C[x][r] = B[x][r]
      /\ AsTable(n[BOOT_SECTOR]) = ZeroTable
  BY <1>3, <1>4 DEF Seats
<1>10. Grown(at, C, at, B, <<>>, j, <<a>>)
  <2>1. Vacant(<<>>, C[<<>>][j])
    BY <1>4 DEF Vacant
  <2>2. DOMAIN at = DOMAIN at \cup (IF B[<<>>][j].filesize = 0 THEN {<<a>>} ELSE {})
    BY <1>7, <1>8
  <2>3. \A x \in DOMAIN at, r \in Rows : (x = <<>> /\ r = j) \/ B[x][r] = C[x][r]
    BY <1>9
  <2> QED
    BY <1>5, <1>6, <1>7, <1>8, <1>9, <2>1, <2>2, <2>3 DEF Grown
<1>11. Shaped(at, C) /\ \A x, r : ~Leads(C, x, r, <<a>>)
  BY <1>5, <1>10, ShapedSmaller
<1>12. TreeOn(n, at)
  BY <1>9, <1>11 DEF TreeOn
<1> QED
  BY <1>10, <1>11, <1>12

\* The entries of C are those of L, but that row j of the root directory is row
\* i of y, and leads to q.
Relocated(L, C, at, y, i, j, a, q) ==
  /\ \A x, r : Live(C, x, r) => \/ x = y /\ r = i
                                \/ Live(L, x, r) /\ ~(x = <<>> /\ r = j) /\ C[x][r] = L[x][r]
  /\ \A x, r : Live(L, x, r) => \/ x = <<>> /\ r = j
                                \/ Live(C, x, r) /\ ~(x = y /\ r = i)
  /\ Live(L, <<>>, j) /\ Live(C, y, i) /\ Leads(C, y, i, q)
  /\ \A x, r, p : p \notin {<<a>>, q} => (Leads(L, x, r, p) <=> Leads(C, x, r, p))
  /\ \A x, r, p : p \notin {<<a>>, q} /\ Leads(L, x, r, p) => C[x][r] = L[x][r]
  /\ \A x, r : ~Leads(C, x, r, <<a>>)

\* Both writes together put one row in another place.
LEMMA MoveRelocates ==
  ASSUME NEW V, NEW d, NEW map, NEW at, NEW y, NEW i, NEW j, NEW a, NEW b, NEW m, NEW n,
         Placing(V, d, map, at, y, i, j, a, b, m), Removal(V, d, at, y, j, m, n),
         NEW L, L = Listing(d, at), NEW C, C = Listing(n, at), NEW q, q = Append(y, b)
  PROVE  Relocated(L, C, at, y, i, j, a, q) /\ SameFile(C[y][i], L[<<>>][j], b)
<1>1. PICK B : B = Listing(m, at)
  OBVIOUS
<1>2. y # <<>> /\ Leads(L, <<>>, j, <<a>>) /\ q # <<a>>
  <2>1. Luggage(d, at, y, i, j, a, b, q, L)
    BY PlacingFacts
  <2> QED
    BY <2>1 DEF Placing, Luggage
<1>3. Grown(at, L, at, B, y, i, q) /\ Leads(B, y, i, q) /\ Leads(B, <<>>, j, <<a>>)
  BY <1>1, PlacingGrown
<1>4. Grown(at, C, at, B, <<>>, j, <<a>>) /\ \A x, r : ~Leads(C, x, r, <<a>>)
  BY <1>1, VacatingGrown
<1>5. /\ \A x, r : Live(B, x, r) <=> Live(L, x, r) \/ (x = y /\ r = i)
      /\ \A x, r : Live(L, x, r) => ~(x = y /\ r = i) /\ B[x][r] = L[x][r]
      /\ \A x, r, p : Leads(L, x, r, p) => Leads(B, x, r, p) /\ ~(x = y /\ r = i)
      /\ \A x, r, p : Leads(B, x, r, p) => Leads(L, x, r, p) \/ (x = y /\ r = i /\ p = q)
  BY ONLY <1>3, GrownFacts
<1>6. /\ \A x, r : Live(B, x, r) <=> Live(C, x, r) \/ (x = <<>> /\ r = j)
      /\ \A x, r : Live(C, x, r) => ~(x = <<>> /\ r = j) /\ B[x][r] = C[x][r]
      /\ \A x, r, p : Leads(C, x, r, p) => Leads(B, x, r, p) /\ ~(x = <<>> /\ r = j)
      /\ \A x, r, p : Leads(B, x, r, p) => Leads(C, x, r, p) \/ (x = <<>> /\ r = j /\ p = <<a>>)
  BY <1>4, GrownFacts
<1>7. Leads(C, y, i, q) /\ Live(C, y, i) /\ Live(L, <<>>, j)
  BY <1>2, <1>3, <1>6 DEF Leads
<1>8. \A x, r : Live(C, x, r) => \/ x = y /\ r = i
                                 \/ Live(L, x, r) /\ ~(x = <<>> /\ r = j) /\ C[x][r] = L[x][r]
  BY <1>5, <1>6
<1>9. \A x, r : Live(L, x, r) => \/ x = <<>> /\ r = j
                                 \/ Live(C, x, r) /\ ~(x = y /\ r = i)
  BY <1>5, <1>6
<1>10. \A x, r, p : p \notin {<<a>>, q} => (Leads(L, x, r, p) <=> Leads(C, x, r, p))
  BY <1>5, <1>6
<1>11. ASSUME NEW x, NEW r, NEW p, p \notin {<<a>>, q}, Leads(L, x, r, p)
       PROVE  C[x][r] = L[x][r]
  <2>1. Live(L, x, r) /\ Live(C, x, r)
    BY <1>10, <1>11 DEF Leads
  <2> QED
    BY <1>5, <1>6, <2>1
<1>12. C[y][i] = B[y][i]
  BY <1>6, <1>7
<1>13. SameFile(B[y][i], L[<<>>][j], b)
  BY <1>1, PlacingRows
<1> QED
  BY <1>4, <1>7, <1>8, <1>9, <1>10, <1>11, <1>12, <1>13 DEF Relocated

(***************************************************************************)
(* What has only been relocated has the chains it had.                     *)
(***************************************************************************)
LEMMA RelocatedSame ==
  ASSUME NEW at, NEW map, NEW L, NEW C, NEW y, NEW i, NEW j, NEW a, NEW b, NEW q,
         Shaped(at, L), Allotted(map, L), Relocated(L, C, at, y, i, j, a, q),
         SameFile(C[y][i], L[<<>>][j], b)
  PROVE  SameFiles(L, C) /\ Allotted(map, C)
<1>1. /\ \A x, r : Live(C, x, r) => \/ x = y /\ r = i
                                    \/ Live(L, x, r) /\ ~(x = <<>> /\ r = j) /\ C[x][r] = L[x][r]
      /\ \A x, r : Live(L, x, r) => \/ x = <<>> /\ r = j
                                    \/ Live(C, x, r) /\ ~(x = y /\ r = i)
      /\ Live(L, <<>>, j) /\ Live(C, y, i)
  BY DEF Relocated
<1>2. C[y][i].cluster = L[<<>>][j].cluster /\ C[y][i].filesize = L[<<>>][j].filesize
  BY DEF SameFile
<1>3. ASSUME NEW x, NEW r, Live(C, x, r)
      PROVE  \E z, k : Live(L, z, k) /\ L[z][k].cluster = C[x][r].cluster
                                     /\ L[z][k].filesize = C[x][r].filesize
  BY <1>1, <1>2, <1>3
<1>4. ASSUME NEW z, NEW k, Live(L, z, k)
      PROVE  \E x, r : Live(C, x, r) /\ L[z][k].cluster = C[x][r].cluster
  BY <1>1, <1>2, <1>4
<1>5. ASSUME NEW x, NEW r, NEW z, NEW k, Live(C, x, r), Live(C, z, k),
             C[x][r].cluster = C[z][k].cluster
      PROVE  x = z /\ r = k
  <2>1. \A u, s, v, t :
          Live(L, u, s) /\ Live(L, v, t) /\ L[u][s].cluster = L[v][t].cluster => u = v /\ s = t
    BY EntriesApart
  <2>2. CASE x = y /\ r = i
    BY <1>1, <1>2, <1>5, <2>1, <2>2
  <2>3. CASE z = y /\ k = i
    BY <1>1, <1>2, <1>5, <2>1, <2>3
  <2>4. CASE ~(x = y /\ r = i) /\ ~(z = y /\ k = i)
    BY <1>1, <1>5, <2>1, <2>4
  <2> QED
    BY <2>2, <2>3, <2>4
<1>6. SameFiles(L, C)
  BY <1>3, <1>4, <1>5 DEF SameFiles
<1> QED
  BY <1>6, AllottedMoved

(***************************************************************************)
(* The move leaves a tree.                                                 *)
(***************************************************************************)
LEMMA MoveSound ==
  ASSUME NEW V, NEW d, NEW map, NEW at, NEW y, NEW i, NEW j, NEW a, NEW b, NEW m, NEW n,
         Placing(V, d, map, at, y, i, j, a, b, m), Removal(V, d, at, y, j, m, n)
  PROVE  Sound(n, map, at) /\ OwnNames(n, at) /\ RootRow(n)
<1>1. PICK L, B, C, q :
        L = Listing(d, at) /\ B = Listing(m, at) /\ C = Listing(n, at) /\ q = Append(y, b)
  OBVIOUS
<1>2. Rooms(d, map, at, y, L) /\ Luggage(d, at, y, i, j, a, b, q, L)
  BY <1>1, PlacingFacts
<1>3. /\ Shaped(at, L) /\ Seated(d, at, L) /\ Allotted(map, L) /\ at[<<>>] = ROOT_CLUSTER_NUMBER
      /\ <<>> \in DOMAIN at /\ b # AsTable(d[at[y]])[0].name
  BY <1>2 DEF Rooms, Luggage
<1>4. Seats(d, map, at, <<>>, j, n, B, C)
  BY <1>1, RemovalRows
<1>5. Relocated(L, C, at, y, i, j, a, q) /\ SameFile(C[y][i], L[<<>>][j], b)
  BY <1>1, MoveRelocates
<1>6. /\ \A x, r : Live(C, x, r) => \/ x = y /\ r = i
                                    \/ Live(L, x, r) /\ C[x][r] = L[x][r]
      /\ Live(L, <<>>, j)
  BY <1>5 DEF Relocated
<1>7. Allotted(map, C)
  BY <1>3, <1>5, RelocatedSame
<1>8. Shaped(at, C)
  BY <1>1, VacatingGrown
<1>9. /\ \A x \in DOMAIN at : n[at[x]].kind = "dir" /\ AsTable(n[at[x]])[0] = AsTable(d[at[x]])[0]
      /\ n[BOOT_SECTOR] = Signature
  BY <1>4 DEF Seats
<1>10. Seated(n, at, C)
  <2>1. \A x \in DOMAIN at : OwnRow(AsTable(n[at[x]]))
    BY <1>3, <1>9 DEF Seated, OwnRow
  <2>2. ASSUME NEW x, NEW r, Live(C, x, r)
        PROVE  C[x][r].attribute = AttributeOf(C[x][r].filesize)
    <3>1. CASE x = y /\ r = i
      <4>1. L[<<>>][j].attribute = AttributeOf(L[<<>>][j].filesize)
        BY <1>3, <1>6 DEF Seated
      <4> QED
        BY <1>5, <3>1, <4>1 DEF SameFile
    <3>2. CASE Live(L, x, r) /\ C[x][r] = L[x][r]
      BY <1>3, <3>2 DEF Seated
    <3> QED
      BY <1>6, <2>2, <3>1, <3>2
  <2> QED
    BY <1>9, <2>1, <2>2 DEF Seated
<1>11. Sound(n, map, at)
  BY <1>1, <1>7, <1>8, <1>9, <1>10 DEF Sound
<1>12. OwnNames(n, at)
  <2>1. ASSUME NEW x, NEW r, Live(C, x, r)
        PROVE  C[x][r].name # AsTable(n[at[x]])[0].name
    <3>1. x \in DOMAIN at
      BY <1>1, <2>1 DEF Live, Listing
    <3>2. CASE x = y /\ r = i
      BY <1>3, <1>5, <1>9, <3>1, <3>2 DEF SameFile
    <3>3. CASE Live(L, x, r) /\ C[x][r] = L[x][r]
      <4>1. OwnNames(d, at)
        BY DEF Placing, Scene
      <4>2. L[x][r].name # AsTable(d[at[x]])[0].name
        BY <1>1, <3>3, <4>1 DEF OwnNames
      <4> QED
        BY <1>9, <3>1, <3>3, <4>2
    <3> QED
      BY <1>6, <2>1, <3>2, <3>3
  <2> QED
    BY <1>1, <2>1 DEF OwnNames
<1>13. RootRow(n)
  <2>1. RootRow(d)
    BY DEF Placing, Scene
  <2> QED
    BY <1>3, <1>9, <2>1 DEF RootRow
<1> QED
  BY <1>11, <1>12, <1>13

\* The node at path p is at path q on disk n, and all else is as on disk d.
Carried(d, n, p, q) ==
  /\ Node(n, p) = Absent /\ Node(n, q) = Node(d, p)
  /\ \A r \in Paths : r \notin {p, q} => Node(n, r) = Node(d, r)

\* What the row stands for goes with it, and all else stays.
LEMMA MoveCarries ==
  ASSUME NEW V, NEW d, NEW map, NEW at, NEW y, NEW i, NEW j, NEW a, NEW b, NEW m, NEW n,
         Placing(V, d, map, at, y, i, j, a, b, m), Removal(V, d, at, y, j, m, n),
         NEW q, q = Append(y, b)
  PROVE  Scene(n, map, at) /\ Carried(d, n, <<a>>, q) /\ Node(m, <<a>>) # Absent
<1>1. PICK L, B, C :
        L = Listing(d, at) /\ B = Listing(m, at) /\ C = Listing(n, at)
  OBVIOUS
<1>2. Rooms(d, map, at, y, L) /\ Luggage(d, at, y, i, j, a, b, q, L)
  BY <1>1, PlacingFacts
<1>3. /\ d \in Disks(V) /\ map = AsFAT(d[FAT_CLUSTER_NUMBER]) /\ m \in Disks(V) /\ n \in Disks(V)
      /\ y \in DOMAIN at /\ Whole(d) /\ Leads(L, <<>>, j, <<a>>)
      /\ \A c \in Clusters : c \in {at[y], ROOT_CLUSTER_NUMBER} \/ n[c] = d[c]
  BY <1>1 DEF Placing, Removal, Scene
<1>4. /\ Sound(d, map, at) /\ Allotted(map, L) /\ <<>> \in DOMAIN at /\ at[<<>>] = ROOT_CLUSTER_NUMBER
      /\ q \in Paths /\ <<a>> \in Paths /\ q # <<a>>
  BY <1>2 DEF Rooms, Luggage
<1>5. Seats(d, map, at, <<>>, j, n, B, C)
  BY <1>1, RemovalRows
<1>6. Relocated(L, C, at, y, i, j, a, q) /\ SameFile(C[y][i], L[<<>>][j], b)
  BY <1>1, MoveRelocates
<1>7. /\ Live(L, <<>>, j) /\ Leads(C, y, i, q) /\ \A x, r : ~Leads(C, x, r, <<a>>)
      /\ \A x, r, p : p \notin {<<a>>, q} => (Leads(L, x, r, p) <=> Leads(C, x, r, p))
      /\ \A x, r, p : p \notin {<<a>>, q} /\ Leads(L, x, r, p) => C[x][r] = L[x][r]
  BY <1>6 DEF Relocated
<1>8. TreeOn(n, at)
  BY VacatingGrown
<1>9. /\ \A x \in DOMAIN at : n[at[x]].kind = "dir"
      /\ AsFAT(n[FAT_CLUSTER_NUMBER]) = map
  BY <1>5 DEF Seats
<1>10. Node(n, <<a>>) = Absent
  BY <1>1, <1>3, <1>4, <1>7, <1>8, NodeFacts
<1>11. OnlyFolders(d, n, at)
  BY <1>3, <1>4, <1>9 DEF OnlyFolders
<1>12. Node(n, q) = Node(d, <<a>>)
  <2>1. PICK e : e = C[y][i]
    OBVIOUS
  <2>2. e.cluster = L[<<>>][j].cluster /\ e.filesize = L[<<>>][j].filesize
        /\ e.attribute = L[<<>>][j].attribute
    BY <1>6, <2>1 DEF SameFile
  <2>3. NodeOfEntry(n, e) = NodeOfEntry(d, L[<<>>][j])
    BY <1>1, <1>3, <1>4, <1>7, <1>9, <1>11, <2>2, EntryStays
  <2>4. Node(n, q) = NodeOfEntry(n, e)
    BY <1>1, <1>3, <1>4, <1>7, <1>8, <2>1, NodeFacts
  <2>5. Node(d, <<a>>) = NodeOfEntry(d, L[<<>>][j])
    <3>1. TreeOn(d, at)
      BY <1>4, SoundTree
    <3> QED
      BY <1>1, <1>3, <1>4, <3>1, NodeFacts
  <2> QED
    BY <2>3, <2>4, <2>5
<1>13. \A r \in Paths : r \notin {<<a>>, q} => Node(n, r) = Node(d, r)
  <2>1. PICK X, Q, apart : X = {<<>>, y} /\ Q = {<<a>>, q} /\ apart = {}
    OBVIOUS
  <2>2. Alike(V, d, n, map, at, at, X, apart, Q)
    <3>1. \A x, r, p : p \notin Q => (Leads(L, x, r, p) <=> Leads(C, x, r, p))
      BY <1>7, <2>1
    <3>2. \A x, r, p : p \notin Q /\ Leads(L, x, r, p) =>
            C[x][r] = L[x][r] /\ ToSet(ChainOf(map, L, x, r)) \cap apart = {}
      BY <1>7, <2>1
    <3>3. \A c \in Clusters : c \in apart \/ c = FAT_CLUSTER_NUMBER \/ (\E x \in X : c = at[x]) \/ n[c] = d[c]
      BY <1>3, <1>4, <2>1
    <3>4. \A x \in X : n[at[x]].kind = "dir" /\ x \in DOMAIN at
      BY <1>3, <1>4, <1>9, <2>1
    <3> QED
      BY <1>1, <1>3, <1>4, <1>8, <1>9, <3>1, <3>2, <3>3, <3>4 DEF Alike
  <2> QED
    BY <2>1, <2>2, OthersKept
<1>14. Carried(d, n, <<a>>, q)
  BY <1>10, <1>12, <1>13 DEF Carried
<1>15. Whole(n)
  <2>1. \A p \in Paths : Node(d, p) # Damaged
    BY <1>3 DEF Whole
  <2> QED
    BY <1>4, <1>10, <1>12, <1>13, <2>1, KindsDiffer DEF Whole
<1>16. Scene(n, map, at)
  BY <1>15, MoveSound DEF Scene
<1>17. Node(m, <<a>>) # Absent
  <2>1. Leads(B, <<>>, j, <<a>>) /\ TreeOn(m, at)
    BY <1>1, PlacingGrown
  <2>2. Node(m, <<a>>) = NodeOfEntry(m, B[<<>>][j])
    BY <1>1, <1>3, <1>4, <2>1, NodeFacts
  <2> QED
    BY <2>2, EntryKind
<1> QED
  BY <1>14, <1>16, <1>17

-----------------------------------------------------------------------------
(* Where a moved path comes from, and the image *)

LEMMA OriginFacts ==
  ASSUME NEW from \in Seq(Names), NEW to \in Seq(Names), NEW p \in Seq(Names), IsPrefix(to, p),
         NEW o, o = Origin(from, to, p)
  PROVE  IsPrefix(from, o) /\ (o = from <=> p = to)
<1>1. PICK l, k, n, s : l = Len(from) /\ k = Len(to) /\ n = Len(p) /\ s = SubSeq(p, k + 1, n)
  OBVIOUS
<1>2. l \in Nat /\ k \in Nat /\ n \in Nat
  BY <1>1, LenProperties
<1>3. k <= n
  BY <1>1, PrefixFacts
<1>4. s \in Seq(Names) /\ Len(s) = n - k
  <2>1. \A i \in k + 1 .. n : p[i] \in Names
    BY <1>1, <1>2, ElementOfSeq
  <2>2. k + 1 \in Int /\ n \in Int
    BY <1>2
  <2>3. /\ SubSeq(p, k + 1, n) \in Seq(Names)
        /\ Len(SubSeq(p, k + 1, n)) = IF k + 1 <= n THEN n - (k + 1) + 1 ELSE 0
    BY <2>1, <2>2, SubSeqProperties
  <2> QED
    BY <1>1, <1>2, <1>3, <2>3
<1>5. o = from \o s
  BY <1>1 DEF Origin
<1>6. /\ o \in Seq(Names) /\ Len(o) = l + (n - k)
      /\ \A i \in 1 .. l + (n - k) : o[i] = IF i <= l THEN from[i] ELSE s[i - l]
  <2>1. /\ o \in Seq(Names) /\ Len(o) = Len(from) + Len(s)
        /\ \A i \in 1 .. Len(from) + Len(s) :
             o[i] = IF i <= Len(from) THEN from[i] ELSE s[i - Len(from)]
    BY ONLY from \in Seq(Names), <1>4, <1>5, ConcatProperties
  <2> QED
    BY <1>1, <1>4, <2>1
<1>7. IsPrefix(from, o)
  <2>1. Len(from) <= Len(o) /\ \A i \in 1 .. Len(from) : from[i] = o[i]
    BY <1>1, <1>2, <1>3, <1>6
  <2> QED
    BY <1>6, <2>1, PrefixFacts
<1>8. ASSUME p = to
      PROVE  o = from
  <2>1. n = k
    BY <1>1, <1>8
  <2>2. Len(o) = Len(from) /\ \A i \in 1 .. Len(from) : from[i] = o[i]
    BY <1>1, <1>2, <1>6, <2>1
  <2> QED
    BY <1>6, <2>2, SeqEqual
<1>9. ASSUME p # to
      PROVE  o # from
  <2>1. n # k
    BY <1>1, <1>3, <1>9, PrefixFacts
  <2> QED
    BY <1>1, <1>2, <1>6, <2>1
<1> QED
  BY <1>7, <1>8, <1>9

\* The file at one path is at another on disk n, and all else is as on disk d.
FileCarried(V, d, n, map, at, big, p, q) ==
  /\ d \in Disks(V) /\ Sound(d, map, at) /\ map = AsFAT(d[FAT_CLUSTER_NUMBER])
  /\ n \in Disks(V) /\ Sound(n, map, big) /\ map = AsFAT(n[FAT_CLUSTER_NUMBER])
  /\ p \in Paths /\ q \in Paths /\ p # q /\ Node(d, p) # Folder /\ Carried(d, n, p, q)

(***************************************************************************)
(* What is carried has moved: nothing is below a file.                     *)
(***************************************************************************)
LEMMA CarriedIsMoved ==
  ASSUME NEW V, NEW d, NEW n, NEW map, NEW at, NEW big, NEW from, NEW to,
         FileCarried(V, d, n, map, at, big, from, to)
  PROVE  Tree(n) = Moved(Tree(d), from, to)
<1>1. /\ d \in Disks(V) /\ Sound(d, map, at) /\ map = AsFAT(d[FAT_CLUSTER_NUMBER])
      /\ n \in Disks(V) /\ Sound(n, map, big) /\ map = AsFAT(n[FAT_CLUSTER_NUMBER])
      /\ from \in Paths /\ to \in Paths /\ from # to /\ Node(d, from) # Folder
      /\ Node(n, from) = Absent /\ Node(n, to) = Node(d, from)
      /\ \A r \in Paths : r \notin {from, to} => Node(n, r) = Node(d, r)
  BY DEF FileCarried, Carried
<1>2. from \in Seq(Names) /\ to \in Seq(Names)
  BY <1>1, PathFacts
<1>3. ASSUME NEW p \in Paths
      PROVE  Node(n, p) = Moved(Tree(d), from, to)[p]
  <2>1. PICK o : o = Origin(from, to, p)
    OBVIOUS
  <2>2. p \in Seq(Names)
    BY PathFacts
  <2>3. /\ IsPrefix(to, p) => Moved(Tree(d), from, to)[p] = IF o \in Paths THEN Tree(d)[o] ELSE Absent
        /\ ~IsPrefix(to, p) /\ IsPrefix(from, p) => Moved(Tree(d), from, to)[p] = Absent
        /\ ~IsPrefix(to, p) /\ ~IsPrefix(from, p) => Moved(Tree(d), from, to)[p] = Tree(d)[p]
    BY <2>1, MovedAt
  <2>4. CASE IsPrefix(to, p) /\ p = to
    <3>1. o = from
      BY <1>2, <2>1, <2>2, <2>4, OriginFacts
    <3> QED
      BY <1>1, <2>3, <2>4, <3>1 DEF Tree
  <2>5. CASE IsPrefix(to, p) /\ p # to
    <3>1. Node(n, p) = Absent
      BY <1>1, <2>5, OnlyBelowFolders
    <3>2. IsPrefix(from, o) /\ o # from
      <4>1. IsPrefix(to, p) /\ p # to
        BY <2>5
      <4> QED
        BY ONLY <1>2, <2>1, <2>2, <4>1, OriginFacts
    <3>3. o \in Paths => Node(d, o) = Absent
      BY <1>1, <3>2, OnlyBelowFolders
    <3> QED
      BY <2>3, <2>5, <3>1, <3>3 DEF Tree
  <2>6. CASE ~IsPrefix(to, p) /\ IsPrefix(from, p)
    <3>1. Node(n, p) = Absent
      BY <1>1, <2>6, OnlyBelowFolders, KindsDiffer
    <3> QED
      BY <2>3, <2>6, <3>1
  <2>7. CASE ~IsPrefix(to, p) /\ ~IsPrefix(from, p)
    <3>1. IsPrefix(to, to) /\ IsPrefix(from, from)
      BY <1>2, PrefixFacts
    <3>2. p \notin {from, to}
      BY <2>7, <3>1
    <3> QED
      BY <1>1, <2>3, <2>7, <3>2 DEF Tree
  <2> QED
    BY <2>4, <2>5, <2>6, <2>7
<1>4. Moved(Tree(d), from, to) = [p \in Paths |-> Moved(Tree(d), from, to)[p]]
  BY DEF Moved
<1>5. Tree(n) = [p \in Paths |-> Moved(Tree(d), from, to)[p]]
  BY <1>3 DEF Tree
<1> QED
  BY <1>4, <1>5

-----------------------------------------------------------------------------
(* The way to the destination of mv, in a tree *)

\* What the recursion of the way down says.
Descending(f, folders) ==
  f[0] = Top /\ \A k \in 1 .. Len(folders) : f[k] = Descend(f[k - 1], folders[k])

\* The recursion has the values that it defines.
LEMMA DestinationFacts ==
  ASSUME NEW folders, Len(folders) \in Nat
  PROVE  \E f : Destination(folders) = f[Len(folders)] /\ Descending(f, folders)
<1> DEFINE n == Len(folders)
           f == CHOOSE g : g = DescentStep(g, folders)
<1>1. f = DescentStep(f, folders)
  BY DescentExists
<1>2. Destination(folders) = f[n]
  BY DEF Destination, DescentStep, Top
<1> HIDE DEF f
<1>3. \A k \in 0 .. n : f[k] = IF k = 0 THEN Top ELSE Descend(f[k - 1], folders[k])
  BY <1>1 DEF DescentStep
<1>4. n \in Nat
  OBVIOUS
<1> HIDE DEF n
<1>5. f[0] = Top
  BY <1>3, <1>4
<1>6. \A k \in 1 .. n : f[k] = Descend(f[k - 1], folders[k])
  BY <1>3, <1>4
<1> QED
  BY <1>2, <1>5, <1>6 DEF Descending, n

\* The way has led to the folder at x.
Arrived(w, at, x) ==
  w.ok /\ w.table = AsTable(disk[at[x]]) /\ w.cluster = at[x] /\ w.above = at[x]

\* One more step of the way down leads to the folder of that name.
LEMMA DescendTo ==
  ASSUME NEW V, NEW at, Home(V, at), Scene(disk, fat, at), NEW x \in DOMAIN at, NEW name \in Names,
         NEW y \in DOMAIN at, y = Append(x, name), NEW w, Arrived(w, at, x),
         NEW v, v = Descend(w, name)
  PROVE  Arrived(v, at, y)
<1>1. PICK L : L = Listing(disk, at)
  OBVIOUS
<1>2. disk \in Disks(V) /\ Shaped(at, L)
  BY <1>1, SoundTree DEF Home, Settled, Scene
<1>3. y # <<>> /\ Front(y) = x /\ Last(y) = name
  <2>1. x \in Seq(Names)
    BY <1>2, ShapedFacts
  <2> QED
    BY <2>1, AppendFacts
<1>4. PICK j : Leads(L, x, j, y) /\ L[x][j].filesize = 0 /\ L[x][j].cluster = at[y]
  <2>1. PICK z, j : Leads(L, z, j, y) /\ L[z][j].filesize = 0
    BY <1>2, <1>3 DEF Shaped
  <2>2. z = x
    BY <1>2, <1>3, <2>1, ShapedFacts
  <2>3. L[z][j].cluster = at[y]
    <3>1. Live(L, z, j) /\ Append(z, L[z][j].name) = y
      BY <2>1 DEF Leads
    <3>2. at[Append(z, L[z][j].name)] = L[z][j].cluster
      BY <1>2, <2>1, <3>1 DEF Shaped
    <3> QED
      BY ONLY <3>1, <3>2
  <2> QED
    BY <2>1, <2>2, <2>3
<1>5. PICK table : table = AsTable(disk[at[x]])
  OBVIOUS
<1>6. Matches(table, name) # {} /\ Min(Matches(table, name)) = j /\ table[j] = L[x][j]
  <2>1. Leads(Listing(disk, at), x, j, Append(x, name))
    BY <1>1, <1>4
  <2> QED
    BY <1>1, <1>2, <1>5, <2>1, LookupIn
<1>7. DirectoryRead(at[x], name) = [ret |-> 0, data |-> disk[at[y]]]
  <2>1. y \in DOMAIN at \ {<<>>}
    BY <1>3
  <2> QED
    BY <1>3, <2>1, ReadsItself
<1>8. w.ok /\ w.table = table /\ w.above = at[x]
  BY <1>5 DEF Arrived
<1>9. v = [ok |-> TRUE, table |-> AsTable(disk[at[y]]), cluster |-> at[y], above |-> at[y]]
  <2>1. v = IF ~w.ok THEN w
            ELSE IF Matches(w.table, name) = {} THEN [w EXCEPT !.ok = FALSE]
            ELSE IF DirectoryRead(w.above, name).ret # 0 THEN [w EXCEPT !.ok = FALSE]
            ELSE [ok |-> TRUE, table |-> AsTable(DirectoryRead(w.above, name).data),
                  cluster |-> w.table[Min(Matches(w.table, name))].cluster,
                  above |-> w.table[Min(Matches(w.table, name))].cluster]
    BY Zenon DEF Descend
  <2>2. PICK r, c : r = DirectoryRead(w.above, name) /\ c = w.table[Min(Matches(w.table, name))].cluster
    OBVIOUS
  <2>3. r.ret = 0 /\ r.data = disk[at[y]]
    BY <1>7, <1>8, <2>2
  <2>4. c = at[y]
    BY <1>4, <1>6, <1>8, <2>2
  <2>5. w.ok /\ Matches(w.table, name) # {}
    BY <1>6, <1>8
  <2>6. v = [ok |-> TRUE, table |-> AsTable(r.data), cluster |-> c, above |-> c]
    BY <2>1, <2>2, <2>3, <2>5
  <2> QED
    BY <2>3, <2>4, <2>6
<1> QED
  BY <1>9 DEF Arrived

LEMMA ArrivedAtTop ==
  ASSUME NEW V, NEW at, Home(V, at), Scene(disk, fat, at)
  PROVE  Arrived(Top, at, <<>>) /\ <<>> \in DOMAIN at
<1>1. at[<<>>] = ROOT_CLUSTER_NUMBER /\ <<>> \in DOMAIN at
  BY SoundTree DEF Scene, Shaped
<1>2. DirectoryRead(ROOT_CLUSTER_NUMBER, Root) = [ret |-> 0, data |-> disk[ROOT_CLUSTER_NUMBER]]
  BY ReadsItself
<1> QED
  BY <1>1, <1>2 DEF Arrived, Top

LEMMA BeginningsAre ==
  ASSUME NEW at, NEW L, Shaped(at, L), NEW y \in DOMAIN at, NEW k \in 0 .. Len(y)
  PROVE  Upto(y, k) \in DOMAIN at /\ Upto(y, k) \in Seq(Names) /\ Upto(y, Len(y)) = y
<1>1. y \in Seq(Names) /\ Len(y) \in Nat /\ k \in Nat /\ k <= Len(y)
  <2>1. y \in Seq(Names)
    BY ShapedFacts
  <2>2. Len(y) \in Nat
    BY <2>1, LenProperties
  <2> QED
    BY <2>1, <2>2
<1>2. PICK x : x = Upto(y, k)
  OBVIOUS
<1>3. Len(x) = k /\ \A i \in 1 .. k : x[i] = y[i]
  BY <1>1, <1>2, UptoFacts
<1>4. x \in Seq(Names)
  <2>1. \A i \in 1 .. k : y[i] \in Names
    BY <1>1, ElementOfSeq
  <2> QED
    BY <1>1, <1>2, <2>1 DEF Upto
<1>5. IsPrefix(x, y)
  BY <1>1, <1>3, <1>4, PrefixFacts
<1>6. x \in DOMAIN at
  BY <1>4, <1>5, PrefixesAreFolders
<1>7. Upto(y, Len(y)) = y
  BY <1>1 DEF Upto
<1> QED
  BY <1>2, <1>4, <1>6, <1>7

(***************************************************************************)
(* The way along the names of a folder's path leads to the folder.         *)
(***************************************************************************)
LEMMA DestinationAt ==
  ASSUME NEW V, NEW at, Home(V, at), Scene(disk, fat, at), NEW y \in DOMAIN at
  PROVE  Arrived(Destination(y), at, y)
<1>1. PICK L : L = Listing(disk, at)
  OBVIOUS
<1>2. Shaped(at, L)
  BY <1>1, SoundTree DEF Scene
<1>3. y \in Seq(Names) /\ Len(y) \in Nat
  <2>1. y \in Seq(Names)
    BY <1>2, ShapedFacts
  <2> QED
    BY <2>1, LenProperties
<1>4. PICK f : Destination(y) = f[Len(y)] /\ Descending(f, y)
  BY <1>3, DestinationFacts
<1> DEFINE S == {k \in 0 .. Len(y) : Arrived(f[k], at, Upto(y, k))}
<1>5. 0 \in S
  <2>1. Upto(y, 0) = <<>>
    BY UptoFacts
  <2>2. f[0] = Top
    BY <1>4 DEF Descending
  <2>3. Arrived(Top, at, <<>>)
    BY ArrivedAtTop
  <2> QED
    BY <1>3, <2>1, <2>2, <2>3
<1>6. ASSUME NEW k \in 0 .. Len(y), k < Len(y), k \in S
      PROVE  k + 1 \in S
  <2>1. k + 1 \in 1 .. Len(y) /\ k + 1 - 1 = k /\ k + 1 \in 0 .. Len(y) /\ k \in Nat
    BY <1>3, <1>6
  <2>2. f[k + 1] = Descend(f[k], y[k + 1])
    BY <1>4, <2>1 DEF Descending
  <2>3. y[k + 1] \in Names
    BY <1>3, <2>1, ElementOfSeq
  <2>4. Upto(y, k) \in DOMAIN at /\ Upto(y, k) \in Seq(Names)
    BY <1>2, BeginningsAre
  <2>5. Upto(y, k + 1) \in DOMAIN at
    BY <1>2, <2>1, BeginningsAre
  <2>6. Upto(y, k + 1) = Append(Upto(y, k), y[k + 1])
    BY <2>1, <2>3, <2>4, UptoNext
  <2>7. Arrived(f[k], at, Upto(y, k))
    BY <1>6
  <2>8. Arrived(f[k + 1], at, Upto(y, k + 1))
    BY <2>2, <2>3, <2>4, <2>5, <2>6, <2>7, DescendTo
  <2> QED
    BY <2>1, <2>8
<1>7. \A k \in 0 .. Len(y) : k \in S
  <2> HIDE DEF S
  <2> QED
    BY <1>3, <1>5, <1>6, CountingUp
<1>8. Arrived(f[Len(y)], at, Upto(y, Len(y)))
  BY <1>3, <1>7
<1>9. Upto(y, Len(y)) = y
  <2>1. Len(y) \in 0 .. Len(y)
    BY <1>3
  <2> QED
    BY <1>2, <2>1, BeginningsAre
<1> QED
  BY <1>4, <1>8, <1>9

(***************************************************************************)
(* With a first name that is not in the root directory it leads nowhere.   *)
(***************************************************************************)
LEMMA DestinationFails ==
  ASSUME NEW V, NEW at, Working(V, at), NEW folders, Len(folders) \in Nat \ {0},
         NEW name, folders[1] = name, Matches(AsTable(disk[ROOT_CLUSTER_NUMBER]), name) = {}
  PROVE  ~Destination(folders).ok
<1>1. PICK f : Destination(folders) = f[Len(folders)] /\ Descending(f, folders)
  BY DestinationFacts
<1>2. PICK n \in Nat \ {0} : n = Len(folders)
  OBVIOUS
<1>3. ~f[1].ok
  <2>1. f[1] = Descend(Top, name)
    <3>1. 1 \in 1 .. n /\ 1 - 1 = 0
      BY <1>2
    <3> QED
      BY <1>1, <1>2, <3>1 DEF Descending
  <2>2. Arrived(Top, at, <<>>) /\ at[<<>>] = ROOT_CLUSTER_NUMBER
    BY ArrivedAtTop, SoundTree DEF Working, Scene, Shaped
  <2>3. Matches(Top.table, name) = {} /\ Top.ok
    BY <2>2 DEF Arrived
  <2>4. Descend(Top, name) = [Top EXCEPT !.ok = FALSE]
    BY <2>3 DEF Descend
  <2>5. ~[Top EXCEPT !.ok = FALSE].ok
    BY DEF Top
  <2> QED
    BY <2>1, <2>4, <2>5
<1> DEFINE S == {k \in Nat : k = 0 \/ ~f[k].ok}
<1>4. 0 \in S
  OBVIOUS
<1>5. ASSUME NEW k \in 0 .. n, k < n, k \in S
      PROVE  k + 1 \in S
  <2>1. CASE k = 0
    BY <1>3, <2>1
  <2>2. CASE k # 0
    <3>1. k + 1 \in 1 .. n /\ k + 1 - 1 = k
      BY <1>2, <1>5
    <3>2. f[k + 1] = Descend(f[k], folders[k + 1]) /\ ~f[k].ok
      BY <1>1, <1>2, <1>5, <2>2, <3>1 DEF Descending
    <3>3. f[k + 1] = f[k]
      BY <3>2 DEF Descend
    <3> QED
      BY <3>1, <3>2, <3>3
  <2> QED
    BY <2>1, <2>2
<1>6. \A k \in 0 .. n : k \in S
  <2> HIDE DEF S
  <2> QED
    BY <1>2, <1>4, <1>5, CountingUp
<1> QED
  BY <1>1, <1>2, <1>6

\* The path behind the leading '/', as it is on the stack
Route(first, path) == <<first>> \o Tail(path)

\* The path on the stack is the path that was typed, if its first name is.
LEMMA RouteFacts ==
  ASSUME NEW path \in Paths, Len(path) > 1, NEW first, NEW r, r = Route(first, path)
  PROVE  /\ first = Head(path) => r = path
         /\ Len(Front(r)) \in Nat \ {0} /\ Front(r)[1] = first
<1> DEFINE S == Names \cup {first}
<1>1. PICK n \in Nat : n = Len(path)
  BY PathsAssumption
<1>2. path \in Seq(Names) /\ n > 1
  BY <1>1, PathsAssumption
<1>3. PICK t : t = Tail(path)
  OBVIOUS
<1>4. t \in Seq(Names) /\ Len(t) = n - 1 /\ \A i \in 1 .. n - 1 : t[i] = path[i + 1]
  BY <1>1, <1>2, <1>3, HeadTailProperties, EmptySeq
<1>5. r = <<first>> \o t
  BY <1>3 DEF Route
<1>6. Len(r) = n /\ r \in Seq(S) /\ \A i \in 1 .. n : r[i] = IF i = 1 THEN first ELSE t[i - 1]
  <2>1. t \in Seq(S) /\ <<first>> \in Seq(S) /\ Len(<<first>>) = 1 /\ <<first>>[1] = first
    BY <1>4
  <2> HIDE DEF S
  <2>2. /\ r \in Seq(S) /\ Len(r) = 1 + Len(t)
        /\ \A i \in 1 .. 1 + Len(t) : r[i] = IF i <= 1 THEN <<first>>[i] ELSE t[i - 1]
    BY <1>5, <2>1, ConcatProperties
  <2> QED
    BY <1>2, <1>4, <2>1, <2>2
<1>7. ASSUME first = Head(path)
      PROVE  r = path
  <2>1. \A i \in 1 .. n : r[i] = path[i]
    <3>1. ASSUME NEW i \in 1 .. n
          PROVE  r[i] = path[i]
      <4>1. CASE i = 1
        BY <1>2, <1>6, <1>7, <4>1
      <4>2. CASE i # 1
        <5>1. i - 1 \in 1 .. n - 1 /\ i - 1 + 1 = i
          BY <1>2, <4>2
        <5> QED
          BY <1>4, <1>6, <4>2, <5>1
      <4> QED
        BY <4>1, <4>2
    <3> QED
      BY <3>1
  <2>2. path \in Seq(S)
    BY <1>2
  <2> HIDE DEF S
  <2> QED
    BY <1>1, <1>6, <2>1, <2>2, SeqEqual
<1>8. Len(Front(r)) = n - 1 /\ Front(r)[1] = first
  BY <1>2, <1>6 DEF Front
<1> QED
  BY <1>2, <1>7, <1>8

(***************************************************************************)
(* mv of a file to a folder moves the file, or nothing.                    *)
(***************************************************************************)
LEMMA MoveLeaves ==
  ASSUME NEW V, NEW at, Working(V, at), CursorInv, DEPTH = 0,
         NEW source \in Names, NEW s, NEW path \in Paths, Len(path) > 1, NEW first, NEW garbage,
         NoOther(s, source, ROOT_CLUSTER_NUMBER),
         NoOther(first, Head(path), ROOT_CLUSTER_NUMBER),
         Node(disk, <<source>>).kind = "file", Node(disk, Front(path)) = Folder,
         Fresh(Last(path), DirectoryCluster(disk, Front(path))),
         HasRoom(DirectoryCluster(disk, Front(path))),
         NEW e, e = MoveEffect(s, Route(first, path), garbage)
  PROVE  \/ \E ret : e = Refused(ret) /\ e.ret # 0
         \/ Moves(e, <<source>>, path)
<1>1. /\ Home(V, at) /\ Scene(disk, fat, at) /\ Sound(disk, fat, at) /\ disk \in Disks(V)
      /\ Settled(V) /\ fat = AsFAT(disk[FAT_CLUSTER_NUMBER])
  BY DEF Working, Home, Settled, Scene, AsFAT, FATImage
<1>2. /\ CURRENT_DIR_PARENT_CLUSTER_NUMBER = ROOT_CLUSTER_NUMBER
      /\ CurrentDirectory.ret = 0 /\ CurrentDirectory.data = disk[ROOT_CLUSTER_NUMBER]
  BY AtTop
<1>3. PICK r, table, found, j, dest, room, i :
        /\ r = Route(first, path) /\ table = AsTable(disk[ROOT_CLUSTER_NUMBER])
        /\ found = Matches(table, s) /\ j = Min(found) /\ dest = Destination(Front(r))
        /\ room = UnusedPositions(dest.table) /\ i = Min(room)
  OBVIOUS
<1>4. PICK t, u, w :
        /\ t = [dest.table EXCEPT ![i] = MovedEntry(table[j], Last(r))]
        /\ u = Vacated(table, j)
        /\ w = <<write_cluster(dest.cluster, Table(t)), write_cluster(ROOT_CLUSTER_NUMBER, Table(u))>>
  OBVIOUS
<1>5. e = IF garbage # 0 THEN Refused(-1)
          ELSE IF found = {} THEN Refused(1)
          ELSE IF ~dest.ok THEN Refused(2)
          ELSE IF room = {} THEN WriteTables(<<>>)
          ELSE WriteTables(w)
  <2>1. e = IF CurrentDirectory.ret # 0 \/ garbage # 0 THEN Refused(-1)
            ELSE IF found = {} THEN Refused(1)
            ELSE IF ~dest.ok THEN Refused(2)
            ELSE IF room = {} THEN WriteTables(<<>>)
            ELSE WriteTables(<<write_cluster(dest.cluster, Table(t)),
                               write_cluster(CURRENT_DIR_PARENT_CLUSTER_NUMBER, Table(u))>>)
    <3>1. e = MoveEffect(s, r, garbage)
      BY <1>3
    <3> QED
      BY <1>2, <1>3, <1>4, <3>1, Zenon DEF MoveEffect, MoveWrites
  <2> QED
    BY <1>2, <1>4, <2>1
<1>6. CASE garbage # 0 \/ found = {} \/ ~dest.ok
  BY <1>5, <1>6, RefusedReturns
<1>7. CASE garbage = 0 /\ found # {} /\ dest.ok
  <2>1. s = source
    BY <1>3, <1>7, OnlyTheName
  <2>2. r = path
    <3>1. Len(Front(r)) \in Nat \ {0} /\ Front(r)[1] = first
      BY <1>3, RouteFacts
    <3>2. Matches(AsTable(disk[ROOT_CLUSTER_NUMBER]), first) # {}
      BY <1>3, <1>7, <3>1, DestinationFails
    <3>3. first = Head(path)
      BY <3>2, OnlyTheName
    <3> QED
      BY <1>3, <3>3, RouteFacts
  <2>3. PICK y, b : y = Front(path) /\ b = Last(path)
    OBVIOUS
  <2>4. y \in Paths /\ y # <<>> /\ b \in Names /\ Append(y, b) = path
    BY <2>3, PathFacts, PathsAssumption
  <2>5. y \in DOMAIN at /\ DirectoryCluster(disk, y) = at[y]
    BY <1>1, <2>3, <2>4, FolderNodes, PlacesAre
  <2>6. dest.table = AsTable(disk[at[y]]) /\ dest.cluster = at[y]
    <3>1. Arrived(dest, at, y)
      BY <1>1, <1>3, <2>2, <2>3, <2>5, DestinationAt
    <3> QED
      BY <3>1 DEF Arrived
  <2>7. Matches(AsTable(disk[at[y]]), b) = {} /\ room # {}
    BY <1>3, <2>3, <2>5, <2>6 DEF Fresh, HasRoom
  <2>8. e = Effect(0, fat, w) /\ e.ret = 0 /\ e.fat = fat /\ e.writes = w
    BY <1>5, <1>7, <2>7 DEF Effect, WriteTables
  <2>9. /\ Leads(Listing(disk, at), <<>>, j, <<source>>) /\ j \in Rows /\ table \in Tables
        /\ table[j] \in Entries /\ Node(disk, <<source>>) = NodeOfEntry(disk, table[j])
        /\ <<source>> \in Paths
    BY <1>3, <1>7, <2>1, FoundAtTop
  <2>10. dest.table \in Tables
    <3>1. Shaped(at, Listing(disk, at))
      BY <1>1, SoundTree
    <3> QED
      BY <1>1, <2>5, <2>6, <3>1, ListingFacts
  <2>11. i \in Positions /\ ~dest.table[i].used
    <3>1. room \subseteq Nat
      BY <1>3, SizeFacts DEF UnusedPositions
    <3>2. i \in room
      BY <1>3, <2>7, <3>1, MinProperty
    <3> QED
      BY <1>3, <3>2 DEF UnusedPositions
  <2>12. t \in Tables
    <3>1. MovedEntry(table[j], b) \in PointingOff
      <4>1. table[j] \in PointingOff
        BY <2>9 DEF Tables, Rows
      <4> QED
        BY <2>4, <4>1 DEF MovedEntry, PointingOff, Entries
    <3>2. t = [dest.table EXCEPT ![i] = MovedEntry(table[j], b)]
      BY <1>4, <2>2, <2>3
    <3> QED
      BY <2>10, <2>11, <3>1, <3>2 DEF Tables
  <2>13. u \in Tables
    <3>1. table[j] \in PointingOff /\ j \in Positions
      BY <2>9 DEF Tables, Rows
    <3>2. PICK v : v = [table[j] EXCEPT !.name = NoName]
      OBVIOUS
    <3>3. v \in PointingOff
      BY <3>1, <3>2 DEF PointingOff, Entries
    <3>4. u = [table EXCEPT ![j] = v]
      BY <1>4, <3>2, Zenon DEF Vacated
    <3> QED
      BY <2>9, <3>1, <3>3, <3>4 DEF Tables
  <2>14. at[y] \in OffFAT /\ ROOT_CLUSTER_NUMBER \in OffFAT /\ at[y] # ROOT_CLUSTER_NUMBER
    <3>1. Shaped(at, Listing(disk, at)) /\ Allotted(fat, Listing(disk, at))
      BY <1>1, SoundTree
    <3>2. at[y] \in OffFAT /\ <<>> \in DOMAIN at /\ at[<<>>] = ROOT_CLUSTER_NUMBER
      BY <2>5, <3>1 DEF Shaped
    <3>3. at[y] # at[<<>>]
      BY <2>4, <2>5, <3>1, <3>2, FoldersApart
    <3> QED
      BY <3>2, <3>3, EmptyTyped
  <2>15. PICK m, n : m = Begun(disk, w, 1) /\ n = Written(disk, w)
    OBVIOUS
  <2>16. /\ w \in Seq(Writes(V)) /\ w # <<>> /\ Len(w) = 2
         /\ Begun(disk, w, 0) = disk /\ Begun(disk, w, 2) = n
         /\ m \in Disks(V) /\ n \in Disks(V)
         /\ m[at[y]] = Table(t) /\ n[at[y]] = Table(t) /\ n[ROOT_CLUSTER_NUMBER] = Table(u)
         /\ \A c \in Clusters : c = at[y] \/ m[c] = disk[c]
         /\ \A c \in Clusters : c \in {at[y], ROOT_CLUSTER_NUMBER} \/ n[c] = disk[c]
    <3>1. PICK c, g : c = at[y] /\ g = ROOT_CLUSTER_NUMBER
      OBVIOUS
    <3>2. c \in OffFAT /\ g \in OffFAT /\ g # c
      BY <2>14, <3>1
    <3>3. TwoWrites(w, c, t, g, u)
      BY <1>4, <2>6, <3>1 DEF TwoWrites
    <3>4. /\ w \in Seq(Writes(V)) /\ w # <<>> /\ Len(w) = 2
          /\ Begun(disk, w, 0) = disk /\ Begun(disk, w, 2) = Written(disk, w)
          /\ Begun(disk, w, 1) \in Disks(V) /\ Written(disk, w) \in Disks(V)
          /\ Begun(disk, w, 1)[c] = Table(t) /\ Written(disk, w)[c] = Table(t)
          /\ Written(disk, w)[g] = Table(u)
          /\ \A f \in Clusters : f = c \/ Begun(disk, w, 1)[f] = disk[f]
          /\ \A f \in Clusters : f \in {c, g} \/ Written(disk, w)[f] = disk[f]
      BY ONLY <1>1, <2>12, <2>13, <3>2, <3>3, TwoTables
    <3> QED
      BY <2>15, <3>1, <3>4
  <2>17. Placing(V, disk, fat, at, y, i, j, source, b, m)
    <3>1. ~AsTable(disk[at[y]])[i].used
      BY <2>6, <2>11
    <3>2. m[at[y]] = Table([AsTable(disk[at[y]]) EXCEPT
                              ![i] = MovedEntry(AsTable(disk[ROOT_CLUSTER_NUMBER])[j], b)])
      BY <1>3, <1>4, <2>2, <2>3, <2>6, <2>16
    <3> QED
      BY <1>1, <2>4, <2>5, <2>7, <2>9, <2>11, <2>16, <3>1, <3>2 DEF Placing
  <2>18. Removal(V, disk, at, y, j, m, n)
    BY <1>3, <1>4, <2>16 DEF Removal
  <2>19. Scene(n, fat, at) /\ Carried(disk, n, <<source>>, path) /\ Node(m, <<source>>) # Absent
    BY <2>4, <2>17, <2>18, MoveCarries
  <2>20. Left(e) = n
    BY <2>8, <2>15 DEF Left
  <2>21. \E big : Scene(Left(e), e.fat, big) /\ OnTrail(big)
    <3>1. OnTrail(at)
      BY <2>19, AtTop DEF Scene
    <3> QED
      BY <2>8, <2>19, <2>20, <3>1
  <2>22. Tree(n) = Moved(Tree(disk), <<source>>, path)
    <3>1. FAT_CLUSTER_NUMBER \in Clusters /\ FAT_CLUSTER_NUMBER \notin {at[y], ROOT_CLUSTER_NUMBER}
      BY <2>14, MapSizeAssumption DEF OffFAT, Clusters, FAT_CLUSTER_NUMBER
    <3>2. fat = AsFAT(n[FAT_CLUSTER_NUMBER])
      BY <1>1, <2>16, <3>1
    <3>3. Node(disk, <<source>>) # Folder
      BY DEF Folder
    <3>4. <<source>> # path
      BY <2>4
    <3>5. FileCarried(V, disk, n, fat, at, at, <<source>>, path)
      BY <1>1, <2>9, <2>16, <2>19, <3>2, <3>3, <3>4 DEF FileCarried, Scene
    <3> QED
      BY <3>5, CarriedIsMoved
  <2>23. NeverNeither(w, <<source>>, path)
    <3>1. Node(disk, <<source>>) # Absent
      BY <2>9, EntryKind
    <3>2. Node(n, path) # Absent
      BY <2>19, <3>1 DEF Carried
    <3>3. \A k \in 0 .. Len(w) : k = 0 \/ k = 1 \/ k = 2
      BY <2>16
    <3> QED
      BY <2>15, <2>16, <2>19, <3>1, <3>2, <3>3 DEF NeverNeither
  <2> QED
    BY <2>8, <2>16, <2>20, <2>21, <2>22, <2>23 DEF Moves
<1> QED
  BY <1>6, <1>7

-----------------------------------------------------------------------------
(* The image is a scene *)

\* create_fat32 leaves the root directory with its own row.
LEMMA RootIsWritten ==
  ASSUME NEW d
  PROVE  Written(d, create_fat32)[ROOT_CLUSTER_NUMBER]
           = Table(init_directory_table("root", ROOT_CLUSTER_NUMBER))
<1>1. PICK w, t : w = create_fat32 /\ t = Table(init_directory_table("root", ROOT_CLUSTER_NUMBER))
  OBVIOUS
<1>2. Len(w) = 3 /\ w[3] = write_cluster(ROOT_CLUSTER_NUMBER, t)
  BY <1>1 DEF create_fat32
<1>3. w[3].cluster = ROOT_CLUSTER_NUMBER /\ w[3].content = t /\ ROOT_CLUSTER_NUMBER \in Clusters
  BY <1>2, EmptyTyped DEF write_cluster
<1>4. LastWrite(w, 3) /\ 3 \in 1 .. Len(w)
  BY <1>2 DEF LastWrite
<1>5. Written(d, w)[ROOT_CLUSTER_NUMBER] = t
  BY <1>2, <1>3, <1>4, WrittenAt
<1> QED
  BY <1>1, <1>5

\* Nothing is on disk d, and the root directory's first row is there.
Bare(V, d) ==
  /\ d \in Disks(V) /\ RootRow(d) /\ \A r \in Paths : Node(d, r) = Absent

\* A disk with nothing on it is a scene.
LEMMA BareScene ==
  ASSUME NEW V, NEW d, Bare(V, d), NEW map, NEW at, Sound(d, map, at)
  PROVE  Scene(d, map, at)
<1>1. d \in Disks(V) /\ RootRow(d) /\ \A r \in Paths : Node(d, r) = Absent
  BY DEF Bare
<1>2. TreeOn(d, at) /\ Shaped(at, Listing(d, at))
  BY SoundTree
<1>3. ASSUME NEW x, NEW j, Live(Listing(d, at), x, j)
      PROVE  FALSE
  <2>1. PICK p : p = Append(x, Listing(d, at)[x][j].name)
    OBVIOUS
  <2>2. Leads(Listing(d, at), x, j, p) /\ p \in Paths
    BY <1>2, <1>3, <2>1 DEF Leads, Shaped
  <2>3. Node(d, p) = NodeOfEntry(d, Listing(d, at)[x][j])
    BY <1>1, <1>2, <2>2, NodeFacts
  <2> QED
    BY <1>1, <2>2, <2>3, EntryKind
<1>4. OwnNames(d, at)
  BY <1>3 DEF OwnNames
<1>5. Whole(d)
  BY <1>1, KindsDiffer DEF Whole
<1> QED
  BY <1>1, <1>4, <1>5 DEF Scene

LEMMA FormattedScene == \E at : Scene(FormattedDisk, FormattedFAT, at)
<1>1. PICK blank : blank = [c \in Clusters |-> Blank]
  OBVIOUS
<1>2. PICK V : V = Versions
  OBVIOUS
<1>3. blank \in Disks(V) /\ blank[BOOT_SECTOR] = Blank /\ blank[ROOT_CLUSTER_NUMBER] = Blank
  <2>1. blank \in Disks(V)
    BY <1>1, <1>2, Held DEF Disks
  <2>2. BOOT_SECTOR \in Clusters /\ ROOT_CLUSTER_NUMBER \in Clusters
    BY SizeFacts DEF BOOT_SECTOR, ROOT_CLUSTER_NUMBER
  <2> QED
    BY <1>1, <2>1, <2>2
<1>4. PICK w, d : w = create_fat32 /\ d = Written(blank, w)
  OBVIOUS
<1>5. w \in Seq(Writes(V)) /\ Does(blank, w, FormattedFAT, <<>>, Absent)
  <2>1. Plain(blank) /\ w \in {create_fat32}
    BY <1>3, <1>4 DEF Plain
  <2> QED
    BY <1>3, <2>1, FormattingDoes
<1>6. PICK at : Sound(d, FormattedFAT, at)
  BY <1>4, <1>5 DEF Does
<1>7. \A r \in Paths : Node(d, r) = Absent
  <2>1. \A r \in Paths : Node(blank, r) = Absent
    BY <1>3, SeedFacts
  <2>2. \A r \in Paths : Node(d, r) = IF r = <<>> THEN Absent ELSE Node(blank, r)
    BY <1>4, <1>5 DEF Does
  <2> QED
    BY <2>1, <2>2
<1>8. d \in Disks(V)
  <2>1. Len(w) \in Nat /\ Len(w) \in 0 .. Len(w)
    BY <1>5, LenProperties
  <2>2. Begun(blank, w, Len(w)) \in Disks(V)
    BY <1>3, <1>5, <2>1, BegunTyped
  <2> QED
    BY <1>3, <1>4, <1>5, <2>2, BegunEnds
<1>9. RootRow(d)
  <2>1. d[ROOT_CLUSTER_NUMBER] = Table(init_directory_table("root", ROOT_CLUSTER_NUMBER))
    BY <1>4, RootIsWritten
  <2>2. PICK t, row : /\ t = init_directory_table("root", ROOT_CLUSTER_NUMBER)
                      /\ row = UsedEntry("root", ROOT_CLUSTER_NUMBER, 0)
    OBVIOUS
  <2>3. t[0] = row
    BY <2>2, SizeFacts DEF init_directory_table, ZeroTable
  <2>4. AsTable(d[ROOT_CLUSTER_NUMBER]) = t
    BY <2>1, <2>2 DEF AsTable, Table
  <2> QED
    BY <2>2, <2>3, <2>4 DEF RootRow, Root
<1>10. Scene(d, FormattedFAT, at)
  BY <1>6, <1>7, <1>8, <1>9, BareScene DEF Bare
<1> QED
  BY <1>1, <1>4, <1>10 DEF FormattedDisk

\* The image's disk with one more file, whose chain is s
Filled(d, s, large, t, version) ==
  [c \in Clusters |->
     CASE c = FAT_CLUSTER_NUMBER -> FATImage(large)
       [] c = ROOT_CLUSTER_NUMBER -> Table(t)
       [] c \in ToSet(s) -> Data(version, CHOOSE k \in 1 .. Len(s) : s[k] = c)
       [] OTHER -> d[c]]

Fillable(s) ==
  /\ s \in Seq(Clusters) /\ ToSet(s) \cap {0, 1, 2} = {}
  /\ \A j, k \in 1 .. Len(s) : s[j] = s[k] => j = k

FilledWith(d, s, large, t, version, m) ==
  /\ m[FAT_CLUSTER_NUMBER] = FATImage(large) /\ m[ROOT_CLUSTER_NUMBER] = Table(t)
  /\ \A k \in 1 .. Len(s) : m[s[k]] = Data(version, k)
  /\ \A c \in Clusters : c \in ToSet(s) \cup {FAT_CLUSTER_NUMBER, ROOT_CLUSTER_NUMBER} \/ m[c] = d[c]

LEMMA FilledAt ==
  ASSUME NEW d, NEW s, Fillable(s), NEW large, NEW t, NEW version,
         NEW m, m = Filled(d, s, large, t, version)
  PROVE  FilledWith(d, s, large, t, version, m)
<1>1. /\ FAT_CLUSTER_NUMBER \in Clusters /\ ROOT_CLUSTER_NUMBER \in Clusters
      /\ FAT_CLUSTER_NUMBER # ROOT_CLUSTER_NUMBER
      /\ FAT_CLUSTER_NUMBER \notin ToSet(s) /\ ROOT_CLUSTER_NUMBER \notin ToSet(s)
  BY SizeFacts DEF FAT_CLUSTER_NUMBER, ROOT_CLUSTER_NUMBER, Fillable
<1>2. \A c \in Clusters :
        m[c] = CASE c = FAT_CLUSTER_NUMBER -> FATImage(large)
                 [] c = ROOT_CLUSTER_NUMBER -> Table(t)
                 [] c \in ToSet(s) -> Data(version, CHOOSE k \in 1 .. Len(s) : s[k] = c)
                 [] OTHER -> d[c]
  BY Zenon DEF Filled
<1>3. m[FAT_CLUSTER_NUMBER] = FATImage(large)
  BY <1>1, <1>2
<1>4. m[ROOT_CLUSTER_NUMBER] = Table(t)
  BY <1>1, <1>2
<1>5. \A c \in Clusters : c \in ToSet(s) \cup {FAT_CLUSTER_NUMBER, ROOT_CLUSTER_NUMBER} \/ m[c] = d[c]
  BY <1>2
<1>6. ASSUME NEW k \in 1 .. Len(s)
      PROVE  m[s[k]] = Data(version, k)
  <2>1. PICK c : c = s[k]
    OBVIOUS
  <2>2. c \in Clusters /\ c \in ToSet(s)
    BY <2>1, ElementOfSeq DEF ToSet, Fillable
  <2>3. PICK i : i = CHOOSE j \in 1 .. Len(s) : s[j] = c
    OBVIOUS
  <2>4. i \in 1 .. Len(s) /\ s[i] = c
    BY <2>1, <2>3
  <2>5. i = k
    BY <2>1, <2>4 DEF Fillable
  <2>6. m[c] = Data(version, i)
    BY <1>1, <1>2, <2>2, <2>3
  <2> QED
    BY <2>1, <2>5, <2>6
<1> QED
  BY <1>3, <1>4, <1>5, <1>6 DEF FilledWith

(***************************************************************************)
(* One more file in the image is one more file in the tree.                *)
(***************************************************************************)
LEMMA InsertScene ==
  ASSUME NEW state, Imaged(state), NEW at, Scene(state.disk, state.fat, at),
         NEW name \in Names, NEW size \in FileSizes, NEW version \in Versions,
         NEW file, file = <<name, size, version>>,
         Cardinality(FreeClusters(state.fat)) >= ClusterNeed(size),
         Matches(AsTable(state.disk[ROOT_CLUSTER_NUMBER]), name) = {},
         UnusedPositions(AsTable(state.disk[ROOT_CLUSTER_NUMBER])) # {}
  PROVE  \E big : Scene(InsertFile(state, file).disk, InsertFile(state, file).fat, big)
<1>1. PICK V, d, f, q : V = Versions /\ d = state.disk /\ f = state.fat /\ q = <<name>>
  OBVIOUS
<1>2. /\ f \in FATs /\ d \in Disks(V) /\ f = AsFAT(d[FAT_CLUSTER_NUMBER])
      /\ Scene(d, f, at) /\ Sound(d, f, at) /\ RootRow(d)
  BY <1>1 DEF Imaged, Scene, AsFAT, FATImage
<1>3. <<>> \in DOMAIN at /\ at[<<>>] = ROOT_CLUSTER_NUMBER
  BY <1>2, SoundTree DEF Shaped
<1>4. q \in Paths /\ q = Append(<<>>, name)
  <2>1. q = Append(<<>>, name)
    BY <1>1
  <2>2. q \in Paths
    BY <1>1, OneName
  <2> QED
    BY <2>1, <2>2
<1>5. size # 0 /\ size \in Sizes /\ NeedFor(size) = ClusterNeed(size) /\ ClusterNeed(size) \in Nat
  BY SizesAssumption, NeedFacts DEF Sizes, NeedFor
<1>6. PICK s, large, i, t :
        /\ s = NewChain(f, size) /\ large = NewMap(f, size) /\ i = NewRow(d, at, <<>>)
        /\ t = NewTable(d, f, at, <<>>, name, size)
  OBVIOUS
<1>7. Creation(V, d, f, at, <<>>, name, size, q, s, large, i, t)
  <2>1. NeedFor(size) <= Cardinality(FreeClusters(f))
    BY <1>1, <1>5, FreeFacts, FreeBound
  <2>2. CanCreate(V, d, f, at, <<>>, name, size)
    BY <1>1, <1>2, <1>3, <1>4, <1>5, <2>1 DEF CanCreate
  <2> QED
    BY <1>4, <1>6, <2>2 DEF Creation
<1>8. /\ s \in Seq(Clusters) /\ ToSet(s) \cap {0, 1, 2} = {}
      /\ \A j, k \in 1 .. Len(s) : s[j] = s[k] => j = k
      /\ large \in FATs /\ AsFAT(FATImage(large)) = large
  BY <1>7, CreationTyped
<1>9. PICK m, new : m = InsertFile(state, file).disk /\ new = InsertFile(state, file).fat
  OBVIOUS
<1>10. m = Filled(d, s, large, t, version) /\ new = large
  <2>1. file[1] = name /\ file[2] = size /\ file[3] = version
    OBVIOUS
  <2>2. PICK u : u = WithEntry(AsTable(d[ROOT_CLUSTER_NUMBER]), UsedEntry(name, s[1], size))
    OBVIOUS
  <2>3. t = u
    BY <1>3, <1>6, <2>2 DEF NewTable, NewEntry
  <2>4. s = Allocation(f, ClusterNeed(size)) /\ large = Linked(f, s)
    BY <1>5, <1>6 DEF NewChain, NewMap
  <2> DEFINE chain == Allocation(state.fat, ClusterNeed(file[2]))
             linked == Linked(state.fat, chain)
             table == WithEntry(AsTable(state.disk[ROOT_CLUSTER_NUMBER]),
                                UsedEntry(file[1], chain[1], file[2]))
  <2>5. InsertFile(state, file)
          = [fat |-> linked, disk |-> Filled(state.disk, chain, linked, table, file[3])]
    BY Zenon DEF InsertFile, Filled
  <2>6. chain = s /\ linked = large /\ table = u
    BY <1>1, <2>1, <2>2, <2>4
  <2> HIDE DEF chain, linked, table
  <2> QED
    BY <1>1, <1>9, <2>1, <2>3, <2>5, <2>6
<1>11. /\ m[FAT_CLUSTER_NUMBER] = FATImage(large) /\ m[ROOT_CLUSTER_NUMBER] = Table(t)
       /\ \A k \in 1 .. Len(s) : m[s[k]] = Data(version, k)
       /\ \A c \in Clusters : c \in ToSet(s) \cup {FAT_CLUSTER_NUMBER, ROOT_CLUSTER_NUMBER} \/ m[c] = d[c]
  <2>1. Fillable(s)
    BY <1>8 DEF Fillable
  <2>2. m = Filled(d, s, large, t, version)
    BY <1>10
  <2>3. FilledWith(d, s, large, t, version, m)
    BY ONLY <2>1, <2>2, FilledAt
  <2> QED
    BY <2>3 DEF FilledWith
<1>12. m \in Disks(V) /\ AsFAT(m[FAT_CLUSTER_NUMBER]) = large
  <2>1. file \in Names \X FileSizes \X Versions /\ ClusterNeed(file[2]) = ClusterNeed(size)
    OBVIOUS
  <2>2. Imaged(InsertFile(state, file))
    BY <2>1, InsertImaged
  <2> QED
    BY <1>1, <1>8, <1>9, <1>11, <2>2 DEF Imaged
<1>13. Underway(V, d, m, f, at, <<>>, s, large)
  BY <1>3, <1>11, <1>12 DEF Underway
<1>14. InTable(m, at, <<>>, name, size, s, t)
  BY <1>3, <1>5, <1>11 DEF InTable
<1>15. Bigger(at, q, s, size) = at
  BY <1>5 DEF Bigger
<1>16. Sound(m, large, at)
  BY <1>7, <1>12, <1>13, <1>14, <1>15, CreationDone
<1>17. Node(m, q) = File(version, size)
  BY <1>5, <1>7, <1>11, <1>12, <1>13, <1>14, CreationDone
<1>18. \A y \in DOMAIN at : y = q \/ KeepsPlace(d, m, at, y)
  <2>1. \A y \in DOMAIN Bigger(at, q, s, size) : y = q \/ KeepsPlace(d, m, Bigger(at, q, s, size), y)
    BY <1>7, <1>13, <1>14, CreationKeeps
  <2> QED
    BY <1>15, <2>1
<1>19. \A r \in Paths : Node(m, r) = IF r = q THEN File(version, size) ELSE Node(d, r)
  <2>1. \A r \in Paths : r # q => Node(m, r) = Node(d, r)
    BY <1>7, <1>13, <1>14, CreationAfter
  <2> QED
    BY <1>17, <2>1
<1>20. Onto(d, m, large, q, File(version, size))
  BY <1>16, <1>18, <1>19 DEF Onto
<1>21. NewPath(d, at, q)
  <2>1. q \notin DOMAIN at
    <3>1. Node(d, q) # Folder
      <4>1. \A y, j : ~Leads(Listing(d, at), y, j, Append(<<>>, name))
        BY <1>6, <1>7, NewRowFacts DEF Creation
      <4>2. TreeOn(d, at)
        BY <1>2, SoundTree
      <4>3. Node(d, q) = Absent
        BY <1>2, <1>4, <4>1, <4>2, NodeFacts
      <4> QED
        BY <4>3, KindsDiffer
    <3> QED
      BY <1>2, <1>4, <3>1, FolderNodes
  <2>2. Front(q) = <<>> /\ Last(q) = name
    <3>1. <<>> \in Seq(Names)
      OBVIOUS
    <3> QED
      BY <1>4, <3>1, AppendFacts
  <2>3. AsTable(d[ROOT_CLUSTER_NUMBER])[0].name = "root"
    BY <1>2 DEF RootRow, UsedEntry, Root
  <2> QED
    BY <1>3, <2>1, <2>2, <2>3, NamesAssumption DEF NewPath
<1>22. Changed(V, d, f, at, m, large, q, File(version, size))
  BY <1>2, <1>12, <1>20, <1>21, KindsDiffer DEF Changed
<1>23. \E big : Scene(m, large, big)
  BY <1>4, <1>22, SceneFrom
<1> QED
  BY <1>9, <1>10, <1>23

(***************************************************************************)
(* The image holds a tree.                                                 *)
(***************************************************************************)
LEMMA ImageScene == \E at : Scene(Image.disk, Image.fat, at)
<1> DEFINE n == Len(Inserted)
<1>0. n \in Nat /\ \A k \in 1 .. n : Inserted[k] \in Names \X FileSizes \X Versions
  BY InsertedAssumption
<1>1. Images = ImageStep(Images)
  BY <1>0, ImagesExist DEF Images, ImageStep, Empty
<1>2. \A k \in 0 .. n : Images[k] = IF k = 0 THEN Empty ELSE InsertFile(Images[k - 1], Inserted[k])
  BY <1>1 DEF ImageStep
<1> DEFINE S == {k \in 0 .. n : Imaged(Images[k]) /\ \E at : Scene(Images[k].disk, Images[k].fat, at)}
<1> HIDE DEF n
<1>3. 0 \in S
  <2>1. Empty.disk = FormattedDisk /\ Empty.fat = FormattedFAT
    BY DEF Empty
  <2>2. \E at : Scene(Empty.disk, Empty.fat, at)
    BY <2>1, FormattedScene
  <2> QED
    BY <1>0, <1>2, <2>2, EmptyImaged
<1>4. ASSUME NEW k \in 0 .. n, k < n, k \in S
      PROVE  k + 1 \in S
  <2>1. k + 1 \in 0 .. n /\ k + 1 # 0 /\ k + 1 - 1 = k /\ k + 1 \in 1 .. n
    BY <1>0, <1>4
  <2>2. Images[k + 1] = InsertFile(Images[k], Inserted[k + 1])
    BY <2>1, <1>2
  <2>3. PICK state, file : state = Images[k] /\ file = Inserted[k + 1]
    OBVIOUS
  <2>4. Imaged(state)
    BY <1>4, <2>3
  <2>5. PICK at : Scene(state.disk, state.fat, at)
    BY <1>4, <2>3
  <2>6. PICK name \in Names, size \in FileSizes, version \in Versions : file = <<name, size, version>>
    BY <1>0, <2>1, <2>3
  <2>7. file[1] = name /\ file[2] = size
    BY <2>6
  <2>8. /\ Cardinality(FreeClusters(state.fat)) >= ClusterNeed(size)
        /\ Matches(AsTable(state.disk[ROOT_CLUSTER_NUMBER]), name) = {}
        /\ UnusedPositions(AsTable(state.disk[ROOT_CLUSTER_NUMBER])) # {}
    <3>1. \E table \in {AsTable(Images[k].disk[ROOT_CLUSTER_NUMBER])} :
            /\ Cardinality(FreeClusters(Images[k].fat)) >= ClusterNeed(Inserted[k + 1][2])
            /\ Matches(table, Inserted[k + 1][1]) = {}
            /\ UnusedPositions(table) # {}
      <4>1. PICK j : j = k + 1 /\ j \in 1 .. Len(Inserted) /\ j - 1 = k
        BY <2>1 DEF n
      <4>2. \E table \in {AsTable(Images[j - 1].disk[ROOT_CLUSTER_NUMBER])} :
              /\ Cardinality(FreeClusters(Images[j - 1].fat)) >= ClusterNeed(Inserted[j][2])
              /\ Matches(table, Inserted[j][1]) = {}
              /\ UnusedPositions(table) # {}
        BY ONLY <4>1, ImageAssumption
      <4> QED
        BY ONLY <4>1, <4>2
    <3> QED
      BY <2>3, <2>7, <3>1
  <2>9. Imaged(InsertFile(state, file))
    <3>1. file \in Names \X FileSizes \X Versions
      BY <2>6
    <3> QED
      BY <2>4, <2>7, <2>8, <3>1, InsertImaged
  <2>10. \E big : Scene(InsertFile(state, file).disk, InsertFile(state, file).fat, big)
    BY <2>4, <2>5, <2>6, <2>8, InsertScene
  <2> QED
    BY <2>1, <2>2, <2>3, <2>9, <2>10
<1>5. n \in S
  <2> HIDE DEF S
  <2>1. n \in 0 .. n
    BY <1>0
  <2> QED
    BY <1>0, <1>3, <1>4, <2>1, CountingUp
<1> QED
  BY <1>5 DEF Image, n

-----------------------------------------------------------------------------
(* What a sensible command comes to *)

\* It fails and changes nothing, or it does what it says; the user is in a tree
\* afterwards, and what moves is never at neither place.
Fulfils(command, e) ==
  /\ \E big : Scene(Left(e), e.fat, big) /\ OnTrail(big)
  /\ \/ /\ e.ret # 0 /\ e.writes = <<>> /\ command.cmd # "mkdir"
        /\ command.cmd = "rm" => ~Exists(command.from)
     \/ /\ e.ret = 0 /\ e.writes # <<>> /\ Tree(Left(e)) = Told(Tree(disk), command)
        /\ command.cmd = "mv" => NeverNeither(e.writes, command.from, command.to)

Changing == {"mkdir", "rm", "cp", "mv"}

LEMMA ToldFacts ==
  ASSUME NEW tree, NEW from, NEW to
  PROVE  /\ Told(tree, Command("mkdir", from, to)) = [tree EXCEPT ![from] = Folder]
         /\ Told(tree, Command("rm", from, to)) = [tree EXCEPT ![from] = Absent]
         /\ Told(tree, Command("cp", from, to)) = [tree EXCEPT ![to] = tree[from]]
         /\ Told(tree, Command("mv", from, to)) = Moved(tree, from, to)
<1>1. \A cmd : LET c == Command(cmd, from, to) IN c.cmd = cmd /\ c.from = from /\ c.to = to /\ c.ok
  BY DEF Command
<1>2. Told(tree, Command("mkdir", from, to)) = [tree EXCEPT ![from] = Folder]
  <2>1. PICK c : c = Command("mkdir", from, to)
    OBVIOUS
  <2>2. c.cmd = "mkdir" /\ c.from = from /\ c.to = to /\ c.ok
    BY <1>1, <2>1
  <2>3. Told(tree, c) = [tree EXCEPT ![from] = Folder]
    BY ONLY <2>2 DEF Told
  <2> QED
    BY <2>1, <2>3
<1>3. Told(tree, Command("rm", from, to)) = [tree EXCEPT ![from] = Absent]
  <2>1. PICK c : c = Command("rm", from, to)
    OBVIOUS
  <2>2. c.cmd = "rm" /\ c.from = from /\ c.to = to /\ c.ok
    BY <1>1, <2>1
  <2>3. Told(tree, c) = [tree EXCEPT ![from] = Absent]
    BY ONLY <2>2 DEF Told
  <2> QED
    BY <2>1, <2>3
<1>4. Told(tree, Command("cp", from, to)) = [tree EXCEPT ![to] = tree[from]]
  <2>1. PICK c : c = Command("cp", from, to)
    OBVIOUS
  <2>2. c.cmd = "cp" /\ c.from = from /\ c.to = to /\ c.ok
    BY <1>1, <2>1
  <2>3. Told(tree, c) = [tree EXCEPT ![to] = tree[from]]
    BY ONLY <2>2 DEF Told
  <2> QED
    BY <2>1, <2>3
<1>5. Told(tree, Command("mv", from, to)) = Moved(tree, from, to)
  BY <1>1 DEF Told
<1> QED
  BY <1>2, <1>3, <1>4, <1>5

LEMMA LeavesTree ==
  ASSUME NEW e, NEW q \in Paths, NEW node, Leaves(e, q, node)
  PROVE  Tree(Left(e)) = [Tree(disk) EXCEPT ![q] = node]
BY DEF Leaves, Tree

(***************************************************************************)
(* A command whose effect is what it says keeps the session in a tree and  *)
(* does what the user was told.                                            *)
(***************************************************************************)
\* What moves is at one of its places until the writes are made.
NothingLost ==
  steady /\ report.cmd = "mv" /\ report.ok => NeverNeither(pending, report.from, report.to)

Obeyed ==
  /\ SessionInv' /\ NothingLost' /\ report'.cmd \in Changing
  /\ steady' => DoesAsTold

\* It is enough to know the effect that the command prepares.
LEMMA ChangeTold ==
  ASSUME NEW cmd \in Changing, NEW from, NEW to, NEW command, command = Command(cmd, from, to),
         NEW e, NEW sensible, Change(command, e, sensible), sensible => Fulfils(command, e)
  PROVE  Obeyed
<1>1. /\ fat' = e.fat /\ pending' = e.writes /\ disk' = disk /\ steady' = sensible
      /\ report' = [command EXCEPT !.ok = @ /\ e.ret = 0]
  BY DEF Change
<1>2. /\ report'.cmd = cmd /\ report'.from = from /\ report'.to = to
      /\ report'.ok <=> e.ret = 0
      /\ e.ret = 0 => report' = command
      /\ command.cmd = cmd /\ command.from = from /\ command.to = to
  BY <1>1 DEF Command
<1>3. SessionInv'
  <2>1. sensible => \E big : Scene(Written(disk, e.writes), e.fat, big) /\ OnTrail(big)
    BY DEF Fulfils, Left
  <2> QED
    BY <2>1, ChangeSession
<1>4. FinalDisk' = Left(e)
  BY <1>1 DEF FinalDisk, Left
<1>5. NothingLost'
  BY <1>1, <1>2 DEF Fulfils, NothingLost, NeverNeither
<1>6. ASSUME steady'
      PROVE  DoesAsTold
  <2>1. Fulfils(command, e)
    BY <1>1, <1>6
  <2>2. CASE e.ret # 0
    BY <1>1, <1>2, <2>1, <2>2 DEF Fulfils, DoesAsTold, Changing
  <2>3. CASE e.ret = 0
    BY <1>1, <1>2, <1>4, <2>1, <2>3 DEF Fulfils, DoesAsTold
  <2> QED
    BY <2>2, <2>3
<1> QED
  BY <1>2, <1>3, <1>5, <1>6 DEF Obeyed

(***************************************************************************)
(* A refused call changes nothing.                                         *)
(***************************************************************************)
LEMMA RefusedTold ==
  ASSUME NEW V, NEW at, Working(V, at), NEW command, command.cmd # "mkdir",
         command.cmd = "rm" => ~Exists(command.from), NEW e, NEW ret, e = Refused(ret), e.ret # 0
  PROVE  Fulfils(command, e)
BY RefusedScene DEF Fulfils

(***************************************************************************)
(* What is left with something else at one path only is as it was told.    *)
(***************************************************************************)
LEMMA LeavesTold ==
  ASSUME NEW command, command.cmd # "mv", NEW e, e.ret = 0, e.writes # <<>>,
         NEW q \in Paths, NEW node, Leaves(e, q, node),
         Told(Tree(disk), command) = [Tree(disk) EXCEPT ![q] = node]
  PROVE  Fulfils(command, e)
<1>1. Tree(Left(e)) = Told(Tree(disk), command)
  BY LeavesTree
<1>2. \E big : Scene(Left(e), e.fat, big) /\ OnTrail(big)
  BY DEF Leaves
<1> QED
  BY <1>1, <1>2 DEF Fulfils

LEMMA MovesTold ==
  ASSUME NEW from, NEW to, NEW e, Moves(e, from, to)
  PROVE  Fulfils(Command("mv", from, to), e)
<1>1. PICK command : command = Command("mv", from, to)
  OBVIOUS
<1>2. command.cmd = "mv" /\ command.from = from /\ command.to = to
  BY <1>1 DEF Command
<1>3. Told(Tree(disk), command) = Moved(Tree(disk), from, to)
  BY <1>1, ToldFacts
<1>4. Fulfils(command, e)
  BY <1>2, <1>3 DEF Moves, Fulfils
<1> QED
  BY <1>1, <1>4

-----------------------------------------------------------------------------
(* The commands that change the disk *)

\* The commands one by one: each prepares an effect that is what it says.
LEMMA MkdirTold ==
  ASSUME ShellInv, SessionInv, Ready, steady, NEW name \in Names, mkdir(name)
  PROVE  Obeyed
<1>1. PICK V, at : Working(V, at)
  BY AtWork
<1>2. PICK command, sensible, e :
        /\ command = Command("mkdir", Entry(name), <<>>)
        /\ sensible <=> Fresh(name, CURRENT_DIR_CLUSTER_NUMBER) /\ HasRoom(CURRENT_DIR_CLUSTER_NUMBER)
        /\ e = IF CurrentDirectory.ret # 0 THEN Refused(-1)
               ELSE FolderWritten(CURRENT_DIR_CLUSTER_NUMBER, name)
        /\ Change(command, e, sensible) /\ FreeClusters(fat) # {}
  BY Zenon DEF mkdir
<1>3. ASSUME sensible
      PROVE  Fulfils(command, e)
  <2>1. CursorInv /\ Fresh(name, CURRENT_DIR_CLUSTER_NUMBER) /\ HasRoom(CURRENT_DIR_CLUSTER_NUMBER)
    BY <1>2, <1>3 DEF ShellInv
  <2>2. e.ret = 0 /\ e.writes # <<>> /\ Leaves(e, Entry(name), Folder)
    BY <1>1, <1>2, <2>1, MkdirLeaves
  <2>3. Entry(name) \in Paths
    BY <1>1, <2>1, HereFacts
  <2>4. Told(Tree(disk), command) = [Tree(disk) EXCEPT ![Entry(name)] = Folder]
    BY <1>2, ToldFacts
  <2>5. command.cmd # "mv"
    BY <1>2 DEF Command
  <2> QED
    BY <2>2, <2>3, <2>4, <2>5, LeavesTold
<1> QED
  BY <1>2, <1>3, ChangeTold DEF Changing

LEMMA RmTold ==
  ASSUME ShellInv, SessionInv, Ready, steady, NEW name \in Names \cup {Root}, rm(name)
  PROVE  Obeyed
<1>1. PICK V, at : Working(V, at)
  BY AtWork
<1>2. PICK command, sensible, e :
        /\ command = Command("rm", Entry(name), <<>>)
        /\ sensible <=> DEPTH = 0 /\ name # Root /\ ~Populated(Entry(name))
        /\ e = IF CurrentDirectory.ret # 0 THEN Refused(-1)
               ELSE IF Matches(AsTable(CurrentDirectory.data), name) = {} THEN Refused(1)
               ELSE Deleted(CURRENT_DIR_PARENT_CLUSTER_NUMBER, name)
        /\ Change(command, e, sensible)
  BY Zenon DEF rm
<1>3. ASSUME sensible
      PROVE  Fulfils(command, e)
  <2>1. CursorInv /\ DEPTH = 0 /\ name \in Names /\ ~Populated(Entry(name))
    BY <1>2, <1>3 DEF ShellInv
  <2>2. \/ e = Refused(1) /\ Node(disk, Entry(name)) = Absent
        \/ e.ret = 0 /\ e.writes # <<>> /\ Leaves(e, Entry(name), Absent)
    BY <1>1, <1>2, <2>1, RmLeaves
  <2>3. Entry(name) \in Paths
    BY <1>1, <2>1, HereFacts
  <2>4. Told(Tree(disk), command) = [Tree(disk) EXCEPT ![Entry(name)] = Absent]
    BY <1>2, ToldFacts
  <2>5. command.cmd = "rm" /\ command.from = Entry(name)
    BY <1>2 DEF Command
  <2>6. CASE e = Refused(1) /\ Node(disk, Entry(name)) = Absent
    <3>1. e.ret # 0 /\ ~Exists(command.from)
      BY <2>5, <2>6, RefusedReturns DEF Exists
    <3> QED
      BY <1>1, <2>5, <2>6, <3>1, RefusedTold
  <2>7. CASE e.ret = 0 /\ e.writes # <<>> /\ Leaves(e, Entry(name), Absent)
    BY <2>3, <2>4, <2>5, <2>7, LeavesTold
  <2> QED
    BY <2>2, <2>6, <2>7
<1> QED
  BY <1>2, <1>3, ChangeTold DEF Changing

LEMMA CpTold ==
  ASSUME ShellInv, SessionInv, Ready, steady, NEW source \in Names, NEW dest \in Names, cp(source, dest)
  PROVE  Obeyed
<1>1. PICK V, at : Working(V, at)
  BY AtWork
<1>2. PICK s, d, command, sensible, e :
        /\ command = Command("cp", Entry(source), Entry(dest))
        /\ sensible <=> /\ DEPTH = 0
                        /\ Fresh(dest, CURRENT_DIR_CLUSTER_NUMBER)
                        /\ NoOther(s, source, CURRENT_DIR_CLUSTER_NUMBER)
                        /\ e.ret = 0 => d = dest
        /\ e = CopyEffect(s, d) /\ Change(command, e, sensible)
        /\ \A size \in FileSizes : Cardinality(FreeClusters(fat)) >= ClusterNeed(size)
  BY Zenon DEF cp
<1>3. ASSUME sensible
      PROVE  Fulfils(command, e)
  <2>1. /\ CursorInv /\ DEPTH = 0 /\ Fresh(dest, CURRENT_DIR_CLUSTER_NUMBER)
        /\ NoOther(s, source, CURRENT_DIR_CLUSTER_NUMBER)
        /\ e.ret = 0 => d = dest
    BY <1>2, <1>3 DEF ShellInv
  <2>2. \/ \E ret : e = Refused(ret) /\ e.ret # 0
        \/ e.ret = 0 /\ e.writes # <<>> /\ Leaves(e, Entry(dest), Node(disk, Entry(source)))
    BY <1>1, <1>2, <2>1, CpLeaves
  <2>3. Entry(source) \in Paths /\ Entry(dest) \in Paths
    BY <1>1, <2>1, HereFacts
  <2>4. Told(Tree(disk), command) = [Tree(disk) EXCEPT ![Entry(dest)] = Node(disk, Entry(source))]
    <3>1. Told(Tree(disk), command) = [Tree(disk) EXCEPT ![Entry(dest)] = Tree(disk)[Entry(source)]]
      BY <1>2, ToldFacts
    <3> QED
      BY <2>3, <3>1 DEF Tree
  <2>5. command.cmd = "cp"
    BY <1>2 DEF Command
  <2>6. CASE \E ret : e = Refused(ret) /\ e.ret # 0
    BY <1>1, <2>5, <2>6, RefusedTold
  <2>7. CASE e.ret = 0 /\ e.writes # <<>> /\ Leaves(e, Entry(dest), Node(disk, Entry(source)))
    BY <2>3, <2>4, <2>5, <2>7, LeavesTold
  <2> QED
    BY <2>2, <2>6, <2>7
<1> QED
  BY <1>2, <1>3, ChangeTold DEF Changing

LEMMA RenameTold ==
  ASSUME ShellInv, SessionInv, Ready, steady, NEW source \in Names \cup {Root}, NEW dest \in Names,
         mvRename(source, dest)
  PROVE  Obeyed
<1>1. PICK V, at : Working(V, at)
  BY AtWork
<1>2. PICK s, garbage, command, sensible, e :
        /\ command = Command("mv", Entry(source), Entry(dest))
        /\ sensible <=> /\ DEPTH = 0 /\ source # Root
                        /\ Fresh(dest, CURRENT_DIR_CLUSTER_NUMBER)
                        /\ NoOther(s, source, CURRENT_DIR_CLUSTER_NUMBER)
        /\ e = RenameEffect(s, dest, garbage) /\ Change(command, e, sensible)
  BY Zenon DEF mvRename
<1>3. ASSUME sensible
      PROVE  Fulfils(command, e)
  <2>1. /\ CursorInv /\ DEPTH = 0 /\ source \in Names
        /\ Fresh(dest, CURRENT_DIR_CLUSTER_NUMBER)
        /\ NoOther(s, source, CURRENT_DIR_CLUSTER_NUMBER)
    BY <1>2, <1>3 DEF ShellInv
  <2>2. \/ \E ret : e = Refused(ret) /\ e.ret # 0
        \/ Moves(e, <<source>>, <<dest>>)
    BY <1>1, <1>2, <2>1, RenameLeaves
  <2>3. Entry(source) = <<source>> /\ Entry(dest) = <<dest>>
    BY <1>1, <2>1, AtTop
  <2>4. command.cmd = "mv" /\ command = Command("mv", <<source>>, <<dest>>)
    BY <1>2, <2>3 DEF Command
  <2>5. CASE \E ret : e = Refused(ret) /\ e.ret # 0
    BY <1>1, <2>4, <2>5, RefusedTold
  <2>6. CASE Moves(e, <<source>>, <<dest>>)
    BY <2>4, <2>6, MovesTold
  <2> QED
    BY <2>2, <2>5, <2>6
<1> QED
  BY <1>2, <1>3, ChangeTold DEF Changing

LEMMA MoveTold ==
  ASSUME ShellInv, SessionInv, Ready, steady, NEW source \in Names, NEW path \in Paths,
         mvMove(source, path)
  PROVE  Obeyed
<1>1. PICK V, at : Working(V, at)
  BY AtWork
<1>2. PICK s, first, garbage, command, sensible, e :
        /\ command = Command("mv", Entry(source), path)
        /\ sensible <=> /\ DEPTH = 0 /\ Len(path) > 1
                        /\ Node(disk, <<source>>).kind = "file"
                        /\ Node(disk, Front(path)) = Folder
                        /\ Fresh(Last(path), DirectoryCluster(disk, Front(path)))
                        /\ HasRoom(DirectoryCluster(disk, Front(path)))
                        /\ NoOther(s, source, ROOT_CLUSTER_NUMBER)
                        /\ NoOther(first, Head(path), ROOT_CLUSTER_NUMBER)
        /\ e = MoveEffect(s, Route(first, path), garbage) /\ Change(command, e, sensible)
  BY Zenon DEF mvMove, Route
<1>3. ASSUME sensible
      PROVE  Fulfils(command, e)
  <2>1. /\ CursorInv /\ DEPTH = 0 /\ Len(path) > 1
        /\ Node(disk, <<source>>).kind = "file"
        /\ Node(disk, Front(path)) = Folder
        /\ Fresh(Last(path), DirectoryCluster(disk, Front(path)))
        /\ HasRoom(DirectoryCluster(disk, Front(path)))
        /\ NoOther(s, source, ROOT_CLUSTER_NUMBER)
        /\ NoOther(first, Head(path), ROOT_CLUSTER_NUMBER)
    BY <1>2, <1>3 DEF ShellInv
  <2>2. \/ \E ret : e = Refused(ret) /\ e.ret # 0
        \/ Moves(e, <<source>>, path)
    BY <1>1, <1>2, <2>1, MoveLeaves
  <2>3. Entry(source) = <<source>>
    BY <1>1, <2>1, AtTop
  <2>4. command.cmd = "mv" /\ command = Command("mv", <<source>>, path)
    BY <1>2, <2>3 DEF Command
  <2>5. CASE \E ret : e = Refused(ret) /\ e.ret # 0
    BY <1>1, <2>4, <2>5, RefusedTold
  <2>6. CASE Moves(e, <<source>>, path)
    BY <2>4, <2>6, MovesTold
  <2> QED
    BY <2>2, <2>5, <2>6
<1> QED
  BY <1>2, <1>3, ChangeTold DEF Changing

-----------------------------------------------------------------------------
(* The commands that only tell something *)

(***************************************************************************)
(* Row j of a folder's table and the path it leads to: it is a directory's *)
(* entry if there is a folder.                                             *)
(***************************************************************************)
LEMMA RowNode ==
  ASSUME NEW V, NEW at, Working(V, at), NEW x, NEW j, NEW p, Leads(Listing(disk, at), x, j, p),
         NEW e, e = Listing(disk, at)[x][j]
  PROVE  /\ p \in Paths /\ Front(p) = x /\ Last(p) = e.name /\ Len(p) = Len(x) + 1
         /\ Node(disk, p) = NodeOfEntry(disk, e) /\ Exists(p)
         /\ e.attribute = AttributeOf(e.filesize)
         /\ Node(disk, p) = Folder <=> e.filesize = 0
         /\ Node(disk, p) = Folder <=> e.attribute = ATR_DIRECTORY
<1>1. /\ disk \in Disks(V) /\ Sound(disk, fat, at) /\ fat = AsFAT(disk[FAT_CLUSTER_NUMBER])
      /\ TreeOn(disk, at)
  BY SoundTree, Held DEF Working, Home, Settled
<1>2. PICK L : L = Listing(disk, at) /\ Shaped(at, L) /\ Seated(disk, at, L)
  BY <1>1, SoundTree
<1>3. p \in Paths /\ x = Front(p) /\ L[x][j].name = Last(p)
  BY <1>2, ShapedFacts
<1>4. Len(p) = Len(x) + 1
  <2>1. Len(Front(p)) = Len(p) - 1 /\ Len(p) \in Nat
    BY <1>3, PathFacts
  <2> QED
    BY <1>3, <2>1
<1>5. Node(disk, p) = NodeOfEntry(disk, e)
  BY <1>1, <1>2, <1>3, NodeFacts
<1>6. Exists(p)
  BY <1>5, EntryKind DEF Exists
<1>7. e.attribute = AttributeOf(e.filesize)
  BY <1>2 DEF Seated, Leads
<1>8. Node(disk, p) = Folder <=> e.filesize = 0
  <2>1. ASSUME e.filesize = 0
        PROVE  Node(disk, p) = Folder
    <3>1. Append(x, L[x][j].name) \in DOMAIN at /\ Append(x, L[x][j].name) = p
      BY <1>2, <2>1 DEF Shaped, Leads
    <3> QED
      BY <1>1, <1>3, <3>1, FolderNodes
  <2> QED
    BY <1>5, <2>1, EntryKind, SMTT(30)
<1>9. e.attribute = ATR_DIRECTORY <=> e.filesize = 0
  BY <1>7 DEF AttributeOf, ATR_DIRECTORY, ATR_FILE
<1> QED
  BY <1>2, <1>3, <1>4, <1>5, <1>6, <1>7, <1>8, <1>9

(***************************************************************************)
(* ls shows the entries below the folder, and which of them are folders.   *)
(***************************************************************************)
LEMMA ListShows ==
  ASSUME NEW V, NEW at, Working(V, at), CursorInv
  PROVE  {<<e.name, e.attribute = ATR_DIRECTORY>> : e \in NamedEntries(AsTable(disk[at[Here]]))}
           = {<<Last(p), Node(disk, p) = Folder>> : p \in ChildrenOf(Here)}
<1>1. Here \in DOMAIN at /\ Here \in Seq(Names)
  BY HereFacts
<1>2. /\ disk \in Disks(V) /\ Sound(disk, fat, at) /\ TreeOn(disk, at)
  BY SoundTree DEF Working, Home, Settled
<1>3. PICK L, x, table : L = Listing(disk, at) /\ x = Here /\ table = AsTable(disk[at[Here]])
  OBVIOUS
<1>4. \A j \in Rows : L[x][j] = table[j]
  BY <1>1, <1>2, <1>3, ListingFacts DEF TreeOn
<1>5. ASSUME NEW e \in NamedEntries(table)
      PROVE  \E p \in ChildrenOf(x) : <<e.name, e.attribute = ATR_DIRECTORY>> = <<Last(p), Node(disk, p) = Folder>>
  <2>1. PICK j \in Rows : e = table[j] /\ e.name # NoName
    BY <1>5 DEF NamedEntries, Rows
  <2>2. PICK p : Leads(L, x, j, p)
    <3>1. Live(L, x, j)
      BY <1>1, <1>2, <1>3, <1>4, <2>1, SoundTree DEF Live, Shaped
    <3> QED
      BY <3>1 DEF Leads
  <2>3. e = L[x][j]
    BY <1>4, <2>1
  <2>4. /\ p \in Paths /\ Front(p) = x /\ Last(p) = e.name /\ Len(p) = Len(x) + 1 /\ Exists(p)
        /\ Node(disk, p) = Folder <=> e.attribute = ATR_DIRECTORY
    BY <1>3, <2>2, <2>3, RowNode
  <2> QED
    BY <2>4 DEF ChildrenOf
<1>6. ASSUME NEW p \in ChildrenOf(x)
      PROVE  \E e \in NamedEntries(table) : <<e.name, e.attribute = ATR_DIRECTORY>> = <<Last(p), Node(disk, p) = Folder>>
  <2>1. p \in Paths /\ Front(p) = x /\ Exists(p)
    BY <1>6 DEF ChildrenOf
  <2>2. PICK y, j : Leads(L, y, j, p)
    BY <1>2, <1>3, <2>1, NodeFacts DEF Exists
  <2>3. PICK e : e = L[y][j]
    OBVIOUS
  <2>4. /\ Front(p) = y /\ Last(p) = e.name
        /\ Node(disk, p) = Folder <=> e.attribute = ATR_DIRECTORY
    BY <1>3, <2>2, <2>3, RowNode
  <2>5. j \in Rows /\ e.name # NoName /\ e = table[j]
    BY <1>4, <2>1, <2>2, <2>3, <2>4 DEF Leads, Live
  <2>6. e \in NamedEntries(table)
    BY <2>5 DEF NamedEntries, Rows
  <2> QED
    BY <2>4, <2>6
<1> QED
  BY <1>3, <1>5, <1>6

\* The buffer that cat takes is never too small.
LEMMA BufferHolds ==
  ASSUME NEW size \in FileSizes
  PROVE  /\ ReadableClusters(CatBuffer(size)) \in Nat /\ ClusterNeed(size) \in Nat
         /\ ClusterNeed(size) <= ReadableClusters(CatBuffer(size))
<1>1. PICK n, M : n = ClusterNeed(size) /\ M = CLUSTER_MAP_SIZE
  OBVIOUS
<1>2. n \in Nat /\ M \in Nat /\ M > 3 /\ size # 0
  BY <1>1, SizesAssumption, MapSizeAssumption, NeedFacts
<1>3. CatBuffer(size) = 4 * M * n
  BY <1>1, <1>2 DEF CatBuffer, CLUSTER_SIZE
<1>4. PICK q : q = (4 * M * n) \div M
  OBVIOUS
<1>5. q \in Nat /\ n <= q + 1
  <2>1. 4 * M * n = (4 * n) * M
    BY <1>2
  <2>2. q = 4 * n
    BY <1>2, <1>4, <2>1
  <2> QED
    BY <1>2, <2>2
<1> QED
  BY <1>1, <1>2, <1>3, <1>4, <1>5 DEF ReadableClusters

\* A file's row has the chain that its size needs.
LEMMA RowChain ==
  ASSUME NEW L, Allotted(fat, L), NEW x, NEW j, Live(L, x, j),
         NEW entry, entry = L[x][j], entry.filesize # 0
  PROVE  /\ Complete(fat, Chain(fat, entry.cluster))
         /\ Len(Chain(fat, entry.cluster)) = ClusterNeed(entry.filesize)
<1>1. /\ Complete(fat, ChainOf(fat, L, x, j))
      /\ Len(ChainOf(fat, L, x, j)) = NeedOf(L[x][j])
  BY SMTT(30) DEF Allotted
<1> QED
  BY <1>1 DEF ChainOf, NeedOf

\* The buffer is no limit.
LEMMA WholeChainRead ==
  ASSUME NEW size \in FileSizes, NEW length, length = ClusterNeed(size)
  PROVE  Min({length, ReadableClusters(CatBuffer(size))}) = length
<1>1. PICK b : b = ReadableClusters(CatBuffer(size))
  OBVIOUS
<1>2. length \in Nat /\ b \in Nat /\ length <= b
  BY <1>1, BufferHolds
<1>3. PICK S : S = {length, b}
  OBVIOUS
<1>4. S \subseteq Nat /\ S # {}
  BY <1>2, <1>3
<1>5. Min(S) \in S /\ \A k \in S : Min(S) <= k
  BY <1>4, MinProperty
<1>6. Min(S) = length
  BY <1>2, <1>3, <1>5
<1> QED
  BY <1>1, <1>3, <1>6

\* A file's row stands for what is in the clusters of its chain.
LEMMA RowStandsFor ==
  ASSUME NEW d, NEW entry, NEW chain, NEW node, NEW map,
         map = AsFAT(d[FAT_CLUSTER_NUMBER]), chain = Chain(map, entry.cluster), Complete(map, chain),
         entry.filesize # 0, entry.attribute = AttributeOf(entry.filesize),
         node = NodeOfEntry(d, entry), node # Damaged
  PROVE  /\ node = FileOf([k \in 1 .. Len(chain) |-> d[chain[k]]], entry.filesize)
         /\ node.kind = "file"
<1>1. PICK data : data = [k \in 1 .. Len(chain) |-> d[chain[k]]]
  OBVIOUS
<1>2. node = FileOf(data, entry.filesize)
  BY <1>1, ZenonT(60) DEF NodeOfEntry
<1>3. node = File(data[1].version, entry.filesize)
  BY <1>2, ZenonT(60) DEF FileOf
<1> QED
  BY <1>1, <1>2, <1>3 DEF File

\* What cat reads in the folder at x
LEMMA CatReads ==
  ASSUME NEW V, NEW at, Working(V, at), CursorInv, NEW name \in Names,
         NEW table, table = AsTable(disk[at[Here]]), NEW found, found = Matches(table, name),
         NEW size, size = table[Min(found)].filesize,
         NEW file, file = FileRead(at[Here], name, CatBuffer(size)),
         NEW node, node = Node(disk, Entry(name))
  PROVE  /\ node.kind = "file" <=> found # {} /\ file.ret = 0
         /\ node.kind = "file" => FileOf(file.data, size) = node
<1>1. /\ Here \in DOMAIN at /\ Entry(name) \in Paths /\ Entry(name) = Append(Here, name)
  BY HereFacts DEF Entry
<1>2. /\ disk \in Disks(V) /\ Sound(disk, fat, at) /\ TreeOn(disk, at) /\ Scene(disk, fat, at)
      /\ fat = AsFAT(disk[FAT_CLUSTER_NUMBER]) /\ Whole(disk)
  BY SoundTree, Held DEF Working, Home, Settled, Scene
<1>3. PICK L, x, p : L = Listing(disk, at) /\ x = Here /\ p = Append(x, name)
  OBVIOUS
<1>4. /\ table \in Tables /\ OwnRow(table)
      /\ \A j : Leads(L, x, j, p) =>
           found # {} /\ Min(found) = j /\ table[j] = L[x][j] /\ j \in Rows
      /\ (\A j : ~Leads(L, x, j, p)) => \A j \in found : j = 0
  <2>1. x \in DOMAIN at /\ table = AsTable(disk[at[x]])
    BY <1>1, <1>3
  <2> DEFINE K == Listing(disk, at)
  <2> HIDE DEF K
  <2>2. /\ table \in Tables /\ OwnRow(table)
        /\ \A j : Leads(K, x, j, Append(x, name)) =>
             /\ Matches(table, name) # {} /\ Min(Matches(table, name)) = j
             /\ j \in Rows /\ table[j] = K[x][j]
        /\ (\A j : ~Leads(K, x, j, Append(x, name))) => \A j \in Matches(table, name) : j = 0
    BY <1>2, <2>1, LookupIn DEF K
  <2>3. K = L
    BY <1>3 DEF K
  <2> QED
    BY <1>3, <2>2, <2>3
<1>5. PICK entry, chain, count :
        /\ entry = table[Min(found)] /\ chain = Chain(fat, entry.cluster)
        /\ count = Min({Len(chain), ReadableClusters(CatBuffer(size))})
  OBVIOUS
<1>6. file = CASE found = {} -> [ret |-> 3]
               [] found # {} /\ entry.filesize = 0 -> [ret |-> 1]
               [] OTHER -> [ret |-> IF count = Len(chain) THEN 0 ELSE 2,
                            data |-> [k \in 1 .. count |-> disk[chain[k]]],
                            filesize |-> entry.filesize]
  BY <1>5, Zenon DEF FileRead
<1>7. entry.filesize = size
  BY <1>5
<1>8. /\ found # {} /\ size = 0 => file.ret # 0
      /\ found # {} /\ size # 0 => /\ file.ret = 0 <=> count = Len(chain)
                                   /\ file.data = [k \in 1 .. count |-> disk[chain[k]]]
  BY <1>6, <1>7
<1>9. CASE \A j : ~Leads(L, x, j, p)
  <2>1. node = Absent
    <3>1. \A y, j : ~Leads(L, y, j, p)
      <4>1. Shaped(at, L)
        BY <1>2, <1>3, SoundTree
      <4>2. Front(p) = x
        BY <1>1, <1>3, HereFacts
      <4> QED
        BY <1>9, <4>1, <4>2, ShapedFacts
    <3> QED
      BY <1>1, <1>2, <1>3, <3>1, NodeFacts
  <2>2. found # {} => size = 0
    <3>1. found # {} => Min(found) = 0
      <4>1. found \subseteq {0}
        BY <1>4, <1>9
      <4>2. ASSUME found # {}
            PROVE  Min(found) = 0
        <5>1. \A k : k \in found <=> k = 0
          BY <4>1, <4>2, SMTT(30)
        <5> QED
          BY <5>1, MinOfOne
      <4> QED
        BY <4>2
    <3> QED
      BY <1>4, <3>1 DEF OwnRow
  <2> QED
    BY <1>8, <2>1, <2>2 DEF Absent
<1>10. CASE \E j : Leads(L, x, j, p)
  <2>1. PICK j : Leads(L, x, j, p)
    BY <1>10
  <2>2. found # {} /\ entry = L[x][j] /\ j \in Rows
    BY <1>4, <1>5, <2>1
  <2>3. /\ Node(disk, p) = NodeOfEntry(disk, entry) /\ p \in Paths
        /\ entry.attribute = AttributeOf(entry.filesize)
        /\ Node(disk, p) = Folder <=> entry.filesize = 0
    BY <1>3, <2>1, <2>2, RowNode
  <2>4. node = Node(disk, p)
    BY <1>1, <1>3
  <2>5. CASE size = 0
    BY <1>7, <1>8, <2>2, <2>3, <2>4, <2>5, SMTT(30) DEF Folder
  <2>6. CASE size # 0
    <3>1. Live(L, x, j) /\ entry \in PointingOff
      <4>1. Shaped(at, L)
        BY <1>2, <1>3, SoundTree
      <4> QED
        BY <2>1, <2>2, <4>1, ShapedFacts DEF Leads
    <3>2. size \in FileSizes /\ entry.cluster \in Clusters
      BY <1>7, <2>6, <3>1 DEF PointingOff, Entries
    <3>3. Complete(fat, chain) /\ Len(chain) = ClusterNeed(size)
      <4>1. Allotted(fat, L)
        BY <1>2, <1>3, SoundTree
      <4>2. entry = L[x][j] /\ entry.filesize # 0 /\ chain = Chain(fat, entry.cluster)
        BY <1>5, <1>7, <2>2, <2>6
      <4>3. /\ Complete(fat, Chain(fat, entry.cluster))
            /\ Len(Chain(fat, entry.cluster)) = ClusterNeed(entry.filesize)
        BY <3>1, <4>1, <4>2, RowChain
      <4> QED
        BY <1>7, <4>2, <4>3
    <3>4. count = Len(chain)
      <4>1. PICK length : length = Len(chain)
        OBVIOUS
      <4>2. Min({length, ReadableClusters(CatBuffer(size))}) = length
        BY <3>2, <3>3, <4>1, WholeChainRead
      <4> QED
        BY ONLY <1>5, <4>1, <4>2
    <3>5. file.ret = 0
      BY ONLY <1>8, <2>2, <2>6, <3>4
    <3>6. file.data = [k \in 1 .. Len(chain) |-> disk[chain[k]]]
      BY ONLY <1>8, <2>2, <2>6, <3>4
    <3>7. Node(disk, p) # Damaged
      BY <1>2, <2>3 DEF Whole
    <3>8. PICK stands : stands = Node(disk, p)
      OBVIOUS
    <3>9. chain = Chain(fat, entry.cluster) /\ entry.filesize # 0
      BY ONLY <1>5, <1>7, <2>6
    <3>10. /\ stands = FileOf([k \in 1 .. Len(chain) |-> disk[chain[k]]], entry.filesize)
           /\ stands.kind = "file"
      BY ONLY <1>2, <2>3, <3>3, <3>7, <3>8, <3>9, RowStandsFor
    <3>11. FileOf(file.data, size) = stands
      BY ONLY <1>7, <3>6, <3>10
    <3> QED
      BY ONLY <2>2, <2>4, <3>5, <3>8, <3>10, <3>11
  <2> QED
    BY <2>5, <2>6
<1> QED
  BY <1>9, <1>10

\* What was last told is still so.
Truthful == steady /\ report.cmd \in {"ls", "cat"} => pending = <<>> /\ ToldTrue

\* What every step of a sensible session comes to.
KeptTrue == SessionInv' /\ NothingLost' /\ Truthful' /\ (steady' => DoesAsTold)

LEMMA ObeyedKept == Obeyed => KeptTrue
BY DEF Obeyed, KeptTrue, Truthful, Changing

LEMMA ShowsFacts ==
  ASSUME NEW cmd, NEW from, NEW shown, NEW r, r = Shows(Command(cmd, from, <<>>), shown)
  PROVE  r.cmd = cmd /\ r.from = from /\ r.ok /\ r.answer = shown
BY DEF Shows, Command

LEMMA FailedFacts ==
  ASSUME NEW cmd, NEW from, NEW to, NEW r, r = Failed(Command(cmd, from, to))
  PROVE  r.cmd = cmd /\ r.from = from /\ ~r.ok
BY DEF Failed, Command

(***************************************************************************)
(* Telling changes nothing, and tells what is so.                          *)
(***************************************************************************)
LEMMA TellKept ==
  ASSUME NEW outcome, Tell(outcome), Ready, outcome.cmd \notin Changing,
         SessionInv', steady => ToldTrue'
  PROVE  KeptTrue
<1>1. pending' = <<>> /\ report' = outcome /\ steady' = steady
  BY DEF Tell, vars, Ready
<1>2. NothingLost' /\ Truthful'
  BY <1>1 DEF NothingLost, Truthful, Changing
<1>3. DoesAsTold
  BY <1>1 DEF DoesAsTold, Changing
<1> QED
  BY <1>2, <1>3 DEF KeptTrue

\* Commands whose answer is not about the tree.
LEMMA OtherKept ==
  ASSUME NEW outcome, Tell(outcome), Ready, outcome.cmd \notin Changing \cup {"ls", "cat"}, SessionInv'
  PROVE  KeptTrue
<1>1. ToldTrue'
  BY DEF Tell, ToldTrue
<1> QED
  BY <1>1, TellKept

\* Telling leaves the user in place.
LEMMA StaySession ==
  ASSUME SessionInv, steady, NEW outcome, Tell(outcome), UNCHANGED place
  PROVE  SessionInv'
<1>1. \A at : OnTrail(at) => OnTrail(at)'
  BY DEF place, OnTrail
<1> QED
  BY <1>1, TellSession

LEMMA LsKept ==
  ASSUME ShellInv, SessionInv, Ready, steady, ls
  PROVE  KeptTrue
<1>1. PICK V, at : Working(V, at)
  BY AtWork
<1>2. CursorInv
  BY DEF ShellInv
<1>3. PICK r, shown, outcome :
        /\ r = CurrentDirectory
        /\ shown = {<<e.name, e.attribute = ATR_DIRECTORY>> : e \in NamedEntries(AsTable(r.data))}
        /\ outcome = IF r.ret = 0 THEN Shows(Command("ls", Here, <<>>), shown)
                     ELSE Failed(Command("ls", Here, <<>>))
        /\ Tell(outcome) /\ UNCHANGED place
  BY Zenon DEF ls
<1>4. r = [ret |-> 0, data |-> disk[at[Here]]]
  BY <1>1, <1>2, <1>3, HereFacts
<1>5. outcome = Shows(Command("ls", Here, <<>>), shown)
  BY <1>3, <1>4
<1>6. outcome.cmd = "ls" /\ outcome.ok /\ outcome.answer = shown
  BY <1>5, ShowsFacts
<1>7. shown = {<<Last(p), Node(disk, p) = Folder>> : p \in ChildrenOf(Here)}
  <2>1. r.data = disk[at[Here]]
    BY <1>4
  <2> QED
    BY <1>1, <1>2, <1>3, <2>1, ListShows
<1>8. report' = outcome /\ disk' = disk /\ Here' = Here
  BY <1>3 DEF Tell, vars, place, Here
<1>9. ToldTrue'
  BY <1>6, <1>7, <1>8 DEF ToldTrue, ChildrenOf, Exists
<1>10. SessionInv'
  BY <1>3, StaySession
<1> QED
  BY <1>3, <1>6, <1>9, <1>10, TellKept DEF Changing

LEMMA CatKept ==
  ASSUME ShellInv, SessionInv, Ready, steady, NEW name \in Names, cat(name)
  PROVE  KeptTrue
<1>1. PICK V, at : Working(V, at)
  BY AtWork
<1>2. CursorInv /\ DEPTH \in Nat /\ OnTrail(at) /\ Home(V, at) /\ Scene(disk, fat, at)
  BY <1>1, DepthAssumption DEF ShellInv, CursorInv, Depths, Working
<1> DEFINE above == IF DEPTH = 0 THEN DIR_CLUSTERS[DEPTH] ELSE DIR_CLUSTERS[DEPTH - 1]
           r == DirectoryRead(above, DIR_PATH[DEPTH])
           found == Matches(AsTable(r.data), name)
           size == AsTable(r.data)[Min(found)].filesize
           file == FileRead(DIR_CLUSTERS[DEPTH], name, CatBuffer(size))
           shown == IF r.ret # 0 THEN FALSE
                    ELSE IF found = {} THEN FALSE ELSE file.ret = 0
           outcome == IF shown THEN Shows(Command("cat", Entry(name), <<>>), FileOf(file.data, size))
                      ELSE Failed(Command("cat", Entry(name), <<>>))
<1>3. Tell(outcome) /\ UNCHANGED place
  BY Zenon DEF cat
<1>4. r = [ret |-> 0, data |-> disk[at[Here]]] /\ DIR_CLUSTERS[DEPTH] = at[Here]
  <2>1. /\ CurrentDirectory = [ret |-> 0, data |-> disk[at[Here]]]
        /\ at[Here] = DIR_CLUSTERS[DEPTH]
    BY <1>1, <1>2, HereFacts
  <2>2. CURRENT_DIR_PARENT_CLUSTER_NUMBER = above
    BY <1>2 DEF CursorInv, CursorConsistent
  <2> QED
    BY <2>1, <2>2 DEF CurrentDirectory
<1>5. PICK table, node : table = AsTable(disk[at[Here]]) /\ node = Node(disk, Entry(name))
  OBVIOUS
<1> HIDE DEF r
<1>6. /\ found = Matches(table, name) /\ size = table[Min(found)].filesize
      /\ file = FileRead(at[Here], name, CatBuffer(size))
      /\ shown <=> found # {} /\ file.ret = 0
  <2>1. AsTable(r.data) = table /\ r.ret = 0
    BY <1>4, <1>5
  <2> QED
    BY <1>4, <2>1
<1> HIDE DEF file, size, found
<1>7. /\ node.kind = "file" <=> found # {} /\ file.ret = 0
      /\ node.kind = "file" => FileOf(file.data, size) = node
  BY ONLY <1>1, <1>2, <1>5, <1>6, CatReads
<1>8. /\ outcome.cmd = "cat" /\ outcome.from = Entry(name)
      /\ IF node.kind = "file" THEN outcome.ok /\ outcome.answer = node ELSE ~outcome.ok
  <2>1. CASE shown
    <3>1. outcome = Shows(Command("cat", Entry(name), <<>>), FileOf(file.data, size))
      BY <2>1
    <3>2. /\ outcome.cmd = "cat" /\ outcome.from = Entry(name) /\ outcome.ok
          /\ outcome.answer = FileOf(file.data, size)
      BY <3>1, ShowsFacts
    <3> QED
      BY <1>6, <1>7, <2>1, <3>2
  <2>2. CASE ~shown
    <3>1. outcome = Failed(Command("cat", Entry(name), <<>>))
      BY <2>2
    <3> QED
      BY <1>6, <1>7, <2>2, <3>1, FailedFacts
  <2> QED
    BY <2>1, <2>2
<1> HIDE DEF outcome
<1>9. report' = outcome /\ disk' = disk
  BY <1>3 DEF Tell, vars
<1>10. ToldTrue'
  BY <1>5, <1>8, <1>9 DEF ToldTrue
<1>11. SessionInv'
  BY <1>3, StaySession
<1> QED
  BY <1>3, <1>8, <1>10, <1>11, TellKept DEF Changing

LEMMA FindKept ==
  ASSUME SessionInv, Ready, steady, NEW name \in Names, find(name)
  PROVE  KeptTrue
<1>1. PICK walk, outcome :
        /\ outcome = IF walk.answer # <<>>
                     THEN Shows(Command("find", <<name>>, <<>>), Tail(walk.answer))
                     ELSE Failed(Command("find", <<name>>, <<>>))
        /\ Tell(outcome) /\ UNCHANGED place
  BY Zenon DEF find
<1>2. outcome.cmd = "find"
  <2>1. CASE walk.answer # <<>>
    BY <1>1, <2>1, ShowsFacts
  <2>2. CASE walk.answer = <<>>
    BY <1>1, <2>2, FailedFacts
  <2> QED
    BY <2>1, <2>2
<1>3. SessionInv'
  BY <1>1, StaySession
<1> QED
  BY <1>1, <1>2, <1>3, OtherKept DEF Changing

LEMMA UpKept ==
  ASSUME ShellInv, SessionInv, Ready, steady, cdUp
  PROVE  KeptTrue
<1>1. SessionInv'
  BY UpSession
<1>2. PICK outcome : outcome = Command("cd ..", Here, <<>>) /\ Tell(outcome)
  BY DEF cdUp
<1>3. outcome.cmd = "cd .."
  BY <1>2 DEF Command
<1> QED
  BY <1>1, <1>2, <1>3, OtherKept DEF Changing

LEMMA CdKept ==
  ASSUME ShellInv, SessionInv, Ready, steady, NEW path \in Paths, cd(path)
  PROVE  KeptTrue
<1>1. SessionInv'
  BY CdSession
<1>2. PICK walk, outcome : outcome = [Command("cd", Here, path) EXCEPT !.ok = walk.ok] /\ Tell(outcome)
  BY Zenon DEF cd
<1>3. outcome.cmd = "cd"
  BY <1>2 DEF Command
<1> QED
  BY <1>1, <1>2, <1>3, OtherKept DEF Changing

(***************************************************************************)
(* Every command.                                                          *)
(***************************************************************************)
LEMMA CommandsKept ==
  ASSUME ShellInv, SessionInv, Ready, steady, Commands
  PROVE  KeptTrue
<1>1. CASE ls
  BY <1>1, LsKept
<1>2. CASE cdUp
  BY <1>2, UpKept
<1>3. ASSUME NEW path \in Paths, cd(path)
      PROVE  KeptTrue
  BY <1>3, CdKept
<1>4. ASSUME NEW name \in Names, cat(name) \/ find(name)
      PROVE  KeptTrue
  BY <1>4, CatKept, FindKept
<1>5. ASSUME NEW name \in Names, mkdir(name)
      PROVE  KeptTrue
  BY <1>5, MkdirTold, ObeyedKept
<1>6. ASSUME NEW name \in Names \cup {Root}, rm(name)
      PROVE  KeptTrue
  BY <1>6, RmTold, ObeyedKept
<1>7. ASSUME NEW source \in Names \cup {Root}, NEW dest \in Names, mvRename(source, dest)
      PROVE  KeptTrue
  BY <1>7, RenameTold, ObeyedKept
<1>8. ASSUME NEW source \in Names, NEW dest \in Names, cp(source, dest)
      PROVE  KeptTrue
  BY <1>8, CpTold, ObeyedKept
<1>9. ASSUME NEW source \in Names, NEW path \in Paths, mvMove(source, path)
      PROVE  KeptTrue
  BY <1>9, MoveTold, ObeyedKept
<1> QED
  BY <1>1, <1>2, <1>3, <1>4, <1>5, <1>6, <1>7, <1>8, <1>9, Zenon DEF Commands

(***************************************************************************)
(* The session begins in the root directory of the image.                  *)
(***************************************************************************)
LEMMA InitSession ==
  ASSUME ShellInit
  PROVE  SessionInv /\ NothingLost /\ Truthful
<1>1. /\ disk = Image.disk /\ fat = Image.fat /\ pending = <<>> /\ DEPTH = 0 /\ MaxDepth \in Nat
      /\ DIR_CLUSTERS = [k \in Depths |-> IF k = 0 THEN ROOT_CLUSTER_NUMBER ELSE -1]
      /\ report.cmd = "none"
  BY DepthAssumption DEF ShellInit, AtPrompt
<1>2. PICK at : Scene(disk, fat, at)
  BY <1>1, ImageScene
<1>3. FinalDisk = disk
  <2>1. disk \in Disks(Versions) /\ pending \in {<<>>}
    BY <1>1, ImageImaged DEF Imaged
  <2> QED
    BY <2>1, NothingSteady DEF FinalDisk
<1>4. OnTrail(at)
  <2>1. <<>> \in DOMAIN at /\ at[<<>>] = ROOT_CLUSTER_NUMBER
    BY <1>2, SoundTree DEF Scene, Shaped
  <2>2. Upto(DIR_PATH, 0) = <<>>
    BY UptoFacts
  <2>3. DIR_CLUSTERS[0] = ROOT_CLUSTER_NUMBER
    BY <1>1 DEF Depths
  <2>4. \A k \in 0 .. DEPTH : k = 0
    BY <1>1
  <2> QED
    BY <2>1, <2>2, <2>3, <2>4 DEF OnTrail, Trails
<1>5. SessionInv
  BY <1>2, <1>3, <1>4 DEF SessionInv
<1> QED
  BY <1>1, <1>5 DEF NothingLost, Truthful

(***************************************************************************)
(* A write on its way to the disk: what moves has one instant less to be   *)
(* at either place.                                                        *)
(***************************************************************************)
LEMMA WriteKept ==
  ASSUME ShellInv, SessionInv, NothingLost, Truthful,
         write_clusters, UNCHANGED <<place, report, steady>>
  PROVE  SessionInv' /\ NothingLost' /\ Truthful'
<1>1. SessionInv'
  BY WriteSession
<1>2. report' = report /\ steady' = steady /\ pending # <<>>
  BY DEF write_clusters
<1>3. Truthful'
  BY <1>2 DEF Truthful
<1>4. ASSUME steady, NEW from, NEW to, NeverNeither(pending, from, to)
      PROVE  NeverNeither(pending, from, to)'
  <2>1. PICK V : InStep(V)
    BY <1>4 DEF ShellInv
  <2>2. PICK d, w, e, v : d = disk /\ w = pending /\ e = disk' /\ v = pending'
    OBVIOUS
  <2>3. /\ d \in Disks(V) /\ w \in Seq(Writes(V)) /\ w # <<>>
        /\ e = [d EXCEPT ![Head(w).cluster] = Head(w).content] /\ v = Tail(w)
    BY <2>1, <2>2 DEF InStep, write_clusters
  <2>4. ASSUME NEW k \in 0 .. Len(v)
        PROVE  k + 1 \in 0 .. Len(w) /\ Begun(e, v, k) = Begun(d, w, k + 1)
    <3>1. Len(v) = Len(w) - 1 /\ Len(w) \in Nat
      BY <2>3
    <3>2. k + 1 \in 1 .. Len(w) /\ k + 1 - 1 = k /\ k \in Nat
      BY <3>1
    <3> QED
      BY <2>3, <3>2, BegunNext DEF Disks
  <2>5. \A k \in 0 .. Len(w) : Node(Begun(d, w, k), from) # Absent \/ Node(Begun(d, w, k), to) # Absent
    BY <1>4, <2>2 DEF NeverNeither
  <2>6. \A k \in 0 .. Len(v) : Node(Begun(e, v, k), from) # Absent \/ Node(Begun(e, v, k), to) # Absent
    BY <2>4, <2>5
  <2> QED
    BY <2>2, <2>6 DEF NeverNeither
<1>5. NothingLost'
  <2>1. ASSUME steady, report.cmd = "mv", report.ok
        PROVE  NeverNeither(pending, report.from, report.to)'
    <3>1. NeverNeither(pending, report.from, report.to)
      BY <2>1 DEF NothingLost
    <3>2. PICK from, to : from = report.from /\ to = report.to
      OBVIOUS
    <3>3. NeverNeither(pending, from, to)'
      BY <1>4, <2>1, <3>1, <3>2
    <3> QED
      BY <1>2, <3>2, <3>3 DEF NeverNeither
  <2> QED
    BY <1>2, <2>1 DEF NothingLost
<1> QED
  BY <1>1, <1>3, <1>5

LEMMA StutterKept ==
  ASSUME SessionInv, NothingLost, Truthful, UNCHANGED shellVars
  PROVE  SessionInv' /\ NothingLost' /\ Truthful'
<1>1. /\ UNCHANGED <<disk, fat, pending, report, steady>>
      /\ UNCHANGED <<DEPTH, DIR_PATH, DIR_CLUSTERS>>
  BY DEF shellVars, vars, place
<1>2. SessionInv'
  <2>1. FinalDisk' = FinalDisk
    BY <1>1 DEF FinalDisk
  <2>2. \A at : OnTrail(at) => OnTrail(at)'
    BY <1>1 DEF OnTrail
  <2>3. ASSUME steady
        PROVE  (\E at : Scene(FinalDisk, fat, at) /\ OnTrail(at))'
    <3>1. PICK at : Scene(FinalDisk, fat, at) /\ OnTrail(at)
      BY <2>3 DEF SessionInv
    <3>2. Scene(FinalDisk', fat', at) /\ OnTrail(at)'
      BY <1>1, <2>1, <2>2, <3>1
    <3> QED
      BY <3>2
  <2> QED
    BY <1>1, <2>3 DEF SessionInv
<1>3. NothingLost'
  BY <1>1 DEF NothingLost, NeverNeither
<1>4. Truthful'
  <2>1. ChildrenOf(Here)' = ChildrenOf(Here)
    BY <1>1 DEF ChildrenOf, Exists, Here
  <2>2. ToldTrue' = ToldTrue
    BY <1>1, <2>1 DEF ToldTrue
  <2> QED
    BY <1>1, <2>2 DEF Truthful
<1> QED
  BY <1>2, <1>3, <1>4

(***************************************************************************)
(* The prompt forgets what the last command has told, and nothing else.    *)
(***************************************************************************)
LEMMA PromptKept ==
  ASSUME SessionInv, print_terminal_text
  PROVE  SessionInv' /\ NothingLost' /\ Truthful' /\ DoesAsTold
<1>1. /\ UNCHANGED <<disk, fat, pending, steady>> /\ pending = <<>>
      /\ UNCHANGED <<DEPTH, DIR_PATH, DIR_CLUSTERS>>
      /\ report'.cmd = "none"
  BY DEF print_terminal_text, AtPrompt, Ready, vars, place
<1>2. SessionInv'
  <2>1. FinalDisk' = FinalDisk
    BY <1>1 DEF FinalDisk
  <2>2. \A at : OnTrail(at) => OnTrail(at)'
    BY <1>1 DEF OnTrail
  <2>3. ASSUME steady
        PROVE  (\E at : Scene(FinalDisk, fat, at) /\ OnTrail(at))'
    <3>1. PICK at : Scene(FinalDisk, fat, at) /\ OnTrail(at)
      BY <2>3 DEF SessionInv
    <3>2. Scene(FinalDisk', fat', at) /\ OnTrail(at)'
      BY <1>1, <2>1, <2>2, <3>1
    <3> QED
      BY <3>2
  <2> QED
    BY <1>1, <2>3 DEF SessionInv
<1>3. NothingLost'
  BY <1>1 DEF NothingLost
<1>4. Truthful'
  BY <1>1 DEF Truthful, ToldTrue
<1>5. DoesAsTold
  BY <1>1 DEF DoesAsTold
<1> QED
  BY <1>2, <1>3, <1>4, <1>5

\* The inductive invariant of a sensible session.
CommandInv == ShellInv /\ SessionInv /\ NothingLost /\ Truthful

LEMMA CommandNext ==
  ASSUME CommandInv, [ShellNext]_shellVars
  PROVE  (SessionInv /\ NothingLost /\ Truthful)' /\ (CommandStep /\ steady' => DoesAsTold)
<1> USE DEF CommandInv
<1>1. CASE UNCHANGED shellVars
  <2>1. ~CommandStep
    BY <1>1 DEF CommandStep, shellVars, vars
  <2> QED
    BY <1>1, <2>1, StutterKept
<1>2. CASE write_clusters /\ UNCHANGED <<place, report, steady>>
  <2>1. ~CommandStep
    BY <1>2 DEF CommandStep, Ready, write_clusters
  <2> QED
    BY <1>2, <2>1, WriteKept
<1>3. CASE Ready /\ steady /\ report = AtPrompt /\ Commands
  BY <1>3, CommandsKept DEF KeptTrue
<1>4. CASE print_terminal_text
  BY <1>4, PromptKept
<1> QED
  BY <1>1, <1>2, <1>3, <1>4 DEF ShellNext

(***************************************************************************)
(* The inductive invariant of the session: as long as it is sensible, the  *)
(* disk holds or will hold a tree with the user in it, what moves is at    *)
(* one of its two places at every instant until the tables are written,    *)
(* and what ls and cat have last shown is so.                              *)
(***************************************************************************)
THEOREM SessionInvariant == ShellSpec => []CommandInv
<1>1. ShellInit => CommandInv
  BY InitShellInv, InitSession DEF CommandInv
<1>2. ShellInv' /\ CommandInv /\ [ShellNext]_shellVars => CommandInv'
  BY CommandNext DEF CommandInv
<1> QED
  BY <1>1, <1>2, ShellInvariant, PTL DEF ShellSpec

(***************************************************************************)
(* mkdir, rm, cp and mv, when they are sensible, do to the tree what the   *)
(* list of commands in README.md says and nothing else, anywhere in it;    *)
(* what reports a failure does nothing (user-shell.c:586-708, 867-1225).   *)
(* For cp and mv sensible includes what no user sees: that the bytes left  *)
(* behind a short name on the stack do not make it another entry's.        *)
(***************************************************************************)
THEOREM CommandsDoAsTold == ShellSpec => AsTold
<1>1. CommandInv /\ [ShellNext]_shellVars => [CommandStep /\ steady' => DoesAsTold]_shellVars
  BY CommandNext
<1> QED
  BY <1>1, SessionInvariant, PTL DEF AsTold, ShellSpec

(***************************************************************************)
(* A file that is being moved is at one of its two places at every instant *)
(* between the writes of the two tables, so that a power loss may leave    *)
(* two entries for it but not none (user-shell.c:1176-1177).               *)
(***************************************************************************)
THEOREM MovesLoseNothing == ShellSpec => []MoveNeverLoses
<1>1. CommandInv => MoveNeverLoses
  <2> SUFFICES ASSUME CommandInv, steady, report.cmd = "mv", report.ok
               PROVE  Exists(report.from) \/ Exists(report.to)
    BY DEF MoveNeverLoses
  <2>1. PICK V : InStep(V)
    BY DEF CommandInv, ShellInv
  <2>2. disk \in Disks(V) /\ pending \in Seq(Writes(V))
    BY <2>1 DEF InStep
  <2>3. Begun(disk, pending, 0) = disk /\ 0 \in 0 .. Len(pending)
    BY <2>2, BegunEnds, LenProperties
  <2> QED
    BY <2>3 DEF CommandInv, NothingLost, NeverNeither, Exists
<1> QED
  BY <1>1, SessionInvariant, PTL

(***************************************************************************)
(* ls and cat show what is there, and nothing else, in whatever directory  *)
(* the user is and however it was reached (user-shell.c:341-397, 503-584). *)
(***************************************************************************)
THEOREM AnswersAreTrue == ShellSpec => []AnswersTrue
<1>1. CommandInv => AnswersTrue
  BY DEF CommandInv, Truthful, AnswersTrue, ToldTrue, Idle
<1> QED
  BY <1>1, SessionInvariant, PTL

(***************************************************************************)
(* The path in the prompt is where the commands work, whatever was made,   *)
(* moved or renamed before (user-shell.c:320-339, 399-501).                *)
(***************************************************************************)
THEOREM PromptIsTrue == ShellSpec => []WhereIAm
<1>1. CommandInv => WhereIAm
  <2> SUFFICES ASSUME CommandInv, steady, Ready
               PROVE  DirectoryCluster(disk, Here) = CURRENT_DIR_CLUSTER_NUMBER
    BY DEF WhereIAm, Idle
  <2>1. PICK V, at : Working(V, at)
    BY AtWork DEF CommandInv
  <2>2. disk \in Disks(V) /\ Sound(disk, fat, at) /\ CursorInv
    BY <2>1 DEF Working, Home, Settled, CommandInv, ShellInv
  <2>3. Here \in DOMAIN at /\ at[Here] = CURRENT_DIR_CLUSTER_NUMBER
    BY <2>1, <2>2, HereFacts
  <2> QED
    BY <2>2, <2>3, PlacesAre
<1> QED
  BY <1>1, SessionInvariant, PTL

\* The named places are the entries of the tree.
LEMMA NamedPlacesAre ==
  ASSUME NEW V, NEW at, Home(V, at), NEW L, L = Listing(disk, at), NEW e \in NamedPlaces
  PROVE  \E x, j : Live(L, x, j) /\ e = <<at[x], j>> /\ EntryAt(e) = L[x][j]
<1>1. ShellDirectories = {at[x] : x \in DOMAIN at}
  BY DirectoriesAre DEF ShellDirectories, Directories
<1>2. e \in ShellDirectories \X Rows /\ EntryAt(e).name # NoName
  BY DEF NamedPlaces, Rows
<1>3. PICK x \in DOMAIN at, j \in Rows : e = <<at[x], j>>
  BY <1>1, <1>2
<1>4. EntryAt(<<at[x], j>>) = Listing(disk, at)[x][j]
  BY DirectoriesAre
<1>5. EntryAt(e) = L[x][j]
  BY <1>3, <1>4
<1>6. L[x][j].name # NoName
  BY <1>2, <1>5
<1>7. x \in DOMAIN L
  <2>1. DOMAIN L = DOMAIN at
    BY DEF Listing
  <2> QED
    BY <1>3, <2>1
<1>8. Live(L, x, j)
  BY <1>3, <1>6, <1>7 DEF Live
<1> QED
  BY <1>3, <1>5, <1>8

(***************************************************************************)
(* Sensible commands keep the tree sound, of any size and in any session,  *)
(* although moved files leave nameless entries behind: no two entries of a *)
(* directory have one name, no two named entries share a cluster, and      *)
(* every file and folder is whole (user-shell.c:586-708, 867-1225).        *)
(***************************************************************************)
THEOREM SessionsKeepTheTree == ShellSpec => []SteadyIsSound
<1>1. CommandInv => SteadyIsSound
  <2> SUFFICES ASSUME CommandInv, steady, Ready
               PROVE  /\ \A e, f \in NamedPlaces :
                           e # f => /\ ClustersOf(e) \cap ClustersOf(f) = {}
                                    /\ e[1] = f[1] => EntryAt(e).name # EntryAt(f).name
                      /\ \A e \in NamedPlaces :
                           /\ NodeOfEntry(disk, EntryAt(e)) # Damaged
                           /\ EntryAt(e).name # AsTable(disk[e[1]])[0].name
    BY DEF SteadyIsSound, Idle
  <2>1. PICK V, at : Working(V, at)
    BY AtWork DEF CommandInv
  <2>2. Home(V, at) /\ Scene(disk, fat, at) /\ Sound(disk, fat, at)
    BY <2>1 DEF Working, Home
  <2>3. PICK L : L = Listing(disk, at) /\ Shaped(at, L) /\ Allotted(fat, L)
    BY <2>2, SoundTree
  <2>4. ASSUME NEW e \in NamedPlaces, NEW f \in NamedPlaces, e # f
        PROVE  /\ ClustersOf(e) \cap ClustersOf(f) = {}
               /\ e[1] = f[1] => EntryAt(e).name # EntryAt(f).name
    <3>1. PICK x, j : Live(L, x, j) /\ e = <<at[x], j>> /\ EntryAt(e) = L[x][j]
      BY <2>2, <2>3, NamedPlacesAre
    <3>2. PICK y, k : Live(L, y, k) /\ f = <<at[y], k>> /\ EntryAt(f) = L[y][k]
      BY <2>2, <2>3, NamedPlacesAre
    <3>3. ~(x = y /\ j = k)
      BY <2>4, <3>1, <3>2
    <3>4. ToSet(ChainOf(fat, L, x, j)) \cap ToSet(ChainOf(fat, L, y, k)) = {}
      BY <2>3, <3>1, <3>2, <3>3 DEF Allotted
    <3>5. ASSUME e[1] = f[1], EntryAt(e).name = EntryAt(f).name
          PROVE  FALSE
      <4>1. at[x] = at[y] /\ x \in DOMAIN at /\ y \in DOMAIN at
        BY <2>3, <3>1, <3>2, <3>5 DEF Live, Shaped
      <4>2. x = y
        BY <2>3, <4>1, FoldersApart
      <4>3. PICK p : Leads(L, x, j, p)
        BY <3>1 DEF Leads
      <4>4. Leads(L, y, k, p)
        BY <3>1, <3>2, <3>5, <4>2, <4>3 DEF Leads
      <4> QED
        BY <2>3, <3>3, <4>3, <4>4 DEF Shaped
    <3> QED
      BY <3>1, <3>2, <3>4, <3>5 DEF ClustersOf, ChainOf
  <2>5. ASSUME NEW e \in NamedPlaces
        PROVE  /\ NodeOfEntry(disk, EntryAt(e)) # Damaged
               /\ EntryAt(e).name # AsTable(disk[e[1]])[0].name
    <3>1. PICK x, j : Live(L, x, j) /\ e = <<at[x], j>> /\ EntryAt(e) = L[x][j]
      BY <2>2, <2>3, NamedPlacesAre
    <3>2. PICK p : Leads(L, x, j, p)
      BY <3>1 DEF Leads
    <3>3. p \in Paths /\ Node(disk, p) = NodeOfEntry(disk, L[x][j])
      BY <2>1, <2>3, <3>2, RowNode
    <3>4. Node(disk, p) # Damaged /\ OwnNames(disk, at)
      BY <2>2, <3>3 DEF Scene, Whole
    <3>5. L[x][j].name # AsTable(disk[at[x]])[0].name
      BY <2>3, <3>1, <3>4 DEF OwnNames
    <3> QED
      BY <3>1, <3>3, <3>4, <3>5
  <2> QED
    BY <2>4, <2>5
<1> QED
  BY <1>1, SessionInvariant, PTL

=============================================================================
