--------------------------- MODULE FAT32TreeProofs ---------------------------
(***************************************************************************)
(* The tree on the disk (modules FAT32 and FAT32Store): entries, chains    *)
(* and tables, and what a caller sees of them by following a path.         *)
(***************************************************************************)
EXTENDS FAT32Store, FAT32Proofs

-----------------------------------------------------------------------------
(* The tree.  "at" gives the cluster of each folder, by its path, and a      *)
(* listing the entries of each folder but the first, which is the folder's   *)
(* own.                                                                       *)

Rows == Positions \ {0}

Listing(d, at) == [x \in DOMAIN at |-> [j \in Rows |-> AsTable(d[at[x]])[j]]]

\* An entry is one that a lookup can find if it has a name; mv leaves entries
\* in the root directory that have lost theirs.
Live(L, x, j) == x \in DOMAIN L /\ j \in Rows /\ L[x][j].name # NoName

Vacant(x, entry) == entry = EmptyEntry \/ (x = <<>> /\ entry.used /\ entry.name = NoName)

\* Row j of the folder at x is the entry at path p.
Leads(L, x, j, p) == Live(L, x, j) /\ Append(x, L[x][j].name) = p

(***************************************************************************)
(* Every entry is at a path of its own, every folder is an entry, and what *)
(* has no name is empty, or is in the root directory.                      *)
(***************************************************************************)
Shaped(at, L) ==
  /\ DOMAIN at \subseteq Paths \cup {<<>>} /\ <<>> \in DOMAIN at /\ DOMAIN L = DOMAIN at
  /\ at[<<>>] = ROOT_CLUSTER_NUMBER
  /\ \A x \in DOMAIN at : at[x] \in OffFAT \ {0} /\ L[x] \in [Rows -> PointingOff]
  /\ \A x \in DOMAIN at, j \in Rows : Vacant(x, L[x][j]) \/ (L[x][j].used /\ L[x][j].name # NoName)
  /\ \A x, j : Live(L, x, j) => Append(x, L[x][j].name) \in Paths
  /\ \A x, j : Live(L, x, j) /\ L[x][j].filesize = 0 =>
       /\ Append(x, L[x][j].name) \in DOMAIN at
       /\ at[Append(x, L[x][j].name)] = L[x][j].cluster
  /\ \A x, j, y, k, p : Leads(L, x, j, p) /\ Leads(L, y, k, p) => x = y /\ j = k
  /\ \A p \in DOMAIN at \ {<<>>} : \E x, j : Leads(L, x, j, p) /\ L[x][j].filesize = 0

\* The folders' clusters hold tables, with an entry for themselves, and entries
\* have the attribute of their kind.
OwnRow(table) == table[0].used /\ table[0].filesize = 0
Seated(d, at, L) ==
  /\ \A x \in DOMAIN at : d[at[x]].kind = "dir" /\ OwnRow(AsTable(d[at[x]]))
  /\ \A x, j : Live(L, x, j) => L[x][j].attribute = AttributeOf(L[x][j].filesize)

NeedOf(entry) == IF entry.filesize = 0 THEN 1 ELSE ClusterNeed(entry.filesize)
ChainOf(map, L, x, j) == Chain(map, L[x][j].cluster)

\* Complete chains, apart from each other and from what formatting takes, and
\* nothing allocated besides.
Allotted(map, L) ==
  /\ \A x, j : Live(L, x, j) =>
       /\ Complete(map, ChainOf(map, L, x, j))
       /\ Len(ChainOf(map, L, x, j)) = NeedOf(L[x][j])
       /\ ToSet(ChainOf(map, L, x, j)) \cap {0, 1, 2} = {}
  /\ \A x, j, y, k : Live(L, x, j) /\ Live(L, y, k) =>
       \/ x = y /\ j = k
       \/ ToSet(ChainOf(map, L, x, j)) \cap ToSet(ChainOf(map, L, y, k)) = {}
  /\ \A c \in Clusters :
       map[c] # FAT32_FAT_EMPTY_ENTRY <=>
         \/ c \in {0, 1, 2}
         \/ \E x, j : Live(L, x, j) /\ c \in ToSet(ChainOf(map, L, x, j))

Sound(d, map, at) ==
  /\ d[BOOT_SECTOR] = Signature
  /\ Shaped(at, Listing(d, at))
  /\ Seated(d, at, Listing(d, at))
  /\ Allotted(map, Listing(d, at))

(***************************************************************************)
(* The disk as it will be once the writes of the call in progress are made *)
(* holds a tree; with the power off, a formatted disk holds one, and one   *)
(* that is not formatted has nothing where the root directory will be.     *)
(***************************************************************************)
Plain(d) == d[ROOT_CLUSTER_NUMBER] = Blank /\ d[BOOT_SECTOR] = Blank

TreeInv ==
  /\ power => \E at : Sound(FinalDisk, fat, at)
  /\ ~power =>
       IF is_empty_storage THEN Plain(disk)
       ELSE \E at : Sound(disk, AsFAT(disk[FAT_CLUSTER_NUMBER]), at)

-----------------------------------------------------------------------------
(* Paths *)

LEMMA AppendFacts ==
  ASSUME NEW S, NEW x \in Seq(S), NEW name
  PROVE  /\ Front(Append(x, name)) = x /\ Last(Append(x, name)) = name
         /\ Append(x, name) # <<>>
<1> DEFINE T == S \cup {name}
           p == Append(x, name)
<1>1. x \in Seq(T)
  BY SeqMonotonic
<1>2. p \in Seq(T) /\ Len(p) = Len(x) + 1 /\ Len(x) \in Nat
      /\ p[Len(x) + 1] = name /\ \A k \in 1 .. Len(x) : p[k] = x[k]
  BY <1>1
<1>3. Front(p) \in Seq(T) /\ Len(Front(p)) = Len(x) /\ \A k \in 1 .. Len(x) : Front(p)[k] = x[k]
  BY <1>2 DEF Front
<1>4. Front(p) = x
  BY <1>1, <1>3, SeqEqual
<1>5. p # <<>>
  BY <1>2
<1> QED
  BY <1>2, <1>4, <1>5 DEF Last

(***************************************************************************)
(* A path is the folder it is in and a name.                               *)
(***************************************************************************)
LEMMA PathFacts ==
  ASSUME NEW p \in Paths
  PROVE  /\ p \in Seq(Names) /\ p # <<>> /\ Len(p) \in Nat \ {0}
         /\ Front(p) \in Seq(Names) /\ Len(Front(p)) = Len(p) - 1
         /\ Front(p) \in Paths \cup {<<>>}
         /\ Last(p) \in Names /\ Last(p) # NoName
         /\ Append(Front(p), Last(p)) = p
<1>1. p \in Seq(Names) /\ p # <<>> /\ (Len(p) > 1 => Front(p) \in Paths)
  BY PathsAssumption
<1>2. Len(p) \in Nat \ {0}
  BY <1>1, EmptySeq
<1>3. Front(p) \in Seq(Names) /\ Len(Front(p)) = Len(p) - 1
      /\ \A k \in 1 .. Len(p) - 1 : Front(p)[k] = p[k]
  <2>1. PICK n \in Nat : n = Len(p) - 1
    BY <1>2
  <2>2. \A k \in 1 .. n : p[k] \in Names
    <3>1. \A k \in 1 .. n : k \in 1 .. Len(p)
      BY <2>1
    <3> QED
      BY <1>1, <3>1, ElementOfSeq
  <2>3. /\ SubSeq(p, 1, n) \in Seq(Names) /\ Len(SubSeq(p, 1, n)) = n
        /\ \A k \in 1 .. n : SubSeq(p, 1, n)[k] = p[k]
    BY <2>2, SubSeqProperties
  <2> QED
    BY <2>1, <2>3 DEF Front
<1>4. Last(p) = p[Len(p)] /\ Last(p) \in Names
  <2>1. Len(p) \in 1 .. Len(p)
    BY <1>2
  <2> QED
    BY <1>1, <2>1, ElementOfSeq DEF Last
<1>5. Front(p) \in Paths \cup {<<>>}
  <2>1. CASE Len(p) > 1
    BY <1>1, <2>1
  <2>2. CASE ~(Len(p) > 1)
    <3>1. Len(Front(p)) = 0
      BY <1>2, <1>3, <2>2
    <3>2. Front(p) = <<>>
      BY <1>3, <3>1, EmptySeq
    <3> QED
      BY <3>2
  <2> QED
    BY <2>1, <2>2
<1>6. Append(Front(p), Last(p)) = p
  <2> DEFINE q == Append(Front(p), Last(p))
  <2>1. q \in Seq(Names) /\ Len(q) = Len(p) /\ \A k \in 1 .. Len(p) : q[k] = p[k]
    BY <1>2, <1>3, <1>4
  <2>2. q = p
    <3> HIDE DEF q
    <3> QED
      BY <1>1, <2>1, SeqEqual
  <2> QED
    BY <2>2
<1> QED
  BY <1>1, <1>2, <1>3, <1>4, <1>5, <1>6, NamesAssumption DEF NamesAssumption, NoName

(***************************************************************************)
(* A folder's path is a sequence of names, and what is used in it has a    *)
(* name.                                                                   *)
(***************************************************************************)
LEMMA ShapedFacts ==
  ASSUME NEW at, NEW L, Shaped(at, L)
  PROVE  /\ \A x \in DOMAIN at : x \in Seq(Names) /\ at[x] \in OffFAT /\ at[x] # 0
         /\ \A x, j, p : Leads(L, x, j, p) =>
              /\ p \in Paths /\ x = Front(p) /\ L[x][j].name = Last(p)
              /\ x \in DOMAIN at /\ j \in Rows /\ L[x][j] \in PointingOff
<1>1. \A x \in DOMAIN at : x \in Seq(Names)
  <2>1. \A x \in Paths : x \in Seq(Names)
    BY PathFacts
  <2>2. <<>> \in Seq(Names)
    BY EmptySeq
  <2> QED
    BY <2>1, <2>2, Zenon DEF Shaped
<1>2. ASSUME NEW x, NEW j, NEW p, Leads(L, x, j, p)
      PROVE  /\ p \in Paths /\ x = Front(p) /\ L[x][j].name = Last(p)
             /\ x \in DOMAIN at /\ j \in Rows /\ L[x][j] \in PointingOff
  <2>1. x \in DOMAIN at /\ j \in Rows /\ Append(x, L[x][j].name) = p
    BY <1>2 DEF Leads, Live, Shaped
  <2>2. p \in Paths
    BY <1>2 DEF Leads, Shaped
  <2>3. L[x] \in [Rows -> PointingOff]
    BY <2>1 DEF Shaped
  <2> QED
    BY <1>1, <2>1, <2>2, <2>3, AppendFacts
<1> QED
  BY <1>1, <1>2 DEF Shaped

-----------------------------------------------------------------------------
(* Following a path on a disk with a tree *)

TreeOn(d, at) == Shaped(at, Listing(d, at)) /\ AsTable(d[BOOT_SECTOR]) = ZeroTable

\* Where a path leads, as the driver's callers take it.
PlaceOf(at, path) == IF path \in DOMAIN at THEN at[path] ELSE 0

LEMMA ListingFacts ==
  ASSUME NEW V, NEW d \in Disks(V), NEW at, Shaped(at, Listing(d, at)), NEW x \in DOMAIN at
  PROVE  /\ AsTable(d[at[x]]) \in Tables
         /\ \A j \in Rows : j \in Positions /\ Listing(d, at)[x][j] = AsTable(d[at[x]])[j]
<1>1. at[x] \in Clusters
  BY ShapedFacts, EmptyTyped
<1>2. d[at[x]] \in HeldContents(V)
  BY <1>1 DEF Disks
<1>3. AsTable(d[at[x]]) \in Tables
  BY <1>2, ReadsAs
<1> QED
  BY <1>3 DEF Listing, Rows

(***************************************************************************)
(* What a lookup in a folder lists is what the tree has there.             *)
(***************************************************************************)
LEMMA ListedFacts ==
  ASSUME NEW V, NEW d \in Disks(V), NEW at, Shaped(at, Listing(d, at)), NEW x \in DOMAIN at,
         NEW name \in Names
  PROVE  \A j : j \in Listed(AsTable(d[at[x]]), name)
                  <=> Leads(Listing(d, at), x, j, Append(x, name))
<1> DEFINE t == AsTable(d[at[x]])
           L == Listing(d, at)
<1>1. /\ x \in Seq(Names) /\ x \in DOMAIN L
      /\ \A j \in Rows : j \in Positions /\ L[x][j] = t[j]
  <2>1. x \in Seq(Names)
    BY ShapedFacts
  <2>2. \A j \in Rows : j \in Positions /\ L[x][j] = t[j]
    BY ListingFacts
  <2>3. x \in DOMAIN L
    <3> HIDE DEF L
    <3> QED
      BY DEF Shaped, L
  <2> QED
    BY <2>1, <2>2, <2>3
<1>2. \A j : j \in Listed(t, name) <=> j \in Rows /\ t[j].name = name
  BY DEF Listed, Matches, Rows
<1>3. name # NoName
  BY NamesAssumption DEF NoName, NamesAssumption
<1> HIDE DEF t, L
<1>4. ASSUME NEW j, j \in Rows, t[j].name = name
      PROVE  Leads(L, x, j, Append(x, name))
  <2>1. L[x][j].name = name
    BY <1>1, <1>4
  <2> QED
    BY <1>1, <1>3, <1>4, <2>1 DEF Leads, Live
<1>5. ASSUME NEW j, Leads(L, x, j, Append(x, name))
      PROVE  j \in Rows /\ t[j].name = name
  <2>1. j \in Rows /\ L[x][j].name = Last(Append(x, name))
    BY <1>5, ShapedFacts DEF L
  <2>2. Last(Append(x, name)) = name
    BY <1>1, AppendFacts
  <2> QED
    BY <1>1, <2>1, <2>2
<1> QED
  BY <1>2, <1>4, <1>5 DEF t, L

LEMMA MinOfOne ==
  ASSUME NEW S, NEW j \in Nat, \A k : k \in S <=> k = j
  PROVE  S # {} /\ Min(S) = j
<1>1. S \subseteq Nat /\ S # {}
  OBVIOUS
<1>2. Min(S) \in S
  BY <1>1, MinProperty
<1> QED
  BY <1>1, <1>2

LEMMA FoundFacts ==
  ASSUME NEW V, NEW d \in Disks(V), NEW at, Shaped(at, Listing(d, at)), NEW x \in DOMAIN at,
         NEW name \in Names, NEW j, Leads(Listing(d, at), x, j, Append(x, name))
  PROVE  /\ Listed(AsTable(d[at[x]]), name) # {}
         /\ Min(Listed(AsTable(d[at[x]]), name)) = j
         /\ AsTable(d[at[x]])[j] = Listing(d, at)[x][j]
<1> DEFINE L == Listing(d, at)
<1>1. \A k : Leads(L, x, k, Append(x, name)) => k = j
  BY DEF Shaped
<1>2. j \in Rows /\ j \in Nat
  BY ShapedFacts, SizeFacts DEF Rows
<1>3. \A k : k \in Listed(AsTable(d[at[x]]), name) <=> k = j
  BY <1>1, ListedFacts
<1> QED
  BY <1>2, <1>3, MinOfOne, ListingFacts

LEMMA FolderStep ==
  ASSUME NEW V, NEW d \in Disks(V), NEW at, TreeOn(d, at), NEW q \in Paths
  PROVE  ChildCluster(d, PlaceOf(at, Front(q)), Last(q)) = PlaceOf(at, q)
<1> DEFINE x == Front(q)
           name == Last(q)
           L == Listing(d, at)
<1>0. Shaped(at, L)
  BY DEF TreeOn
<1>1. /\ name \in Names /\ name # NoName /\ Append(x, name) = q /\ q # <<>>
  BY PathFacts
<1>2. q \in DOMAIN at => \E y, j : Leads(L, y, j, q) /\ L[y][j].filesize = 0
  BY <1>0, <1>1 DEF Shaped
<1>3. \A y, j : Leads(L, y, j, q) => y = x /\ x \in DOMAIN at
  BY <1>0, ShapedFacts
<1> HIDE DEF x, name, L
<1>4. CASE x \notin DOMAIN at
  <2>1. q \notin DOMAIN at
    BY <1>2, <1>3, <1>4
  <2>2. Listed(ZeroTable, name) = {}
    <3>1. \A j \in Positions : ZeroTable[j].name = NoName
      BY DEF ZeroTable, EmptyEntry
    <3> QED
      BY <1>1, <3>1 DEF Listed, Matches
  <2>3. ChildCluster(d, 0, name) = 0
    BY <2>2 DEF ChildCluster, TreeOn, BOOT_SECTOR
  <2> QED
    BY <1>4, <2>1, <2>3 DEF PlaceOf, x, name
<1>5. CASE x \in DOMAIN at /\ \E j : Leads(L, x, j, q)
  <2>1. PICK j : Leads(L, x, j, q)
    BY <1>5
  <2>2. /\ Listed(AsTable(d[at[x]]), name) # {}
        /\ Min(Listed(AsTable(d[at[x]]), name)) = j
        /\ AsTable(d[at[x]])[j] = L[x][j]
    <3>1. Leads(Listing(d, at), x, j, Append(x, name))
      BY <1>1, <2>1, Zenon DEF L
    <3> QED
      <4>1. Shaped(at, Listing(d, at)) /\ x \in DOMAIN at /\ name \in Names
        BY <1>0, <1>1, <1>5 DEF L
      <4>2. /\ Listed(AsTable(d[at[x]]), name) # {}
            /\ Min(Listed(AsTable(d[at[x]]), name)) = j
            /\ AsTable(d[at[x]])[j] = Listing(d, at)[x][j]
        BY <3>1, <4>1, FoundFacts
      <4> QED
        BY <4>2 DEF L
  <2>3. ChildCluster(d, at[x], name) = IF L[x][j].filesize = 0 THEN L[x][j].cluster ELSE 0
    BY <2>2 DEF ChildCluster
  <2>4. L[x][j].filesize = 0 => q \in DOMAIN at /\ at[q] = L[x][j].cluster
    BY <1>0, <2>1 DEF Shaped, Leads
  <2>5. q \in DOMAIN at => L[x][j].filesize = 0
    BY <1>0, <1>2, <2>1 DEF Shaped
  <2> QED
    BY <1>5, <2>3, <2>4, <2>5 DEF PlaceOf, x, name
<1>6. CASE x \in DOMAIN at /\ ~ \E j : Leads(L, x, j, q)
  <2>1. q \notin DOMAIN at
    BY <1>2, <1>3, <1>6
  <2>2. Listed(AsTable(d[at[x]]), name) = {}
    BY <1>0, <1>1, <1>6, ListedFacts DEF L
  <2>3. ChildCluster(d, at[x], name) = 0
    BY <2>2 DEF ChildCluster
  <2> QED
    BY <1>6, <2>1, <2>3 DEF PlaceOf, x, name
<1> QED
  BY <1>4, <1>5, <1>6

(***************************************************************************)
(* Entering folder after folder leads to the folder's cluster, and where   *)
(* there is no folder to cluster 0.                                        *)
(***************************************************************************)
LEMMA FolderClusters ==
  ASSUME NEW V, NEW d \in Disks(V), NEW at, TreeOn(d, at), NEW q \in Paths \cup {<<>>}
  PROVE  DirectoryCluster(d, q) = PlaceOf(at, q)
<1>1. Len(q) \in Nat
  BY PathFacts
<1>2. PICK N \in Nat : N = Len(q)
  BY <1>1
<1> DEFINE All == Paths \cup {<<>>}
           S == {n \in 0 .. N : \A p \in All : Len(p) = n => DirectoryCluster(d, p) = PlaceOf(at, p)}
<1>3. DirectoryCluster(d, <<>>) = PlaceOf(at, <<>>)
  BY DirectoryStep DEF TreeOn, Shaped, PlaceOf
<1>4. 0 \in S
  <2>1. \A p \in All : Len(p) = 0 => p = <<>>
    BY PathFacts
  <2> QED
    BY <1>3, <2>1
<1>5. ASSUME NEW n \in 0 .. N, n < N, n \in S
      PROVE  n + 1 \in S
  <2>1. ASSUME NEW p \in All, Len(p) = n + 1
        PROVE  DirectoryCluster(d, p) = PlaceOf(at, p)
    <3>1. p \in Paths
      BY <2>1
    <3>2. Front(p) \in All /\ Len(Front(p)) = n /\ p \in Seq(Names) /\ p # <<>>
      BY <3>1, <2>1, PathFacts
    <3>3. DirectoryCluster(d, Front(p)) = PlaceOf(at, Front(p))
      BY <1>5, <3>2
    <3>4. DirectoryCluster(d, p) = ChildCluster(d, DirectoryCluster(d, Front(p)), Last(p))
      BY <3>2, DirectoryStep
    <3> QED
      BY <3>1, <3>3, <3>4, FolderStep
  <2>2. n + 1 \in 0 .. N
    BY <1>5
  <2> QED
    BY <2>1, <2>2
<1>6. N \in S
  <2>1. N \in 0 .. N
    OBVIOUS
  <2> HIDE DEF S
  <2> QED
    BY <1>4, <1>5, <2>1, CountingUp
<1> QED
  BY <1>2, <1>6

(***************************************************************************)
(* What is at a path is what the tree's entry there stands for.            *)
(***************************************************************************)
LEMMA NodeFacts ==
  ASSUME NEW V, NEW d \in Disks(V), NEW at, TreeOn(d, at), NEW p \in Paths
  PROVE  /\ \A x, j : Leads(Listing(d, at), x, j, p) =>
              Node(d, p) = NodeOfEntry(d, Listing(d, at)[x][j])
         /\ (\A x, j : ~Leads(Listing(d, at), x, j, p)) => Node(d, p) = Absent
<1> DEFINE L == Listing(d, at)
<1>0. Shaped(at, L)
  BY DEF TreeOn
<1>1. Last(p) \in Names /\ Append(Front(p), Last(p)) = p /\ Front(p) \in Paths \cup {<<>>}
  BY PathFacts
<1>2. DirectoryCluster(d, Front(p)) = PlaceOf(at, Front(p))
  BY <1>1, FolderClusters
<1>3. ASSUME NEW x, NEW j, Leads(L, x, j, p)
      PROVE  Node(d, p) = NodeOfEntry(d, L[x][j])
  <2>1. x = Front(p) /\ x \in DOMAIN at
    BY <1>0, <1>3, ShapedFacts
  <2>2. /\ Listed(AsTable(d[at[x]]), Last(p)) # {}
        /\ Min(Listed(AsTable(d[at[x]]), Last(p))) = j
        /\ AsTable(d[at[x]])[j] = L[x][j]
    <3>1. Leads(Listing(d, at), x, j, Append(x, Last(p)))
      BY <1>1, <1>3, <2>1, Zenon
    <3> QED
      BY <1>0, <1>1, <2>1, <3>1, FoundFacts
  <2>3. DirectoryCluster(d, Front(p)) = at[x] /\ at[x] # 0
    BY <1>0, <1>2, <2>1, ShapedFacts DEF PlaceOf
  <2> HIDE DEF L
  <2> QED
    BY <2>2, <2>3 DEF Node
<1>4. ASSUME \A x, j : ~Leads(L, x, j, p)
      PROVE  Node(d, p) = Absent
  <2>1. CASE Front(p) \in DOMAIN at
    <3>1. Listed(AsTable(d[at[Front(p)]]), Last(p)) = {}
      <4>1. \A j : j \in Listed(AsTable(d[at[Front(p)]]), Last(p))
                     <=> Leads(Listing(d, at), Front(p), j, Append(Front(p), Last(p)))
        BY <1>0, <1>1, <2>1, ListedFacts, Zenon
      <4> QED
        BY <1>1, <1>4, <4>1
    <3>2. DirectoryCluster(d, Front(p)) = at[Front(p)]
      BY <1>2, <2>1 DEF PlaceOf
    <3> QED
      BY <3>1, <3>2 DEF Node
  <2>2. CASE Front(p) \notin DOMAIN at
    <3>1. DirectoryCluster(d, Front(p)) = 0
      BY <1>2, <2>2 DEF PlaceOf
    <3> QED
      BY <3>1 DEF Node
  <2> QED
    BY <2>1, <2>2
<1> QED
  BY <1>3, <1>4

-----------------------------------------------------------------------------
(* Chains *)

\* A walk that follows the map as far as it goes.
WholeWalk(map, first, s) ==
  /\ Walked(map, first, s)
  /\ Len(s) <= CLUSTER_MAP_SIZE
  /\ map[Last(s)] \notin Clusters \/ Len(s) = CLUSTER_MAP_SIZE

(***************************************************************************)
(* Of two walks along the same map neither has a cluster where the other   *)
(* has another, and whichever is shorter is not whole.                     *)
(***************************************************************************)
LEMMA WalksAgree ==
  ASSUME NEW map, NEW first, NEW s, NEW t, Walked(map, first, s), Walked(map, first, t),
         Len(s) <= Len(t)
  PROVE  \A i \in 1 .. Len(s) : s[i] = t[i]
<1>1. PICK n \in Nat : n = Len(s) - 1
  <2>1. Len(s) \in Nat /\ Len(s) > 0
    BY DEF Walked
  <2> QED
    BY <2>1
<1>2. s[1] = t[1]
  BY DEF Walked
<1>3. \A i \in 0 .. n : i < n => s[i + 2] = map[s[i + 1]] /\ t[i + 2] = map[t[i + 1]]
  <2>1. ASSUME NEW i \in 0 .. n, i < n
        PROVE  s[i + 2] = map[s[i + 1]] /\ t[i + 2] = map[t[i + 1]]
    <3>1. i + 1 \in 1 .. Len(s) - 1 /\ i + 1 \in 1 .. Len(t) - 1 /\ i + 1 + 1 = i + 2
      BY <1>1, <2>1 DEF Walked
    <3>2. s[i + 1 + 1] = map[s[i + 1]] /\ t[i + 1 + 1] = map[t[i + 1]]
      BY <3>1, Zenon DEF Walked
    <3> QED
      BY <3>1, <3>2
  <2> QED
    BY <2>1
<1> DEFINE S == {i \in 0 .. n : s[i + 1] = t[i + 1]}
<1>4. 0 \in S
  BY <1>2
<1>5. ASSUME NEW i \in 0 .. n, i < n, i \in S
      PROVE  i + 1 \in S
  <2>1. i + 1 \in 0 .. n /\ i + 1 + 1 = i + 2
    BY <1>5
  <2>2. s[i + 2] = t[i + 2]
    BY <1>3, <1>5
  <2> QED
    BY <2>1, <2>2
<1>6. \A i \in 0 .. n : i \in S
  <2> HIDE DEF S
  <2> QED
    BY <1>4, <1>5, CountingUp
<1>7. ASSUME NEW i \in 1 .. Len(s)
      PROVE  s[i] = t[i]
  <2>1. i - 1 \in 0 .. n /\ i - 1 + 1 = i
    BY <1>1
  <2>2. s[i - 1 + 1] = t[i - 1 + 1]
    BY <1>6, <2>1
  <2> QED
    BY <2>1, <2>2
<1> QED
  BY <1>7

LEMMA WalkNotLonger ==
  ASSUME NEW map, NEW first, NEW s, NEW t, WholeWalk(map, first, s), WholeWalk(map, first, t)
  PROVE  Len(t) <= Len(s)
<1> SUFFICES ASSUME ~(Len(t) <= Len(s))
             PROVE  FALSE
  OBVIOUS
<1>1. /\ Walked(map, first, s) /\ Walked(map, first, t)
      /\ s \in Seq(Clusters) /\ t \in Seq(Clusters) /\ Len(s) \in Nat /\ Len(t) \in Nat /\ Len(s) > 0
      /\ Len(t) <= CLUSTER_MAP_SIZE /\ CLUSTER_MAP_SIZE \in Nat
  BY SizeFacts DEF WholeWalk, Walked
<1>2. Len(s) <= Len(t) /\ Len(s) # CLUSTER_MAP_SIZE
      /\ Len(s) \in 1 .. Len(s) /\ Len(s) \in 1 .. Len(t) - 1 /\ Len(s) + 1 \in 1 .. Len(t)
  BY <1>1
<1>3. s[Len(s)] = t[Len(s)]
  BY <1>1, <1>2, WalksAgree
<1>4. t[Len(s) + 1] = map[t[Len(s)]]
  BY <1>1, <1>2, Zenon DEF Walked
<1>5. t[Len(s) + 1] \in Clusters
  BY <1>1, <1>2, ElementOfSeq
<1>6. map[s[Len(s)]] \notin Clusters
  BY <1>2 DEF WholeWalk, Last
<1> QED
  BY <1>3, <1>4, <1>5, <1>6

(***************************************************************************)
(* The chain is the whole walk: whatever follows the map to its end is it. *)
(***************************************************************************)
LEMMA ChainIs ==
  ASSUME NEW map, NEW first \in Clusters
  PROVE  /\ WholeWalk(map, first, Chain(map, first))
         /\ \A s : WholeWalk(map, first, s) => Chain(map, first) = s
<1>1. WholeWalk(map, first, Chain(map, first))
  BY ChainFacts DEF WholeWalk
<1>2. PICK t : t = Chain(map, first)
  OBVIOUS
<1>3. ASSUME NEW s, WholeWalk(map, first, s)
      PROVE  t = s
  <2>1. Len(t) <= Len(s) /\ Len(s) <= Len(t)
    BY <1>1, <1>2, <1>3, WalkNotLonger
  <2>2. /\ Walked(map, first, s) /\ Walked(map, first, t)
        /\ s \in Seq(Clusters) /\ t \in Seq(Clusters)
    BY <1>1, <1>2, <1>3 DEF WholeWalk, Walked
  <2>3. Len(s) \in Nat /\ Len(t) \in Nat
    BY <2>2
  <2>4. Len(s) = Len(t)
    BY <2>1, <2>3
  <2>5. \A i \in 1 .. Len(s) : s[i] = t[i]
    BY <2>1, <2>2, WalksAgree
  <2> QED
    BY <2>2, <2>4, <2>5, SeqEqual
<1> QED
  BY <1>1, <1>2, <1>3

(***************************************************************************)
(* A map that agrees with another along a chain has that chain.            *)
(***************************************************************************)
LEMMA ChainKept ==
  ASSUME NEW map, NEW new, NEW first \in Clusters,
         \A c \in ToSet(Chain(map, first)) : new[c] = map[c]
  PROVE  /\ Chain(new, first) = Chain(map, first)
         /\ Complete(new, Chain(map, first)) <=> Complete(map, Chain(map, first))
<1>1. PICK s : s = Chain(map, first)
  OBVIOUS
<1>2. WholeWalk(map, first, s)
  BY <1>1, ChainIs
<1>3. /\ s \in Seq(Clusters) /\ Len(s) \in Nat /\ Len(s) > 0 /\ s[1] = first
      /\ \A i \in 1 .. Len(s) - 1 : s[i + 1] = map[s[i]]
  BY <1>2 DEF WholeWalk, Walked
<1>4. \A i \in 1 .. Len(s) : s[i] \in ToSet(s)
  BY <1>3 DEF ToSet
<1>5. \A i \in 1 .. Len(s) : new[s[i]] = map[s[i]]
  BY <1>1, <1>4
<1>6. \A i \in 1 .. Len(s) - 1 : i \in 1 .. Len(s)
  BY <1>3
<1>7. \A i \in 1 .. Len(s) - 1 : s[i + 1] = new[s[i]]
  BY <1>3, <1>5, <1>6
<1>8. new[Last(s)] = map[Last(s)]
  <2>1. Len(s) \in 1 .. Len(s)
    BY <1>3
  <2> QED
    BY <1>5, <2>1 DEF Last
<1>9. WholeWalk(new, first, s)
  BY <1>2, <1>3, <1>7, <1>8 DEF WholeWalk, Walked
<1> QED
  BY <1>1, <1>8, <1>9, ChainIs DEF Complete

LEMMA ChainTyped ==
  ASSUME NEW map, NEW first \in Clusters
  PROVE  /\ Chain(map, first) \in Seq(Clusters) /\ Len(Chain(map, first)) \in Nat \ {0}
         /\ Chain(map, first)[1] = first /\ first \in ToSet(Chain(map, first))
         /\ \A i \in 1 .. Len(Chain(map, first)) :
              Chain(map, first)[i] \in Clusters /\ Chain(map, first)[i] \in ToSet(Chain(map, first))
         /\ ToSet(Chain(map, first)) \subseteq Clusters
<1>1. PICK s : s = Chain(map, first)
  OBVIOUS
<1>2. s \in Seq(Clusters) /\ Len(s) \in Nat /\ Len(s) > 0 /\ s[1] = first
  BY <1>1, ChainIs DEF WholeWalk, Walked
<1>3. \A i \in 1 .. Len(s) : s[i] \in Clusters /\ s[i] \in ToSet(s)
  BY <1>2, ElementOfSeq DEF ToSet
<1>4. ToSet(s) \subseteq Clusters
  BY <1>2, ElementOfSeq DEF ToSet
<1>5. 1 \in 1 .. Len(s)
  BY <1>2
<1> QED
  BY <1>1, <1>2, <1>3, <1>4, <1>5

(***************************************************************************)
(* Clusters linked one to the next are a complete chain.                   *)
(***************************************************************************)
LEMMA ChainLinked ==
  ASSUME NEW map \in FATs, NEW s \in Seq(Clusters), Len(s) > 0, Len(s) <= CLUSTER_MAP_SIZE,
         \A j, k \in 1 .. Len(s) : s[j] = s[k] => j = k
  PROVE  /\ Chain(Linked(map, s), s[1]) = s
         /\ Complete(Linked(map, s), s)
         /\ \A c \in Clusters \ ToSet(s) : Linked(map, s)[c] = map[c]
         /\ 0 \notin ToSet(s) => \A c \in ToSet(s) : Linked(map, s)[c] # FAT32_FAT_EMPTY_ENTRY
<1>1. PICK n \in Nat : n = Len(s) /\ n > 0
  OBVIOUS
<1>2. PICK m : m = Linked(map, s)
  OBVIOUS
<1>3. \A k \in 1 .. n : s[k] \in Clusters /\ s[k] \in ToSet(s)
  BY <1>1, ElementOfSeq DEF ToSet
<1>4. ASSUME NEW k \in 1 .. n
      PROVE  m[s[k]] = IF k = n THEN FAT32_FAT_END_OF_FILE ELSE s[k + 1]
  <2>1. \E i \in 1 .. n : s[i] = s[k]
    OBVIOUS
  <2>2. (CHOOSE i \in 1 .. n : s[i] = s[k]) = k
    BY <1>1
  <2> QED
    BY <1>1, <1>2, <1>3, <2>1, <2>2 DEF Linked
<1>5. \A c \in Clusters \ ToSet(s) : m[c] = map[c]
  <2>1. ASSUME NEW c \in Clusters \ ToSet(s)
        PROVE  m[c] = map[c]
    <3>1. ~ \E i \in 1 .. Len(s) : s[i] = c
      BY <1>1, <1>3
    <3> QED
      BY <1>2, <3>1 DEF Linked
  <2> QED
    BY <2>1
<1>6. FAT32_FAT_END_OF_FILE \notin Clusters /\ FAT32_FAT_END_OF_FILE # 0
  BY SizeFacts, MarksAssumption DEF Clusters, CLUSTER_0_VALUE, FAT32_FAT_END_OF_FILE, MarksAssumption
<1>7. n \in 1 .. n /\ Last(s) = s[n]
  BY <1>1 DEF Last
<1>8. m[Last(s)] = FAT32_FAT_END_OF_FILE
  BY <1>4, <1>7
<1>9. \A i \in 1 .. Len(s) - 1 : s[i + 1] = m[s[i]]
  <2>1. \A i \in 1 .. n - 1 : i \in 1 .. n /\ i # n
    BY <1>1
  <2> QED
    BY <1>1, <1>4, <2>1
<1>10. s[1] \in Clusters /\ WholeWalk(m, s[1], s)
  <2>1. 1 \in 1 .. n
    BY <1>1
  <2> QED
    BY <1>1, <1>3, <1>6, <1>8, <1>9, <2>1 DEF WholeWalk, Walked
<1>11. Chain(m, s[1]) = s
  BY <1>10, ChainIs
<1>12. 0 \notin ToSet(s) => \A c \in ToSet(s) : m[c] # FAT32_FAT_EMPTY_ENTRY
  <2>1. ASSUME NEW c \in ToSet(s)
        PROVE  m[c] # 0 \/ 0 \in ToSet(s)
    <3>1. PICK k \in 1 .. n : s[k] = c
      BY <1>1 DEF ToSet
    <3>2. CASE k = n
      BY <1>4, <1>6, <3>1, <3>2
    <3>3. CASE k # n
      <4>1. k + 1 \in 1 .. n
        BY <1>1, <3>3
      <4> QED
        BY <1>3, <1>4, <3>1, <3>3, <4>1, SMTT(30)
    <3> QED
      BY <3>2, <3>3
  <2> QED
    BY <2>1 DEF FAT32_FAT_EMPTY_ENTRY
<1> QED
  BY <1>2, <1>5, <1>8, <1>11, <1>12 DEF Complete

-----------------------------------------------------------------------------
(* A disk once writes are made *)

\* The k-th write is the last one to its cluster.
LastWrite(s, k) == \A j \in k + 1 .. Len(s) : s[j].cluster # s[k].cluster

(***************************************************************************)
(* A cluster has what the last write to it wrote, or what it had.          *)
(***************************************************************************)
LEMMA WrittenAt ==
  ASSUME NEW d, NEW s, Len(s) \in Nat, NEW c \in Clusters
  PROVE  /\ (\A k \in 1 .. Len(s) : s[k].cluster # c) => Written(d, s)[c] = d[c]
         /\ \A k \in 1 .. Len(s) : s[k].cluster = c /\ LastWrite(s, k) => Written(d, s)[c] = s[k].content
         /\ (\E k \in 1 .. Len(s) : s[k].cluster = c)
              => \E k \in 1 .. Len(s) : s[k].cluster = c /\ LastWrite(s, k)
<1>1. PICK n \in Nat : n = Len(s)
  OBVIOUS
<1> DEFINE here == {k \in 1 .. n : s[k].cluster = c}
<1>2. Written(d, s)[c] = IF here = {} THEN d[c] ELSE s[Max(here)].content
  BY <1>1 DEF Written
<1>3. here # {} => Max(here) \in here /\ \A y \in here : y <= Max(here)
  BY MaxProperty
<1>4. ASSUME here # {}
      PROVE  LastWrite(s, Max(here))
  <2> DEFINE m == Max(here)
  <2>1. m \in 1 .. n /\ s[m].cluster = c /\ \A y \in here : y <= m
    BY <1>3, <1>4
  <2> HIDE DEF m
  <2>2. ASSUME NEW j \in m + 1 .. n
        PROVE  s[j].cluster # c
    <3>1. j \in 1 .. n /\ ~(j <= m)
      BY <1>1, <2>1, <2>2
    <3> QED
      BY <2>1, <3>1
  <2>3. LastWrite(s, m)
    BY <1>1, <2>1, <2>2 DEF LastWrite
  <2> QED
    BY <2>3 DEF m
<1>5. ASSUME NEW k \in 1 .. n, s[k].cluster = c, LastWrite(s, k)
      PROVE  Written(d, s)[c] = s[k].content
  <2>1. k \in here
    BY <1>5
  <2>2. Max(here) \in here /\ k <= Max(here)
    BY <1>3, <2>1
  <2>3. Max(here) = k
    <3>1. PICK m \in 1 .. n : m = Max(here) /\ s[m].cluster = c
      BY <2>2
    <3>2. m \notin k + 1 .. n
      BY <1>1, <1>5, <3>1 DEF LastWrite
    <3> QED
      BY <2>2, <3>1, <3>2
  <2> QED
    BY <1>2, <2>1, <2>3
<1> QED
  BY <1>1, <1>2, <1>3, <1>4, <1>5

(***************************************************************************)
(* The write that is made next is made in any case.                        *)
(***************************************************************************)
LEMMA WrittenNext ==
  ASSUME NEW V, NEW d, NEW s \in Seq(Writes(V)), s # <<>>, DOMAIN d = Clusters
  PROVE  Written([d EXCEPT ![Head(s).cluster] = Head(s).content], Tail(s)) = Written(d, s)
<1> DEFINE e == [d EXCEPT ![Head(s).cluster] = Head(s).content]
<1>1. PICK n \in Nat : n = Len(s) /\ n > 0
  BY EmptySeq
<1>2. PICK t : t = Tail(s)
  OBVIOUS
<1>3. Len(t) = n - 1 /\ Len(t) \in Nat /\ \A k \in 1 .. n - 1 : t[k] = s[k + 1]
  <2>1. Len(t) = n - 1 /\ \A k \in 1 .. Len(t) : t[k] = s[k + 1]
    BY <1>1, <1>2, HeadTailProperties
  <2> QED
    BY <1>1, <2>1
<1>4. Head(s) = s[1]
  BY <1>1
<1>5. ASSUME NEW c \in Clusters
      PROVE  Written(e, t)[c] = Written(d, s)[c]
  <2>1. CASE \E k \in 1 .. n - 1 : t[k].cluster = c
    <3>1. PICK k \in 1 .. n - 1 : t[k].cluster = c /\ LastWrite(t, k)
      BY <1>3, <2>1, WrittenAt
    <3>2. k + 1 \in 1 .. n /\ t[k] = s[k + 1]
      BY <1>1, <1>3
    <3>3. ASSUME NEW j \in k + 1 + 1 .. n
          PROVE  s[j].cluster # c
      <4>1. j - 1 \in k + 1 .. n - 1 /\ j - 1 \in 1 .. n - 1 /\ j - 1 + 1 = j
        BY <1>1, <3>1
      <4>2. t[j - 1].cluster # c
        BY <1>3, <3>1, <4>1 DEF LastWrite
      <4> QED
        BY <1>3, <4>1, <4>2
    <3>4. LastWrite(s, k + 1)
      BY <1>1, <3>1, <3>2, <3>3 DEF LastWrite
    <3>5. Written(d, s)[c] = s[k + 1].content
      BY <1>1, <3>1, <3>2, <3>4, WrittenAt
    <3>6. Written(e, t)[c] = t[k].content
      BY <1>3, <3>1, WrittenAt
    <3> QED
      BY <3>2, <3>5, <3>6
  <2>2. CASE ~ \E k \in 1 .. n - 1 : t[k].cluster = c
    <3>1. Written(e, t)[c] = e[c]
      <4> HIDE DEF e
      <4> QED
        BY <1>3, <2>2, WrittenAt
    <3>2. \A j \in 2 .. n : s[j].cluster # c
      <4>1. ASSUME NEW j \in 2 .. n
            PROVE  s[j].cluster # c
        <5>1. j - 1 \in 1 .. n - 1 /\ j - 1 + 1 = j
          BY <1>1
        <5> QED
          BY <1>3, <2>2, <5>1
      <4> QED
        BY <4>1
    <3>3. CASE s[1].cluster = c
      <4>1. 1 \in 1 .. n /\ LastWrite(s, 1)
        BY <1>1, <3>2, <3>3 DEF LastWrite
      <4>2. Written(d, s)[c] = s[1].content
        BY <1>1, <3>3, <4>1, WrittenAt
      <4> QED
        BY <1>4, <3>1, <3>3, <4>2
    <3>4. CASE s[1].cluster # c
      <4>1. \A k \in 1 .. n : s[k].cluster # c
        <5>1. \A k \in 1 .. n : k = 1 \/ k \in 2 .. n
          BY <1>1
        <5> QED
          BY <3>2, <3>4, <5>1
      <4>2. Written(d, s)[c] = d[c]
        BY <1>1, <4>1, WrittenAt
      <4> QED
        BY <1>4, <3>1, <3>4, <4>2
    <3> QED
      BY <3>3, <3>4
  <2> QED
    BY <2>1, <2>2
<1>6. Written(e, t) = Written(d, s)
  BY <1>5 DEF Written
<1> QED
  BY <1>2, <1>6

LEMMA NothingWritten ==
  ASSUME NEW d, DOMAIN d = Clusters, d = [c \in Clusters |-> d[c]]
  PROVE  Written(d, <<>>) = d
<1>1. \A c \in Clusters : Written(d, <<>>)[c] = d[c]
  BY DEF Written
<1> QED
  BY <1>1 DEF Written

-----------------------------------------------------------------------------
(* A tree and one more entry.  Read forwards this is a creation, backwards a  *)
(* deletion: the smaller tree has a vacant row i in the folder at x, and the  *)
(* larger one the entry of path q there; a folder is empty.                   *)

Grown(at, L, big, B, x, i, q) ==
  /\ x \in DOMAIN at /\ i \in Rows /\ Vacant(x, L[x][i]) /\ Leads(B, x, i, q) /\ B[x][i].used
  /\ q \notin DOMAIN at
  /\ DOMAIN big = DOMAIN at \cup (IF B[x][i].filesize = 0 THEN {q} ELSE {})
  /\ DOMAIN L = DOMAIN at /\ DOMAIN B = DOMAIN big
  /\ \A y \in DOMAIN at : big[y] = at[y] /\ B[y] \in [Rows -> PointingOff] /\ L[y] \in [Rows -> PointingOff]
  /\ \A y \in DOMAIN at, j \in Rows : (y = x /\ j = i) \/ B[y][j] = L[y][j]
  /\ B[x][i].filesize = 0 =>
       /\ big[q] = B[x][i].cluster /\ big[q] # 0
       /\ B[q] \in [Rows -> PointingOff]
       /\ \A j \in Rows : B[q][j] = EmptyEntry

LEMMA GrownFacts ==
  ASSUME NEW at, NEW L, NEW big, NEW B, NEW x, NEW i, NEW q, Grown(at, L, big, B, x, i, q)
  PROVE  /\ \A y, j : Live(B, y, j) <=> Live(L, y, j) \/ (y = x /\ j = i)
         /\ \A y, j : Live(L, y, j) => ~(y = x /\ j = i) /\ B[y][j] = L[y][j] /\ y \in DOMAIN at
         /\ \A y, j, p : Leads(L, y, j, p) => Leads(B, y, j, p) /\ ~(y = x /\ j = i)
         /\ \A y, j, p : Leads(B, y, j, p) => Leads(L, y, j, p) \/ (y = x /\ j = i /\ p = q)
<1>1. EmptyEntry.name = NoName /\ \A entry : Vacant(x, entry) => entry.name = NoName
  BY DEF EmptyEntry, Vacant
<1>2. ASSUME NEW y, NEW j, Live(L, y, j)
      PROVE  ~(y = x /\ j = i) /\ B[y][j] = L[y][j] /\ y \in DOMAIN at /\ Live(B, y, j)
  BY <1>1, <1>2 DEF Grown, Live
<1>3. ASSUME NEW y, NEW j, Live(B, y, j), ~(y = x /\ j = i)
      PROVE  Live(L, y, j) /\ B[y][j] = L[y][j]
  <2>1. y \in DOMAIN B /\ j \in Rows /\ B[y][j].name # NoName
    BY <1>3 DEF Live
  <2>2. CASE y \in DOMAIN at
    BY <1>3, <2>1, <2>2 DEF Grown, Live
  <2>3. CASE y \notin DOMAIN at
    <3>1. y = q /\ B[x][i].filesize = 0
      BY <2>1, <2>3 DEF Grown
    <3>2. B[y][j] = EmptyEntry
      BY <2>1, <3>1 DEF Grown
    <3> QED
      BY <1>1, <2>1, <3>2
  <2> QED
    BY <2>2, <2>3
<1>4. Live(B, x, i) /\ Append(x, B[x][i].name) = q
  BY DEF Grown, Leads
<1>5. \A y, j, p : Leads(L, y, j, p) => Leads(B, y, j, p) /\ ~(y = x /\ j = i)
  BY <1>2 DEF Leads
<1>6. \A y, j, p : Leads(B, y, j, p) => Leads(L, y, j, p) \/ (y = x /\ j = i /\ p = q)
  BY <1>3, <1>4 DEF Leads
<1>7. \A y, j : Live(B, y, j) <=> Live(L, y, j) \/ (y = x /\ j = i)
  BY <1>2, <1>3, <1>4
<1> QED
  BY <1>2, <1>5, <1>6, <1>7

(***************************************************************************)
(* A creation keeps the shape of the tree.                                 *)
(***************************************************************************)
LEMMA ShapedLarger ==
  ASSUME NEW at, NEW L, NEW big, NEW B, NEW x, NEW i, NEW q, Grown(at, L, big, B, x, i, q),
         Shaped(at, L), q \in Paths, \A y, j : ~Leads(L, y, j, q)
  PROVE  Shaped(big, B)
<1> USE DEF Shaped
<1>1. /\ DOMAIN big \subseteq Paths \cup {<<>>} /\ <<>> \in DOMAIN big /\ DOMAIN B = DOMAIN big
      /\ big[<<>>] = ROOT_CLUSTER_NUMBER
  BY DEF Grown
<1>2. B[x][i] \in PointingOff /\ B[x][i].used /\ B[x][i].name # NoName
  BY DEF Grown, Leads, Live
<1>3. ASSUME NEW y \in DOMAIN big
      PROVE  /\ big[y] \in OffFAT \ {0} /\ B[y] \in [Rows -> PointingOff]
             /\ \A j \in Rows : \/ Vacant(y, B[y][j])
                                \/ B[y][j].used /\ B[y][j].name # NoName
  <2>1. CASE y \in DOMAIN at
    <3>1. big[y] = at[y] /\ B[y] \in [Rows -> PointingOff]
      BY <2>1 DEF Grown
    <3>2. \A j \in Rows : Vacant(y, B[y][j]) \/ (B[y][j].used /\ B[y][j].name # NoName)
      BY <1>2, <2>1 DEF Grown
    <3> QED
      BY <2>1, <3>1, <3>2
  <2>2. CASE y \notin DOMAIN at
    <3>1. y = q /\ B[x][i].filesize = 0
      BY <2>2 DEF Grown
    <3>2. B[x][i].cluster \in OffFAT
      BY <1>2 DEF PointingOff
    <3> QED
      BY <3>1, <3>2 DEF Grown, Vacant
  <2> QED
    BY <2>1, <2>2
<1>4. \A y, j : Live(B, y, j) => Append(y, B[y][j].name) \in Paths
  <2>1. Append(x, B[x][i].name) \in Paths
    BY DEF Grown, Leads
  <2> QED
    BY <2>1, GrownFacts
<1>5. ASSUME NEW y, NEW j, Live(B, y, j), B[y][j].filesize = 0
      PROVE  /\ Append(y, B[y][j].name) \in DOMAIN big
             /\ big[Append(y, B[y][j].name)] = B[y][j].cluster
  <2>1. CASE y = x /\ j = i
    BY <1>5, <2>1 DEF Grown, Leads
  <2>2. CASE ~(y = x /\ j = i)
    <3>1. Live(L, y, j) /\ B[y][j] = L[y][j]
      BY <1>5, <2>2, GrownFacts
    <3>2. /\ Append(y, L[y][j].name) \in DOMAIN at
          /\ at[Append(y, L[y][j].name)] = L[y][j].cluster
      BY <1>5, <3>1
    <3> QED
      BY <3>1, <3>2 DEF Grown
  <2> QED
    BY <2>1, <2>2
<1>6. ASSUME NEW y, NEW j, NEW z, NEW k, NEW p, Leads(B, y, j, p), Leads(B, z, k, p)
      PROVE  y = z /\ j = k
  <2>1. Leads(L, y, j, p) \/ (y = x /\ j = i /\ p = q)
    BY <1>6, GrownFacts
  <2>2. Leads(L, z, k, p) \/ (z = x /\ k = i /\ p = q)
    BY <1>6, GrownFacts
  <2> QED
    BY <2>1, <2>2
<1>7. ASSUME NEW p \in DOMAIN big \ {<<>>}
      PROVE  \E y, j : Leads(B, y, j, p) /\ B[y][j].filesize = 0
  <2>1. CASE p \in DOMAIN at
    <3>1. PICK y, j : Leads(L, y, j, p) /\ L[y][j].filesize = 0
      BY <1>7, <2>1
    <3>2. Live(L, y, j)
      BY <3>1 DEF Leads
    <3>3. Leads(B, y, j, p) /\ B[y][j] = L[y][j]
      BY <3>1, <3>2, GrownFacts
    <3> QED
      BY <3>1, <3>3
  <2>2. CASE p \notin DOMAIN at
    BY <2>2 DEF Grown
  <2> QED
    BY <2>1, <2>2
<1> QED
  BY <1>1, <1>3, <1>4, <1>5, <1>6, <1>7

(***************************************************************************)
(* So does a deletion; afterwards nothing is at the path.                  *)
(***************************************************************************)
LEMMA ShapedSmaller ==
  ASSUME NEW at, NEW L, NEW big, NEW B, NEW x, NEW i, NEW q, Grown(at, L, big, B, x, i, q),
         Shaped(big, B)
  PROVE  Shaped(at, L) /\ \A y, j : ~Leads(L, y, j, q)
<1> USE DEF Shaped
<1>0. q # <<>>
  <2>1. Leads(B, x, i, q)
    BY DEF Grown
  <2>2. q \in Paths
    BY <2>1, ShapedFacts
  <2> QED
    BY <2>2, PathFacts
<1>1. /\ DOMAIN at \subseteq Paths \cup {<<>>} /\ <<>> \in DOMAIN at /\ DOMAIN L = DOMAIN at
      /\ at[<<>>] = ROOT_CLUSTER_NUMBER
  BY <1>0 DEF Grown
<1>2. ASSUME NEW y \in DOMAIN at
      PROVE  /\ at[y] \in OffFAT \ {0} /\ L[y] \in [Rows -> PointingOff]
             /\ \A j \in Rows : \/ Vacant(y, L[y][j])
                                \/ L[y][j].used /\ L[y][j].name # NoName
  <2>1. y \in DOMAIN big
    BY DEF Grown
  <2>2. at[y] \in OffFAT \ {0} /\ L[y] \in [Rows -> PointingOff]
    BY <2>1 DEF Grown
  <2>3. \A j \in Rows : Vacant(y, L[y][j]) \/ (L[y][j].used /\ L[y][j].name # NoName)
    BY <2>1 DEF Grown
  <2> QED
    BY <2>2, <2>3
<1>3. \A y, j, p : Leads(L, y, j, p) => p # q
  <2>1. ASSUME NEW y, NEW j, Leads(L, y, j, q)
        PROVE  FALSE
    <3>1. Leads(B, y, j, q) /\ ~(y = x /\ j = i)
      BY <2>1, GrownFacts
    <3>2. Leads(B, x, i, q)
      BY DEF Grown
    <3> QED
      BY <3>1, <3>2
  <2> QED
    BY <2>1
<1>4. \A y, j : Live(L, y, j) => Live(B, y, j) /\ B[y][j] = L[y][j]
  BY GrownFacts
<1>5. \A y, j : Live(L, y, j) => Append(y, L[y][j].name) \in Paths
  BY <1>4
<1>6. ASSUME NEW y, NEW j, Live(L, y, j), L[y][j].filesize = 0
      PROVE  /\ Append(y, L[y][j].name) \in DOMAIN at
             /\ at[Append(y, L[y][j].name)] = L[y][j].cluster
  <2>1. PICK p : p = Append(y, L[y][j].name)
    OBVIOUS
  <2>2. Leads(L, y, j, p)
    BY <1>6, <2>1 DEF Leads
  <2>3. p # q
    BY <1>3, <2>2
  <2>4. p \in DOMAIN big /\ big[p] = L[y][j].cluster
    BY <1>4, <1>6, <2>1
  <2>5. p \in DOMAIN at
    BY <2>3, <2>4 DEF Grown
  <2> QED
    BY <2>1, <2>4, <2>5 DEF Grown
<1>7. ASSUME NEW y, NEW j, NEW z, NEW k, NEW p, Leads(L, y, j, p), Leads(L, z, k, p)
      PROVE  y = z /\ j = k
  <2>1. Leads(B, y, j, p) /\ Leads(B, z, k, p)
    BY <1>7, GrownFacts
  <2> QED
    BY <2>1
<1>8. ASSUME NEW p \in DOMAIN at \ {<<>>}
      PROVE  \E y, j : Leads(L, y, j, p) /\ L[y][j].filesize = 0
  <2>1. p \in DOMAIN big \ {<<>>} /\ p # q
    BY DEF Grown
  <2>2. PICK y, j : Leads(B, y, j, p) /\ B[y][j].filesize = 0
    BY <2>1
  <2>3. Leads(L, y, j, p)
    BY <2>1, <2>2, GrownFacts
  <2>4. Live(L, y, j)
    BY <2>3 DEF Leads
  <2> QED
    BY <1>4, <2>2, <2>3, <2>4
<1> QED
  BY <1>1, <1>2, <1>3, <1>5, <1>6, <1>7, <1>8

\* The larger map has the clusters of s allocated besides.
MapGrown(map, large, s) ==
  /\ ToSet(s) \subseteq Clusters /\ ToSet(s) \cap {0, 1, 2} = {}
  /\ \A c \in Clusters : map[c] = IF c \in ToSet(s) THEN FAT32_FAT_EMPTY_ENTRY ELSE large[c]
  /\ \A c \in ToSet(s) : large[c] # FAT32_FAT_EMPTY_ENTRY

LEMMA RowTyped ==
  ASSUME NEW at, NEW L, NEW big, NEW B, NEW x, NEW i, NEW q, Grown(at, L, big, B, x, i, q)
  PROVE  /\ \A y, j : Live(L, y, j) => L[y][j].cluster \in Clusters
         /\ B[x][i].cluster \in Clusters /\ Live(B, x, i)
<1>1. \A e \in PointingOff : e.cluster \in Clusters
  BY EmptyTyped DEF PointingOff
<1>2. \A y, j : Live(L, y, j) => L[y] \in [Rows -> PointingOff] /\ j \in Rows
  BY DEF Grown, Live
<1>3. B[x] \in [Rows -> PointingOff] /\ i \in Rows /\ Live(B, x, i)
  BY DEF Grown, Leads
<1> QED
  BY <1>1, <1>2, <1>3

LEMMA AllottedLarger ==
  ASSUME NEW at, NEW L, NEW big, NEW B, NEW x, NEW i, NEW q, Grown(at, L, big, B, x, i, q),
         NEW map, NEW large, NEW s, MapGrown(map, large, s), Allotted(map, L),
         ChainOf(large, B, x, i) = s, Complete(large, s), Len(s) = NeedOf(B[x][i])
  PROVE  Allotted(large, B)
<1>1. ASSUME NEW y, NEW j, Live(L, y, j)
      PROVE  /\ ChainOf(large, B, y, j) = ChainOf(map, L, y, j)
             /\ Complete(large, ChainOf(map, L, y, j))
             /\ ToSet(ChainOf(map, L, y, j)) \cap ToSet(s) = {}
             /\ B[y][j] = L[y][j]
  <2>1. B[y][j] = L[y][j] /\ L[y][j].cluster \in Clusters
    BY <1>1, GrownFacts, RowTyped
  <2>2. ToSet(ChainOf(map, L, y, j)) \subseteq Clusters
    BY <2>1, ChainTyped DEF ChainOf
  <2>3. \A c \in ToSet(ChainOf(map, L, y, j)) : map[c] # FAT32_FAT_EMPTY_ENTRY
    BY <1>1, <2>2, Zenon DEF Allotted
  <2>4. \A c \in ToSet(ChainOf(map, L, y, j)) : c \notin ToSet(s) /\ large[c] = map[c]
    BY <2>2, <2>3 DEF MapGrown
  <2>5. /\ ChainOf(large, L, y, j) = ChainOf(map, L, y, j)
        /\ Complete(large, ChainOf(map, L, y, j)) <=> Complete(map, ChainOf(map, L, y, j))
    BY <2>1, <2>4, ChainKept DEF ChainOf
  <2>6. Complete(map, ChainOf(map, L, y, j))
    BY <1>1 DEF Allotted
  <2>7. ChainOf(large, B, y, j) = ChainOf(large, L, y, j)
    BY <2>1 DEF ChainOf
  <2> QED
    BY <2>1, <2>4, <2>5, <2>6, <2>7
<1>2. \A y, j : Live(B, y, j) => Live(L, y, j) \/ (y = x /\ j = i)
  BY GrownFacts
<1>3. ASSUME NEW y, NEW j, Live(B, y, j)
      PROVE  /\ Complete(large, ChainOf(large, B, y, j))
             /\ Len(ChainOf(large, B, y, j)) = NeedOf(B[y][j])
             /\ ToSet(ChainOf(large, B, y, j)) \cap {0, 1, 2} = {}
  <2>1. CASE Live(L, y, j)
    <3>1. /\ Len(ChainOf(map, L, y, j)) = NeedOf(L[y][j])
          /\ ToSet(ChainOf(map, L, y, j)) \cap {0, 1, 2} = {}
      BY <2>1 DEF Allotted
    <3> QED
      BY <1>1, <2>1, <3>1
  <2>2. CASE y = x /\ j = i
    BY <2>2 DEF MapGrown
  <2> QED
    BY <1>2, <1>3, <2>1, <2>2
<1>4. ASSUME NEW y, NEW j, NEW z, NEW k, Live(B, y, j), Live(B, z, k), ~(y = z /\ j = k)
      PROVE  ToSet(ChainOf(large, B, y, j)) \cap ToSet(ChainOf(large, B, z, k)) = {}
  <2>1. CASE Live(L, y, j) /\ Live(L, z, k)
    <3>1. ToSet(ChainOf(map, L, y, j)) \cap ToSet(ChainOf(map, L, z, k)) = {}
      BY <1>4, <2>1 DEF Allotted
    <3> QED
      BY <1>1, <2>1, <3>1
  <2>2. CASE y = x /\ j = i /\ Live(L, z, k)
    BY <1>1, <2>2
  <2>3. CASE Live(L, y, j) /\ z = x /\ k = i
    BY <1>1, <2>3
  <2> QED
    BY <1>2, <1>4, <2>1, <2>2, <2>3
<1>5. ASSUME NEW c \in Clusters
      PROVE  large[c] # FAT32_FAT_EMPTY_ENTRY <=>
               \/ c \in {0, 1, 2}
               \/ \E y, j : Live(B, y, j) /\ c \in ToSet(ChainOf(large, B, y, j))
  <2>1. map[c] # FAT32_FAT_EMPTY_ENTRY <=>
          \/ c \in {0, 1, 2}
          \/ \E y, j : Live(L, y, j) /\ c \in ToSet(ChainOf(map, L, y, j))
    BY DEF Allotted
  <2>2. large[c] # FAT32_FAT_EMPTY_ENTRY <=> map[c] # FAT32_FAT_EMPTY_ENTRY \/ c \in ToSet(s)
    BY DEF MapGrown
  <2>3. ASSUME NEW y, NEW j, Live(L, y, j), c \in ToSet(ChainOf(map, L, y, j))
        PROVE  Live(B, y, j) /\ c \in ToSet(ChainOf(large, B, y, j))
    BY <1>1, <2>3, GrownFacts
  <2>4. ASSUME NEW y, NEW j, Live(B, y, j), c \in ToSet(ChainOf(large, B, y, j))
        PROVE  \/ c \in ToSet(s)
               \/ Live(L, y, j) /\ c \in ToSet(ChainOf(map, L, y, j))
    BY <1>1, <1>2, <2>4
  <2>5. Live(B, x, i) /\ ToSet(ChainOf(large, B, x, i)) = ToSet(s)
    BY RowTyped
  <2> QED
    BY <2>1, <2>2, <2>3, <2>4, <2>5
<1> QED
  BY <1>3, <1>4, <1>5 DEF Allotted

LEMMA AllottedSmaller ==
  ASSUME NEW at, NEW L, NEW big, NEW B, NEW x, NEW i, NEW q, Grown(at, L, big, B, x, i, q),
         NEW map, NEW large, NEW s, MapGrown(map, large, s), Allotted(large, B),
         ChainOf(large, B, x, i) = s
  PROVE  Allotted(map, L)
<1>1. ASSUME NEW y, NEW j, Live(L, y, j)
      PROVE  /\ ChainOf(map, L, y, j) = ChainOf(large, B, y, j)
             /\ Complete(map, ChainOf(large, B, y, j))
             /\ ToSet(ChainOf(large, B, y, j)) \cap ToSet(s) = {}
             /\ B[y][j] = L[y][j] /\ Live(B, y, j)
  <2>1. B[y][j] = L[y][j] /\ L[y][j].cluster \in Clusters /\ Live(B, y, j) /\ ~(y = x /\ j = i)
    BY <1>1, GrownFacts, RowTyped
  <2>2. ToSet(ChainOf(large, B, y, j)) \subseteq Clusters
    BY <2>1, ChainTyped DEF ChainOf
  <2>3. ToSet(ChainOf(large, B, y, j)) \cap ToSet(s) = {}
    BY <2>1, RowTyped DEF Allotted
  <2>4. \A c \in ToSet(ChainOf(large, B, y, j)) : map[c] = large[c]
    BY <2>2, <2>3 DEF MapGrown
  <2>5. /\ ChainOf(map, B, y, j) = ChainOf(large, B, y, j)
        /\ Complete(map, ChainOf(large, B, y, j)) <=> Complete(large, ChainOf(large, B, y, j))
    BY <2>1, <2>4, ChainKept DEF ChainOf
  <2>6. Complete(large, ChainOf(large, B, y, j))
    BY <2>1 DEF Allotted
  <2>7. ChainOf(map, L, y, j) = ChainOf(map, B, y, j)
    BY <2>1 DEF ChainOf
  <2> QED
    BY <2>1, <2>3, <2>5, <2>6, <2>7
<1>2. ASSUME NEW y, NEW j, Live(L, y, j)
      PROVE  /\ Complete(map, ChainOf(map, L, y, j))
             /\ Len(ChainOf(map, L, y, j)) = NeedOf(L[y][j])
             /\ ToSet(ChainOf(map, L, y, j)) \cap {0, 1, 2} = {}
  <2>1. /\ Len(ChainOf(large, B, y, j)) = NeedOf(B[y][j])
        /\ ToSet(ChainOf(large, B, y, j)) \cap {0, 1, 2} = {}
    BY <1>1, <1>2 DEF Allotted
  <2> QED
    BY <1>1, <1>2, <2>1
<1>3. ASSUME NEW y, NEW j, NEW z, NEW k, Live(L, y, j), Live(L, z, k), ~(y = z /\ j = k)
      PROVE  ToSet(ChainOf(map, L, y, j)) \cap ToSet(ChainOf(map, L, z, k)) = {}
  <2>1. ToSet(ChainOf(large, B, y, j)) \cap ToSet(ChainOf(large, B, z, k)) = {}
    BY <1>1, <1>3 DEF Allotted
  <2> QED
    BY <1>1, <1>3, <2>1
<1>4. ASSUME NEW c \in Clusters
      PROVE  map[c] # FAT32_FAT_EMPTY_ENTRY <=>
               \/ c \in {0, 1, 2}
               \/ \E y, j : Live(L, y, j) /\ c \in ToSet(ChainOf(map, L, y, j))
  <2>1. large[c] # FAT32_FAT_EMPTY_ENTRY <=>
          \/ c \in {0, 1, 2}
          \/ \E y, j : Live(B, y, j) /\ c \in ToSet(ChainOf(large, B, y, j))
    BY DEF Allotted
  <2>2. map[c] # FAT32_FAT_EMPTY_ENTRY <=> large[c] # FAT32_FAT_EMPTY_ENTRY /\ c \notin ToSet(s)
    BY DEF MapGrown
  <2>3. \A y, j : Live(B, y, j) => Live(L, y, j) \/ (y = x /\ j = i)
    BY GrownFacts
  <2>4. \A y, j : Live(L, y, j) /\ c \in ToSet(ChainOf(map, L, y, j)) =>
          Live(B, y, j) /\ c \in ToSet(ChainOf(large, B, y, j)) /\ c \notin ToSet(s)
    BY <1>1
  <2>5. \A y, j : Live(B, y, j) /\ c \in ToSet(ChainOf(large, B, y, j)) /\ c \notin ToSet(s) =>
          Live(L, y, j) /\ c \in ToSet(ChainOf(map, L, y, j))
    BY <1>1, <2>3
  <2>6. c \in {0, 1, 2} => c \notin ToSet(s)
    BY DEF MapGrown
  <2> QED
    BY <2>1, <2>2, <2>4, <2>5, <2>6
<1> QED
  BY <1>2, <1>3, <1>4 DEF Allotted

-----------------------------------------------------------------------------
(* What other entries stand for *)

LEMMA EntryKept ==
  ASSUME NEW d, NEW m, NEW e, e.cluster \in Clusters,
         NEW map, map = AsFAT(d[FAT_CLUSTER_NUMBER]),
         \A c \in ToSet(Chain(map, e.cluster)) :
           /\ AsFAT(m[FAT_CLUSTER_NUMBER])[c] = map[c]
           /\ m[c] = d[c] \/ (e.filesize = 0 /\ m[c].kind = "dir" /\ d[c].kind = "dir")
  PROVE  NodeOfEntry(m, e) = NodeOfEntry(d, e)
<1>1. PICK new : new = AsFAT(m[FAT_CLUSTER_NUMBER])
  OBVIOUS
<1>2. PICK s : s = Chain(map, e.cluster)
  OBVIOUS
<1>3. Chain(new, e.cluster) = s /\ (Complete(new, s) <=> Complete(map, s))
  BY <1>1, <1>2, ChainKept
<1>4. /\ Len(s) \in Nat /\ e.cluster \in ToSet(s)
      /\ \A k \in 1 .. Len(s) : s[k] \in ToSet(s)
  BY <1>2, ChainTyped
<1>5. d[e.cluster].kind = "dir" <=> m[e.cluster].kind = "dir" \/ (e.filesize # 0 /\ d[e.cluster].kind = "dir")
  BY <1>2, <1>4
<1>6. CASE e.filesize = 0
  BY <1>1, <1>2, <1>3, <1>5, <1>6, Zenon DEF NodeOfEntry
<1>7. CASE e.filesize # 0
  <2>1. \A k \in 1 .. Len(s) : m[s[k]] = d[s[k]]
    BY <1>2, <1>4, <1>7
  <2>2. [k \in 1 .. Len(s) |-> m[s[k]]] = [k \in 1 .. Len(s) |-> d[s[k]]]
    BY <2>1, Zenon
  <2> QED
    BY <1>1, <1>2, <1>3, <1>7, <2>2, Zenon DEF NodeOfEntry
<1> QED
  BY <1>6, <1>7

(***************************************************************************)
(* A folder's cluster is in the chain of its own entry only.               *)
(***************************************************************************)
LEMMA FolderOwner ==
  ASSUME NEW map, NEW at, NEW L, Shaped(at, L), Allotted(map, L), NEW x \in DOMAIN at,
         NEW y, NEW j, Live(L, y, j), at[x] \in ToSet(ChainOf(map, L, y, j))
  PROVE  L[y][j].filesize = 0 /\ Leads(L, y, j, x)
<1>1. x # <<>>
  <2>1. ROOT_CLUSTER_NUMBER \notin ToSet(ChainOf(map, L, y, j))
    BY DEF Allotted, ROOT_CLUSTER_NUMBER
  <2> QED
    BY <2>1 DEF Shaped
<1>2. PICK z, k : Leads(L, z, k, x) /\ L[z][k].filesize = 0
  BY <1>1 DEF Shaped
<1>3. Live(L, z, k) /\ at[x] = L[z][k].cluster
  BY <1>2, ZenonT(60) DEF Shaped, Leads
<1>4. at[x] \in Clusters
  BY ShapedFacts, EmptyTyped
<1>5. at[x] \in ToSet(ChainOf(map, L, z, k))
  BY <1>3, <1>4, ChainTyped DEF ChainOf
<1>6. y = z /\ j = k
  BY <1>3, <1>5 DEF Allotted
<1> QED
  BY <1>2, <1>6

LEMMA SoundTree ==
  ASSUME NEW d, NEW map, NEW at, Sound(d, map, at)
  PROVE  TreeOn(d, at) /\ Shaped(at, Listing(d, at)) /\ Allotted(map, Listing(d, at))
         /\ Seated(d, at, Listing(d, at))
<1>1. AsTable(Signature) = ZeroTable
  BY DEF AsTable, Signature
<1> QED
  BY <1>1 DEF Sound, TreeOn

(***************************************************************************)
(* A disk that differs only in some clusters that are apart, in the tables *)
(* of some folders and in the FAT reads the same everywhere but at the     *)
(* paths of some entries.                                                  *)
(***************************************************************************)
Alike(V, d, m, map, at, atm, X, apart, Q) ==
  /\ d \in Disks(V) /\ Sound(d, map, at) /\ map = AsFAT(d[FAT_CLUSTER_NUMBER])
  /\ m \in Disks(V) /\ TreeOn(m, atm) /\ X \subseteq DOMAIN at
  /\ \A y, j, r : r \notin Q =>
       (Leads(Listing(d, at), y, j, r) <=> Leads(Listing(m, atm), y, j, r))
  /\ \A y, j, r : r \notin Q /\ Leads(Listing(d, at), y, j, r) =>
       /\ Listing(m, atm)[y][j] = Listing(d, at)[y][j]
       /\ ToSet(ChainOf(map, Listing(d, at), y, j)) \cap apart = {}
  /\ \A c \in Clusters :
       c \in apart \/ c = FAT_CLUSTER_NUMBER \/ (\E x \in X : c = at[x]) \/ m[c] = d[c]
  /\ \A x \in X : m[at[x]].kind = "dir"
  /\ \A c \in Clusters : c \in apart \/ AsFAT(m[FAT_CLUSTER_NUMBER])[c] = map[c]

LEMMA OthersKept ==
  ASSUME NEW V, NEW d, NEW m, NEW map, NEW at, NEW atm, NEW X, NEW apart, NEW Q,
         Alike(V, d, m, map, at, atm, X, apart, Q)
  PROVE  \A r \in Paths : r \notin Q => Node(m, r) = Node(d, r)
<1> DEFINE L == Listing(d, at)
           M == Listing(m, atm)
<1>0. /\ d \in Disks(V) /\ Sound(d, map, at) /\ map = AsFAT(d[FAT_CLUSTER_NUMBER])
      /\ m \in Disks(V) /\ TreeOn(m, atm) /\ X \subseteq DOMAIN at
      /\ \A c \in Clusters :
           c \in apart \/ c = FAT_CLUSTER_NUMBER \/ (\E x \in X : c = at[x]) \/ m[c] = d[c]
      /\ \A x \in X : m[at[x]].kind = "dir"
      /\ \A c \in Clusters : c \in apart \/ AsFAT(m[FAT_CLUSTER_NUMBER])[c] = map[c]
  BY DEF Alike
<1>1. /\ Shaped(at, L) /\ TreeOn(d, at) /\ Allotted(map, L)
      /\ \A y \in DOMAIN at : d[at[y]].kind = "dir"
  BY <1>0, SoundTree DEF Seated
<1>2. \A y, j, r : r \notin Q => (Leads(L, y, j, r) <=> Leads(M, y, j, r))
  BY DEF Alike
<1>3. \A y, j, r : r \notin Q /\ Leads(L, y, j, r) =>
        M[y][j] = L[y][j] /\ ToSet(ChainOf(map, L, y, j)) \cap apart = {}
  BY DEF Alike
<1>4. \A r \in Paths :
        /\ \A y, j : Leads(L, y, j, r) => Node(d, r) = NodeOfEntry(d, L[y][j])
        /\ (\A y, j : ~Leads(L, y, j, r)) => Node(d, r) = Absent
  BY <1>0, <1>1, NodeFacts
<1>5. \A r \in Paths :
        /\ \A y, j : Leads(M, y, j, r) => Node(m, r) = NodeOfEntry(m, M[y][j])
        /\ (\A y, j : ~Leads(M, y, j, r)) => Node(m, r) = Absent
  BY <1>0, NodeFacts
<1> HIDE DEF L, M
<1>6. ASSUME NEW r \in Paths, r \notin Q
      PROVE  Node(m, r) = Node(d, r)
  <2>1. CASE \A y, j : ~Leads(L, y, j, r)
    BY <1>2, <1>4, <1>5, <1>6, <2>1
  <2>2. ASSUME NEW y, NEW j, Leads(L, y, j, r)
        PROVE  Node(m, r) = Node(d, r)
    <3>1. Leads(M, y, j, r) /\ M[y][j] = L[y][j] /\ ToSet(ChainOf(map, L, y, j)) \cap apart = {}
      BY <1>2, <1>3, <1>6, <2>2
    <3>2. Live(L, y, j) /\ L[y][j].cluster \in Clusters
      BY <1>1, <2>2, ShapedFacts, EmptyTyped DEF Leads, PointingOff
    <3>3. ToSet(ChainOf(map, L, y, j)) \subseteq Clusters
          /\ ToSet(ChainOf(map, L, y, j)) \cap {0, 1, 2} = {}
      <4>1. ToSet(ChainOf(map, L, y, j)) \subseteq Clusters
        BY <3>2, ChainTyped DEF ChainOf
      <4>2. ToSet(ChainOf(map, L, y, j)) \cap {0, 1, 2} = {}
        BY <1>1, <3>2 DEF Allotted
      <4> QED
        BY <4>1, <4>2
    <3>4. ASSUME NEW c \in ToSet(ChainOf(map, L, y, j))
          PROVE  /\ AsFAT(m[FAT_CLUSTER_NUMBER])[c] = map[c]
                 /\ m[c] = d[c] \/ (L[y][j].filesize = 0 /\ m[c].kind = "dir" /\ d[c].kind = "dir")
      <4>1. c \in Clusters /\ c \notin apart /\ c # FAT_CLUSTER_NUMBER
        BY <3>1, <3>3 DEF FAT_CLUSTER_NUMBER
      <4>2. AsFAT(m[FAT_CLUSTER_NUMBER])[c] = map[c]
        BY <1>0, <4>1
      <4>3. ASSUME NEW x \in X, c = at[x]
            PROVE  L[y][j].filesize = 0 /\ m[c].kind = "dir" /\ d[c].kind = "dir"
        <5>1. L[y][j].filesize = 0
          BY <1>0, <1>1, <3>2, <4>3, FolderOwner
        <5> QED
          BY <1>0, <1>1, <4>3, <5>1
      <4>4. CASE \A x \in X : c # at[x]
        BY <1>0, <4>1, <4>2, <4>4
      <4> QED
        BY <4>2, <4>3, <4>4
    <3>5. NodeOfEntry(m, L[y][j]) = NodeOfEntry(d, L[y][j])
      BY <1>0, <3>2, <3>4, EntryKept DEF ChainOf
    <3> QED
      BY <1>4, <1>5, <2>2, <3>1, <3>5
  <2> QED
    BY <2>1, <2>2
<1> QED
  BY <1>6

(***************************************************************************)
(* On a sound disk the folders of the tree are what reads as a folder.     *)
(***************************************************************************)
LEMMA KindsDiffer ==
  /\ \A v, s : File(v, s) # Folder /\ File(v, s) # Absent /\ File(v, s) # Damaged
  /\ Folder # Absent /\ Folder # Damaged /\ Damaged # Absent
<1>1. /\ Folder.kind = "folder" /\ Absent.kind = "absent" /\ Damaged.kind = "damaged"
      /\ \A v, s : File(v, s).kind = "file"
  BY DEF Folder, Absent, Damaged, File
<1>2. /\ "folder" # "absent" /\ "folder" # "damaged" /\ "damaged" # "absent"
      /\ "file" # "folder" /\ "file" # "absent" /\ "file" # "damaged"
  OBVIOUS
<1> QED
  BY <1>1, <1>2, Zenon

LEMMA FileOfKind ==
  ASSUME NEW contents, NEW size
  PROVE  FileOf(contents, size) # Folder /\ FileOf(contents, size) # Absent
<1>1. FileOf(contents, size) = Damaged \/ FileOf(contents, size) = File(contents[1].version, size)
  BY Zenon DEF FileOf
<1> QED
  BY <1>1, KindsDiffer

LEMMA EntryKind ==
  ASSUME NEW d, NEW e
  PROVE  NodeOfEntry(d, e) # Absent /\ (NodeOfEntry(d, e) = Folder => e.filesize = 0)
<1>1. PICK s : s = [k \in 1 .. Len(Chain(AsFAT(d[FAT_CLUSTER_NUMBER]), e.cluster))
                      |-> d[Chain(AsFAT(d[FAT_CLUSTER_NUMBER]), e.cluster)[k]]]
  OBVIOUS
<1>2. \/ NodeOfEntry(d, e) = Damaged
      \/ NodeOfEntry(d, e) = Folder /\ e.filesize = 0
      \/ NodeOfEntry(d, e) = FileOf(s, e.filesize)
  BY <1>1, Zenon DEF NodeOfEntry
<1> QED
  BY <1>2, KindsDiffer, FileOfKind

LEMMA FolderNodes ==
  ASSUME NEW V, NEW d \in Disks(V), NEW map, NEW at, Sound(d, map, at),
         map = AsFAT(d[FAT_CLUSTER_NUMBER]), NEW p \in Paths
  PROVE  Node(d, p) = Folder <=> p \in DOMAIN at
<1> DEFINE L == Listing(d, at)
<1>1. /\ TreeOn(d, at) /\ Shaped(at, L) /\ Allotted(map, L) /\ Seated(d, at, L)
  BY SoundTree
<1>2. /\ \A y, j : Leads(L, y, j, p) => Node(d, p) = NodeOfEntry(d, L[y][j])
      /\ (\A y, j : ~Leads(L, y, j, p)) => Node(d, p) = Absent
  BY <1>1, NodeFacts
<1>3. p # <<>>
  BY PathFacts
<1> HIDE DEF L
<1>4. ASSUME Node(d, p) = Folder
      PROVE  p \in DOMAIN at
  <2>1. PICK y, j : Leads(L, y, j, p)
    BY <1>2, <1>4, KindsDiffer
  <2>2. L[y][j].filesize = 0
    BY <1>2, <1>4, <2>1, EntryKind
  <2> QED
    BY <1>1, <2>1, <2>2 DEF Shaped, Leads
<1>5. ASSUME p \in DOMAIN at
      PROVE  Node(d, p) = Folder
  <2>1. PICK y, j : Leads(L, y, j, p) /\ L[y][j].filesize = 0
    BY <1>1, <1>3, <1>5 DEF Shaped
  <2>2. PICK e : e = L[y][j]
    OBVIOUS
  <2>3. Live(L, y, j) /\ at[p] = e.cluster /\ e.filesize = 0
    BY <1>1, <2>1, <2>2, ZenonT(60) DEF Shaped, Leads
  <2>4. e.attribute = AttributeOf(e.filesize) /\ d[e.cluster].kind = "dir"
    BY <1>1, <1>5, <2>2, <2>3 DEF Seated
  <2>5. Complete(map, Chain(map, e.cluster)) /\ Len(Chain(map, e.cluster)) = 1
    BY <1>1, <2>2, <2>3 DEF Allotted, ChainOf, NeedOf
  <2>6. NodeOfEntry(d, e) = Folder
    BY <2>3, <2>4, <2>5, Zenon DEF NodeOfEntry
  <2> QED
    BY <1>2, <2>1, <2>2, <2>6
<1> QED
  BY <1>4, <1>5

(***************************************************************************)
(* Each folder has a cluster of its own.                                   *)
(***************************************************************************)
LEMMA FoldersApart ==
  ASSUME NEW map, NEW at, NEW L, Shaped(at, L), Allotted(map, L),
         NEW x \in DOMAIN at, NEW y \in DOMAIN at, at[x] = at[y]
  PROVE  x = y
<1>1. ASSUME NEW v \in DOMAIN at, NEW w \in DOMAIN at, at[v] = at[w], v # <<>>
      PROVE  v = w
  <2>1. PICK z, k : Leads(L, z, k, v) /\ L[z][k].filesize = 0
    BY <1>1 DEF Shaped
  <2>2. Live(L, z, k) /\ at[v] = L[z][k].cluster /\ at[v] \in Clusters
    <3>1. Live(L, z, k) /\ Append(z, L[z][k].name) = v
      BY <2>1 DEF Leads
    <3>2. at[v] = L[z][k].cluster
      BY <2>1, <3>1, ZenonT(60) DEF Shaped
    <3>3. at[v] \in Clusters
      BY <1>1, ShapedFacts, EmptyTyped
    <3> QED
      BY <3>1, <3>2, <3>3
  <2>3. at[w] \in ToSet(ChainOf(map, L, z, k))
    BY <1>1, <2>2, ChainTyped DEF ChainOf
  <2>4. Leads(L, z, k, w)
    BY <2>2, <2>3, FolderOwner
  <2> QED
    BY <2>1, <2>4 DEF Leads
<1> QED
  BY <1>1

LEMMA ListingTyped ==
  ASSUME NEW V, NEW d \in Disks(V), NEW at, \A y \in DOMAIN at : at[y] \in Clusters
  PROVE  /\ DOMAIN Listing(d, at) = DOMAIN at
         /\ \A y \in DOMAIN at : /\ Listing(d, at)[y] \in [Rows -> PointingOff]
                                 /\ \A j \in Rows : Listing(d, at)[y][j] = AsTable(d[at[y]])[j]
<1>1. ASSUME NEW y \in DOMAIN at
      PROVE  AsTable(d[at[y]]) \in [Positions -> PointingOff]
  <2>1. d[at[y]] \in HeldContents(V)
    BY DEF Disks
  <2> QED
    BY <2>1, ReadsAs DEF Tables
<1> QED
  BY <1>1 DEF Listing, Rows

(***************************************************************************)
(* Where the tables read alike, there is the same tree.                    *)
(***************************************************************************)
LEMMA SameListing ==
  ASSUME NEW d, NEW m, NEW at,
         \A y \in DOMAIN at, j \in Rows : AsTable(m[at[y]])[j] = AsTable(d[at[y]])[j]
  PROVE  Listing(m, at) = Listing(d, at)
<1>1. \A y \in DOMAIN at :
        [j \in Rows |-> AsTable(m[at[y]])[j]] = [j \in Rows |-> AsTable(d[at[y]])[j]]
  OBVIOUS
<1> QED
  BY <1>1, Zenon DEF Listing

\* The folder at y has on disk m the cluster and the row of its own that it has
\* on disk d.
KeepsPlace(d, m, at, y) ==
  DirectoryCluster(d, y) = at[y] /\ AsTable(m[at[y]])[0] = AsTable(d[at[y]])[0]

LEMMA PlacesAre ==
  ASSUME NEW V, NEW d \in Disks(V), NEW map, NEW at, Sound(d, map, at), NEW y \in DOMAIN at
  PROVE  DirectoryCluster(d, y) = at[y]
<1>1. TreeOn(d, at) /\ Shaped(at, Listing(d, at))
  BY SoundTree
<1>2. y \in Paths \cup {<<>>}
  BY <1>1 DEF Shaped
<1>3. DirectoryCluster(d, y) = PlaceOf(at, y)
  BY <1>1, <1>2, FolderClusters
<1> QED
  BY <1>3 DEF PlaceOf

-----------------------------------------------------------------------------
(* A creation *)

NeedFor(size) == IF size = 0 THEN 1 ELSE ClusterNeed(size)
NewChain(map, size) == Allocation(map, NeedFor(size))
NewEntry(map, name, size) == UsedEntry(name, NewChain(map, size)[1], size)
NewTable(d, map, at, x, name, size) ==
  WithEntry(AsTable(d[at[x]]), NewEntry(map, name, size))
NewMap(map, size) == Linked(map, NewChain(map, size))
NewRow(d, at, x) == Min(UnusedPositions(AsTable(d[at[x]])))

\* The folder at x of the disk has room for an entry of a new name.
CanCreate(V, d, map, at, x, name, size) ==
  /\ d \in Disks(V) /\ map \in FATs /\ map = AsFAT(d[FAT_CLUSTER_NUMBER]) /\ Sound(d, map, at)
  /\ x \in DOMAIN at /\ name \in Names /\ Append(x, name) \in Paths /\ size \in Sizes
  /\ Matches(AsTable(d[at[x]]), name) = {}
  /\ UnusedPositions(AsTable(d[at[x]])) # {}
  /\ NeedFor(size) <= Cardinality(FreeClusters(map))

LEMMA FolderAllocated ==
  ASSUME NEW map, NEW at, NEW L, Shaped(at, L), Allotted(map, L), NEW x \in DOMAIN at
  PROVE  at[x] \in Clusters /\ map[at[x]] # FAT32_FAT_EMPTY_ENTRY /\ at[x] \notin {0, 1}
<1>1. at[x] \in Clusters /\ at[x] \in OffFAT /\ at[x] # 0
  BY ShapedFacts, EmptyTyped
<1>2. at[x] \notin {0, 1}
  BY <1>1 DEF OffFAT, FAT_CLUSTER_NUMBER
<1>3. CASE x = <<>>
  <2>1. at[x] = 2
    BY <1>3 DEF Shaped, ROOT_CLUSTER_NUMBER
  <2> QED
    BY <1>1, <1>2, <2>1 DEF Allotted
<1>4. CASE x # <<>>
  <2>1. PICK z, k : Leads(L, z, k, x) /\ L[z][k].filesize = 0
    BY <1>4 DEF Shaped
  <2>2. Live(L, z, k) /\ at[x] = L[z][k].cluster
    BY <2>1 DEF Shaped, Leads
  <2>3. at[x] \in ToSet(ChainOf(map, L, z, k))
    BY <1>1, <2>2, ChainTyped DEF ChainOf
  <2> QED
    BY <1>1, <1>2, <2>2, <2>3 DEF Allotted
<1> QED
  BY <1>3, <1>4

LEMMA NewChainFacts ==
  ASSUME NEW V, NEW d, NEW map, NEW at, NEW x, NEW name, NEW size,
         CanCreate(V, d, map, at, x, name, size),
         NEW s, s = NewChain(map, size), NEW large, large = NewMap(map, size)
  PROVE  /\ s \in Seq(Clusters) /\ Len(s) = NeedFor(size) /\ Len(s) \in Nat \ {0}
         /\ MapGrown(map, large, s)
         /\ Chain(large, s[1]) = s /\ Complete(large, s)
         /\ s[1] \in OffFAT /\ s[1] \in ToSet(s) /\ s[1] # 0
         /\ \A c \in ToSet(s) : map[c] = FAT32_FAT_EMPTY_ENTRY
         /\ \A y \in DOMAIN at : at[y] \notin ToSet(s)
         /\ \A y, j : Live(Listing(d, at), y, j) =>
              ToSet(ChainOf(map, Listing(d, at), y, j)) \cap ToSet(s) = {}
<1> DEFINE L == Listing(d, at)
<1>1. Shaped(at, L) /\ Allotted(map, L) /\ map \in FATs /\ size \in Sizes
  BY SoundTree DEF CanCreate
<1> HIDE DEF L
<1>2. PICK n \in Nat : n = NeedFor(size) /\ n > 0
  <2>1. CASE size = 0
    BY <2>1 DEF NeedFor
  <2>2. CASE size # 0
    <3>1. size \in Nat /\ size > 0
      BY <1>1, <2>2, SizesAssumption DEF Sizes
    <3> QED
      BY <2>2, <3>1, NeedFacts DEF NeedFor
  <2> QED
    BY <2>1, <2>2
<1>3. n <= Cardinality(FreeClusters(map))
  BY <1>2 DEF CanCreate
<1>4. /\ s \in Seq(Clusters) /\ Len(s) = n
      /\ \A k \in 1 .. n : s[k] \in FreeClusters(map)
      /\ \A j, k \in 1 .. n : s[j] = s[k] => j = k
  BY <1>2, <1>3, AllocationFacts DEF NewChain
<1>5. n <= CLUSTER_MAP_SIZE
  BY <1>2, <1>3, FreeBound, FreeFacts, SizeFacts
<1>6. ASSUME NEW c \in ToSet(s)
      PROVE  c \in Clusters /\ c \in OffFAT /\ map[c] = FAT32_FAT_EMPTY_ENTRY
  <2>1. PICK k \in 1 .. n : s[k] = c
    BY <1>4 DEF ToSet
  <2> QED
    BY <1>4, <2>1, FreeFacts, EmptyTyped
<1>7. ToSet(s) \subseteq Clusters /\ ToSet(s) \cap {0, 1, 2} = {} /\ 0 \notin ToSet(s)
  <2>1. \A c \in {0, 1, 2} : c \in Clusters /\ map[c] # FAT32_FAT_EMPTY_ENTRY
    BY <1>1, SizeFacts DEF Allotted
  <2> QED
    BY <1>6, <2>1
<1>8. /\ Chain(large, s[1]) = s /\ Complete(large, s)
      /\ \A c \in Clusters \ ToSet(s) : large[c] = map[c]
      /\ \A c \in ToSet(s) : large[c] # FAT32_FAT_EMPTY_ENTRY
  BY <1>1, <1>2, <1>4, <1>5, <1>7, ChainLinked DEF NewMap
<1>9. MapGrown(map, large, s)
  BY <1>6, <1>7, <1>8 DEF MapGrown
<1>10. s[1] \in ToSet(s)
  <2>1. 1 \in 1 .. n
    BY <1>2
  <2> QED
    BY <1>4, <2>1 DEF ToSet
<1>11. \A y \in DOMAIN at : at[y] \notin ToSet(s)
  BY <1>1, <1>6, FolderAllocated
<1>12. ASSUME NEW y, NEW j, Live(L, y, j)
       PROVE  ToSet(ChainOf(map, L, y, j)) \cap ToSet(s) = {}
  <2>1. L[y][j].cluster \in Clusters
    <3>1. Leads(L, y, j, Append(y, L[y][j].name))
      BY <1>12 DEF Leads
    <3> QED
      BY <1>1, <3>1, ShapedFacts, EmptyTyped DEF PointingOff
  <2>2. ToSet(ChainOf(map, L, y, j)) \subseteq Clusters
    BY <2>1, ChainTyped DEF ChainOf
  <2>3. \A c \in ToSet(ChainOf(map, L, y, j)) : map[c] # FAT32_FAT_EMPTY_ENTRY
    BY <1>1, <1>12, <2>2, Zenon DEF Allotted
  <2> QED
    BY <1>6, <2>3
<1> QED
  BY <1>2, <1>4, <1>6, <1>7, <1>8, <1>9, <1>10, <1>11, <1>12 DEF L

LEMMA NewRowFacts ==
  ASSUME NEW V, NEW d, NEW map, NEW at, NEW x, NEW name, NEW size,
         CanCreate(V, d, map, at, x, name, size),
         NEW i, i = NewRow(d, at, x), NEW t, t = NewTable(d, map, at, x, name, size)
  PROVE  /\ i \in Rows /\ Listing(d, at)[x][i] = EmptyEntry
         /\ \A y, j : ~Leads(Listing(d, at), y, j, Append(x, name))
         /\ t[i] = NewEntry(map, name, size)
         /\ \A j \in Positions : j = i \/ t[j] = AsTable(d[at[x]])[j]
         /\ t \in Tables /\ AsTable(Table(t)) = t /\ Table(t).kind = "dir" /\ OwnRow(t)
<1> DEFINE L == Listing(d, at)
           u == AsTable(d[at[x]])
           entry == NewEntry(map, name, size)
<1>1. /\ d \in Disks(V) /\ x \in DOMAIN at /\ Shaped(at, L) /\ Seated(d, at, L)
      /\ name \in Names /\ size \in Sizes
      /\ Matches(u, name) = {} /\ UnusedPositions(u) # {}
  BY SoundTree DEF CanCreate
<1>2. u \in Tables /\ \A j \in Rows : j \in Positions /\ L[x][j] = u[j]
  BY <1>1, ListingFacts
<1>3. entry \in PointingOff
  <2>1. NewChain(map, size)[1] \in OffFAT
    BY NewChainFacts
  <2> QED
    BY <1>1, <2>1, EntryTyped DEF NewEntry, Called
<1>4. OwnRow(u) /\ 0 \in Positions
  BY <1>1, SizeFacts DEF Seated
<1>5. Append(x, name) \in Paths /\ x \in Seq(Names)
  BY <1>1, ShapedFacts DEF CanCreate
<1> HIDE DEF L, u, entry
<1>6. i \in UnusedPositions(u)
  <2>1. UnusedPositions(u) \subseteq Nat
    BY SizeFacts DEF UnusedPositions
  <2>2. i = Min(UnusedPositions(u))
    BY DEF NewRow, u
  <2> QED
    BY <1>1, <2>1, <2>2, MinProperty
<1>7. i \in Positions /\ ~u[i].used /\ i # 0 /\ i \in Rows
  BY <1>4, <1>6 DEF OwnRow, UnusedPositions, Rows
<1>8. L[x][i] = EmptyEntry
  BY <1>1, <1>2, <1>7 DEF Shaped, Vacant
<1>9. ASSUME NEW y, NEW j, Leads(L, y, j, Append(x, name))
      PROVE  FALSE
  <2>1. y = x /\ L[x][j].name = name /\ j \in Rows
    BY <1>1, <1>5, <1>9, ShapedFacts, AppendFacts
  <2>2. j \in Matches(u, name)
    BY <1>2, <2>1 DEF Matches
  <2> QED
    BY <1>1, <2>2
<1>10. t = [u EXCEPT ![i] = entry]
  BY <1>1 DEF NewTable, WithEntry, u, entry, NewRow
<1>11. t \in Tables
  BY <1>2, <1>3, <1>7, <1>10 DEF Tables
<1>12. t[i] = entry /\ \A j \in Positions : j = i \/ t[j] = u[j]
  BY <1>2, <1>7, <1>10 DEF Tables
<1>13. AsTable(Table(t)) = t /\ Table(t).kind = "dir"
  BY DEF AsTable, Table
<1>14. OwnRow(t)
  BY <1>4, <1>7, <1>12 DEF OwnRow
<1> QED
  BY <1>7, <1>8, <1>9, <1>11, <1>12, <1>13, <1>14 DEF L, u, entry

\* A creation at path q: the clusters s it takes, the map "large" it leaves, and
\* row i of the folder's table, which becomes t.
Creation(V, d, map, at, x, name, size, q, s, large, i, t) ==
  /\ CanCreate(V, d, map, at, x, name, size)
  /\ q = Append(x, name)
  /\ s = NewChain(map, size) /\ large = NewMap(map, size)
  /\ i = NewRow(d, at, x) /\ t = NewTable(d, map, at, x, name, size)

\* The folders, with one at q if that is what is created.
Bigger(at, q, s, size) ==
  IF size = 0 THEN [y \in DOMAIN at \cup {q} |-> IF y = q THEN s[1] ELSE at[y]] ELSE at

\* A disk with at most the creation's own clusters written.
Underway(V, d, m, map, at, x, s, large) ==
  /\ m \in Disks(V)
  /\ \A c \in Clusters : c \in ToSet(s) \cup {FAT_CLUSTER_NUMBER, at[x]} \/ m[c] = d[c]
  /\ AsFAT(m[FAT_CLUSTER_NUMBER]) \in {map, large}

\* The folder's table has the new entry, and a new folder its own table.
InTable(m, at, x, name, size, s, t) ==
  /\ m[at[x]] = Table(t)
  /\ size = 0 => m[s[1]] = Table(init_directory_table(name, at[x]))

LEMMA UnderwayFacts ==
  ASSUME NEW V, NEW d, NEW map, NEW at, NEW x, NEW name, NEW size, NEW q, NEW s, NEW large, NEW i,
         NEW t, Creation(V, d, map, at, x, name, size, q, s, large, i, t),
         NEW m, Underway(V, d, m, map, at, x, s, large)
  PROVE  /\ \A y \in DOMAIN at : y = x \/ m[at[y]] = d[at[y]]
         /\ \A y \in DOMAIN at : at[y] \in Clusters
         /\ m[BOOT_SECTOR] = Signature /\ d[BOOT_SECTOR] = Signature
         /\ AsTable(m[BOOT_SECTOR]) = ZeroTable
<1>1. CanCreate(V, d, map, at, x, name, size) /\ s = NewChain(map, size) /\ large = NewMap(map, size)
  BY DEF Creation
<1>2. /\ \A y \in DOMAIN at : at[y] \notin ToSet(s)
      /\ MapGrown(map, large, s)
  BY <1>1, NewChainFacts
<1>3. /\ Shaped(at, Listing(d, at)) /\ Allotted(map, Listing(d, at)) /\ x \in DOMAIN at
      /\ d[BOOT_SECTOR] = Signature
  BY <1>1, SoundTree DEF CanCreate, Sound
<1>4. \A y \in DOMAIN at : at[y] \in Clusters /\ at[y] \notin {0, 1}
  BY <1>3, FolderAllocated
<1>5. ASSUME NEW y \in DOMAIN at, y # x
      PROVE  m[at[y]] = d[at[y]]
  <2>1. at[y] # at[x]
    BY <1>3, <1>5, FoldersApart
  <2>2. at[y] \notin ToSet(s) \cup {FAT_CLUSTER_NUMBER, at[x]}
    BY <1>2, <1>4, <2>1 DEF FAT_CLUSTER_NUMBER
  <2> QED
    BY <1>4, <2>2 DEF Underway
<1>6. m[BOOT_SECTOR] = d[BOOT_SECTOR]
  <2>1. 0 \notin ToSet(s) \cup {FAT_CLUSTER_NUMBER, at[x]} /\ 0 \in Clusters
    BY <1>2, <1>3, <1>4, SizeFacts DEF FAT_CLUSTER_NUMBER, MapGrown
  <2> QED
    BY <2>1 DEF Underway, BOOT_SECTOR
<1>7. AsTable(Signature) = ZeroTable
  BY DEF AsTable, Signature
<1> QED
  BY <1>3, <1>4, <1>5, <1>6, <1>7

(***************************************************************************)
(* Until the folder's table is written, nothing has happened.              *)
(***************************************************************************)
LEMMA CreationBefore ==
  ASSUME NEW V, NEW d, NEW map, NEW at, NEW x, NEW name, NEW size, NEW q, NEW s, NEW large, NEW i,
         NEW t, Creation(V, d, map, at, x, name, size, q, s, large, i, t),
         NEW m, Underway(V, d, m, map, at, x, s, large), m[at[x]] = d[at[x]]
  PROVE  \A r \in Paths : Node(m, r) = IF r = q THEN Absent ELSE Node(d, r)
<1> DEFINE L == Listing(d, at)
<1>1. CanCreate(V, d, map, at, x, name, size) /\ s = NewChain(map, size) /\ large = NewMap(map, size)
      /\ q = Append(x, name) /\ i = NewRow(d, at, x) /\ t = NewTable(d, map, at, x, name, size)
  BY DEF Creation
<1>2. /\ MapGrown(map, large, s)
      /\ \A y, j : Live(L, y, j) => ToSet(ChainOf(map, L, y, j)) \cap ToSet(s) = {}
  BY <1>1, NewChainFacts
<1>3. \A y, j : ~Leads(L, y, j, q)
  BY <1>1, NewRowFacts
<1>4. /\ d \in Disks(V) /\ map = AsFAT(d[FAT_CLUSTER_NUMBER]) /\ Sound(d, map, at) /\ x \in DOMAIN at
      /\ Shaped(at, L) /\ Seated(d, at, L) /\ m \in Disks(V)
  BY <1>1, SoundTree DEF CanCreate, Underway
<1>5. /\ \A y \in DOMAIN at : m[at[y]] = d[at[y]]
      /\ AsTable(m[BOOT_SECTOR]) = ZeroTable
  BY UnderwayFacts
<1>6. Listing(m, at) = L
  BY <1>5, SameListing
<1>7. TreeOn(m, at)
  BY <1>4, <1>5, <1>6 DEF TreeOn
<1>8. \A c \in Clusters : c \in ToSet(s) \/ AsFAT(m[FAT_CLUSTER_NUMBER])[c] = map[c]
  BY <1>2 DEF Underway, MapGrown
<1>9. \A r \in Paths : r # q => Node(m, r) = Node(d, r)
  <2>1. \A c \in Clusters : c \in ToSet(s) \cup {FAT_CLUSTER_NUMBER, at[x]} \/ m[c] = d[c]
    BY DEF Underway
  <2>2. m[at[x]].kind = "dir"
    BY <1>4, <1>5 DEF Seated
  <2>3. \A y, j, r : r # q /\ Leads(Listing(d, at), y, j, r) =>
          /\ Listing(m, at)[y][j] = Listing(d, at)[y][j]
          /\ ToSet(ChainOf(map, Listing(d, at), y, j)) \cap ToSet(s) = {}
    BY <1>2, <1>6 DEF Leads
  <2>4. \A y, j, r : r # q => (Leads(Listing(d, at), y, j, r) <=> Leads(Listing(m, at), y, j, r))
    BY <1>6
  <2>5. Alike(V, d, m, map, at, at, {x}, ToSet(s), {q})
    BY <1>4, <1>7, <1>8, <2>1, <2>2, <2>3, <2>4 DEF Alike
  <2> QED
    BY <2>5, OthersKept
<1>10. q \in Paths => Node(m, q) = Absent
  BY <1>3, <1>4, <1>6, <1>7, NodeFacts
<1> QED
  BY <1>9, <1>10

(***************************************************************************)
(* Once it is written, the tree has one more entry.                        *)
(***************************************************************************)
LEMMA CreationGrown ==
  ASSUME NEW V, NEW d, NEW map, NEW at, NEW x, NEW name, NEW size, NEW q, NEW s, NEW large, NEW i,
         NEW t, Creation(V, d, map, at, x, name, size, q, s, large, i, t),
         NEW m, Underway(V, d, m, map, at, x, s, large), InTable(m, at, x, name, size, s, t),
         NEW big, big = Bigger(at, q, s, size)
  PROVE  /\ Grown(at, Listing(d, at), big, Listing(m, big), x, i, q)
         /\ Listing(m, big)[x][i] = NewEntry(map, name, size)
         /\ Shaped(big, Listing(m, big)) /\ TreeOn(m, big)
         /\ big[x] = at[x]
<1> DEFINE L == Listing(d, at)
           B == Listing(m, big)
<1>1. CanCreate(V, d, map, at, x, name, size) /\ s = NewChain(map, size) /\ large = NewMap(map, size)
      /\ q = Append(x, name) /\ i = NewRow(d, at, x) /\ t = NewTable(d, map, at, x, name, size)
  BY DEF Creation
<1>2. s[1] \in OffFAT /\ s[1] \in Clusters /\ s[1] # 0
  BY <1>1, NewChainFacts, EmptyTyped
<1>3. /\ i \in Rows /\ L[x][i] = EmptyEntry
      /\ \A y, j : ~Leads(L, y, j, q)
      /\ t[i] = NewEntry(map, name, size)
      /\ \A j \in Positions : j = i \/ t[j] = AsTable(d[at[x]])[j]
      /\ AsTable(Table(t)) = t
  BY <1>1, NewRowFacts
<1>4. /\ d \in Disks(V) /\ x \in DOMAIN at /\ Shaped(at, L) /\ m \in Disks(V)
      /\ q \in Paths /\ name \in Names /\ size \in Sizes
  BY <1>1, SoundTree DEF CanCreate, Underway
<1>5. /\ \A y \in DOMAIN at : y = x \/ m[at[y]] = d[at[y]]
      /\ \A y \in DOMAIN at : at[y] \in Clusters
      /\ AsTable(m[BOOT_SECTOR]) = ZeroTable
  BY UnderwayFacts
<1>6. q \notin DOMAIN at
  <2>1. q # <<>>
    BY <1>4, PathFacts
  <2> QED
    BY <1>3, <1>4, <2>1 DEF Shaped
<1>7. /\ DOMAIN big = DOMAIN at \cup (IF size = 0 THEN {q} ELSE {})
      /\ \A y \in DOMAIN at : big[y] = at[y]
      /\ size = 0 => big[q] = s[1]
  BY <1>6 DEF Bigger
<1> HIDE DEF L
<1>8. \A y \in DOMAIN big : big[y] \in Clusters
  BY <1>2, <1>5, <1>7
<1>9. /\ DOMAIN B = DOMAIN big
      /\ \A y \in DOMAIN big : /\ B[y] \in [Rows -> PointingOff]
                               /\ \A j \in Rows : B[y][j] = AsTable(m[big[y]])[j]
  BY <1>4, <1>8, ListingTyped
<1>10. /\ DOMAIN L = DOMAIN at
       /\ \A y \in DOMAIN at : /\ L[y] \in [Rows -> PointingOff]
                               /\ \A j \in Rows : L[y][j] = AsTable(d[at[y]])[j]
  BY <1>4, <1>5, ListingTyped DEF L
<1> HIDE DEF B
<1>11. \A y \in DOMAIN at : y \in DOMAIN big /\ big[y] = at[y]
  BY <1>7
<1>12. B[x][i] = NewEntry(map, name, size)
  <2>1. AsTable(m[big[x]]) = t
    BY <1>3, <1>4, <1>11 DEF InTable
  <2> QED
    BY <1>3, <1>4, <1>9, <1>11, <2>1
<1>13. ASSUME NEW y \in DOMAIN at, NEW j \in Rows, ~(y = x /\ j = i)
       PROVE  B[y][j] = L[y][j]
  <2>1. CASE y # x
    BY <1>5, <1>9, <1>10, <1>11, <2>1
  <2>2. CASE y = x
    <3>1. j # i /\ j \in Positions
      BY <1>13, <2>2 DEF Rows
    <3>2. AsTable(m[big[x]]) = t
      BY <1>3, <1>4, <1>11 DEF InTable
    <3>3. B[x][j] = t[j] /\ L[x][j] = AsTable(d[at[x]])[j]
      BY <1>4, <1>9, <1>10, <1>11, <3>2
    <3> QED
      BY <1>3, <2>2, <3>1, <3>3
  <2> QED
    BY <2>1, <2>2
<1>14. /\ NewEntry(map, name, size).filesize = size
       /\ NewEntry(map, name, size).cluster = s[1]
       /\ NewEntry(map, name, size).used /\ NewEntry(map, name, size).name = name
       /\ name # NoName
  BY <1>1, <1>4, NamesAssumption DEF NewEntry, UsedEntry, NamesAssumption, NoName
<1>15. Leads(B, x, i, q)
  BY <1>1, <1>3, <1>4, <1>9, <1>11, <1>12, <1>14, ZenonT(60) DEF Leads, Live
<1>16. ASSUME size = 0, NEW j \in Rows
       PROVE  B[q][j] = EmptyEntry
  <2>1. q \in DOMAIN big /\ big[q] = s[1]
    BY <1>7, <1>16
  <2>2. AsTable(m[s[1]]) = init_directory_table(name, at[x])
    <3>1. m[s[1]] = Table(init_directory_table(name, at[x]))
      BY <1>16 DEF InTable
    <3> QED
      BY <3>1 DEF AsTable, Table
  <2>3. j \in Positions /\ j # 0
    BY <1>16 DEF Rows
  <2>4. init_directory_table(name, at[x])[j] = EmptyEntry
    BY <2>3 DEF init_directory_table, ZeroTable
  <2> QED
    BY <1>9, <1>16, <2>1, <2>2, <2>4
<1>17. Grown(at, L, big, B, x, i, q)
  <2>1. \A y \in DOMAIN at : big[y] = at[y] /\ B[y] \in [Rows -> PointingOff] /\ L[y] \in [Rows -> PointingOff]
    BY <1>9, <1>10, <1>11
  <2>2. /\ B[x][i].filesize = size /\ B[x][i].cluster = s[1] /\ B[x][i].used
        /\ Vacant(x, L[x][i])
    BY <1>3, <1>12, <1>14 DEF Vacant
  <2>3. \A y \in DOMAIN at, j \in Rows : (y = x /\ j = i) \/ B[y][j] = L[y][j]
    BY <1>13
  <2>4. size = 0 => /\ big[q] = s[1] /\ big[q] # 0 /\ B[q] \in [Rows -> PointingOff]
                    /\ \A j \in Rows : B[q][j] = EmptyEntry
    BY <1>2, <1>7, <1>9, <1>16
  <2> QED
    BY <1>3, <1>4, <1>6, <1>7, <1>9, <1>10, <1>15, <2>1, <2>2, <2>3, <2>4 DEF Grown, L
<1>18. Shaped(big, B)
  BY <1>3, <1>4, <1>17, ShapedLarger
<1>19. TreeOn(m, big)
  BY <1>5, <1>18 DEF TreeOn, B
<1> QED
  BY <1>4, <1>11, <1>12, <1>17, <1>18, <1>19 DEF B, L

LEMMA CreationAfter ==
  ASSUME NEW V, NEW d, NEW map, NEW at, NEW x, NEW name, NEW size, NEW q, NEW s, NEW large, NEW i,
         NEW t, Creation(V, d, map, at, x, name, size, q, s, large, i, t),
         NEW m, Underway(V, d, m, map, at, x, s, large), InTable(m, at, x, name, size, s, t)
  PROVE  /\ \A r \in Paths : r # q => Node(m, r) = Node(d, r)
         /\ q \in Paths => Node(m, q) = NodeOfEntry(m, NewEntry(map, name, size))
<1> DEFINE L == Listing(d, at)
<1>1. CanCreate(V, d, map, at, x, name, size) /\ s = NewChain(map, size) /\ large = NewMap(map, size)
      /\ q = Append(x, name) /\ i = NewRow(d, at, x) /\ t = NewTable(d, map, at, x, name, size)
  BY DEF Creation
<1>2. /\ MapGrown(map, large, s)
      /\ \A y, j : Live(L, y, j) => ToSet(ChainOf(map, L, y, j)) \cap ToSet(s) = {}
  BY <1>1, NewChainFacts
<1>3. /\ d \in Disks(V) /\ map = AsFAT(d[FAT_CLUSTER_NUMBER]) /\ Sound(d, map, at) /\ x \in DOMAIN at
      /\ m \in Disks(V) /\ q \in Paths
  BY <1>1 DEF CanCreate, Underway
<1>4. Table(t).kind = "dir"
  BY <1>1, NewRowFacts
<1>5. PICK big : big = Bigger(at, q, s, size)
  OBVIOUS
<1> DEFINE B == Listing(m, big)
<1>6. Grown(at, L, big, B, x, i, q) /\ B[x][i] = NewEntry(map, name, size) /\ TreeOn(m, big)
  BY <1>5, CreationGrown
<1>7. /\ \A y, j : Live(L, y, j) => ~(y = x /\ j = i) /\ B[y][j] = L[y][j] /\ y \in DOMAIN at
      /\ \A y, j, p : Leads(L, y, j, p) => Leads(B, y, j, p) /\ ~(y = x /\ j = i)
      /\ \A y, j, p : Leads(B, y, j, p) => Leads(L, y, j, p) \/ (y = x /\ j = i /\ p = q)
      /\ Leads(B, x, i, q)
  <2> HIDE DEF L, B
  <2>1. Leads(B, x, i, q)
    BY <1>6 DEF Grown
  <2> QED
    BY <1>6, <2>1, GrownFacts
<1>8. \A c \in Clusters : c \in ToSet(s) \/ AsFAT(m[FAT_CLUSTER_NUMBER])[c] = map[c]
  BY <1>2 DEF Underway, MapGrown
<1>9. \A r \in Paths : r # q => Node(m, r) = Node(d, r)
  <2>1. \A c \in Clusters : c \in ToSet(s) \cup {FAT_CLUSTER_NUMBER, at[x]} \/ m[c] = d[c]
    BY DEF Underway
  <2>2. m[at[x]].kind = "dir"
    BY <1>4 DEF InTable
  <2>3. \A y, j, r : r # q /\ Leads(Listing(d, at), y, j, r) =>
          /\ Listing(m, big)[y][j] = Listing(d, at)[y][j]
          /\ ToSet(ChainOf(map, Listing(d, at), y, j)) \cap ToSet(s) = {}
    BY <1>2, <1>7 DEF Leads
  <2>4. \A y, j, r : r # q => (Leads(Listing(d, at), y, j, r) <=> Leads(Listing(m, big), y, j, r))
    BY <1>7
  <2>5. TreeOn(m, big)
    BY <1>6
  <2> HIDE DEF L, B
  <2>6. Alike(V, d, m, map, at, big, {x}, ToSet(s), {q})
    BY <1>3, <1>8, <2>1, <2>2, <2>3, <2>4, <2>5 DEF Alike
  <2> QED
    BY <2>6, OthersKept
<1>10. Node(m, q) = NodeOfEntry(m, NewEntry(map, name, size))
  <2>1. Leads(Listing(m, big), x, i, q) /\ TreeOn(m, big) /\ Listing(m, big)[x][i] = NewEntry(map, name, size)
    BY <1>6, <1>7
  <2> HIDE DEF L, B
  <2> QED
    BY <1>3, <2>1, NodeFacts
<1> QED
  BY <1>9, <1>10

(***************************************************************************)
(* With the new FAT on the disk, the creation is done.                     *)
(***************************************************************************)
LEMMA CreationDone ==
  ASSUME NEW V, NEW d, NEW map, NEW at, NEW x, NEW name, NEW size, NEW q, NEW s, NEW large, NEW i,
         NEW t, Creation(V, d, map, at, x, name, size, q, s, large, i, t),
         NEW m, Underway(V, d, m, map, at, x, s, large), InTable(m, at, x, name, size, s, t),
         AsFAT(m[FAT_CLUSTER_NUMBER]) = large
  PROVE  /\ Sound(m, large, Bigger(at, q, s, size))
         /\ size = 0 => Node(m, q) = Folder
         /\ \A version :
              size # 0 /\ (\A k \in 1 .. Len(s) : m[s[k]] = Data(version, k))
                => Node(m, q) = File(version, size)
<1> DEFINE L == Listing(d, at)
<1>1. CanCreate(V, d, map, at, x, name, size) /\ s = NewChain(map, size) /\ large = NewMap(map, size)
      /\ q = Append(x, name) /\ i = NewRow(d, at, x) /\ t = NewTable(d, map, at, x, name, size)
  BY DEF Creation
<1>2. /\ MapGrown(map, large, s) /\ s[1] \in Clusters
      /\ Chain(large, s[1]) = s /\ Complete(large, s) /\ Len(s) = NeedFor(size) /\ Len(s) \in Nat \ {0}
  BY <1>1, NewChainFacts, EmptyTyped
<1>3. /\ d \in Disks(V) /\ Shaped(at, L) /\ Seated(d, at, L) /\ Allotted(map, L) /\ x \in DOMAIN at
      /\ m \in Disks(V) /\ q \in Paths
  BY <1>1, SoundTree DEF CanCreate, Underway
<1>4. AsTable(Table(t)) = t /\ Table(t).kind = "dir" /\ OwnRow(t)
  BY <1>1, NewRowFacts
<1>5. /\ \A y \in DOMAIN at : y = x \/ m[at[y]] = d[at[y]]
      /\ m[BOOT_SECTOR] = Signature
  BY UnderwayFacts
<1>6. PICK big : big = Bigger(at, q, s, size)
  OBVIOUS
<1> DEFINE B == Listing(m, big)
<1>7. /\ Grown(at, L, big, B, x, i, q) /\ B[x][i] = NewEntry(map, name, size)
      /\ Shaped(big, B) /\ TreeOn(m, big)
  BY <1>6, CreationGrown
<1>8. /\ \A y, j : Live(B, y, j) <=> Live(L, y, j) \/ (y = x /\ j = i)
      /\ \A y, j : Live(L, y, j) => B[y][j] = L[y][j]
      /\ \A y \in DOMAIN at : big[y] = at[y]
      /\ DOMAIN big = DOMAIN at \cup (IF B[x][i].filesize = 0 THEN {q} ELSE {})
      /\ B[x][i].filesize = 0 => big[q] = B[x][i].cluster
  <2> HIDE DEF L, B
  <2>1. /\ \A y \in DOMAIN at : big[y] = at[y]
        /\ DOMAIN big = DOMAIN at \cup (IF B[x][i].filesize = 0 THEN {q} ELSE {})
        /\ B[x][i].filesize = 0 => big[q] = B[x][i].cluster
    BY <1>7 DEF Grown
  <2> QED
    BY <1>7, <2>1, GrownFacts
<1>9. /\ NewEntry(map, name, size).filesize = size
      /\ NewEntry(map, name, size).cluster = s[1]
      /\ NewEntry(map, name, size).attribute = AttributeOf(size)
  BY <1>1 DEF NewEntry, UsedEntry
<1> HIDE DEF L, B
<1>10. Allotted(large, B)
  <2>1. ChainOf(large, B, x, i) = s
    BY <1>2, <1>7, <1>9 DEF ChainOf
  <2>2. NeedOf(B[x][i]) = NeedFor(size)
    BY <1>7, <1>9 DEF NeedOf, NeedFor
  <2> QED
    BY <1>2, <1>3, <1>7, <2>1, <2>2, AllottedLarger
<1>11. Seated(m, big, B)
  <2>1. ASSUME NEW y \in DOMAIN at
        PROVE  m[big[y]].kind = "dir" /\ OwnRow(AsTable(m[big[y]]))
    <3>1. CASE y = x
      BY <1>3, <1>4, <1>8, <3>1 DEF InTable
    <3>2. CASE y # x
      <4>1. m[big[y]] = d[at[y]]
        BY <1>5, <1>8, <2>1, <3>2
      <4> QED
        BY <1>3, <2>1, <4>1 DEF Seated
    <3> QED
      BY <3>1, <3>2
  <2>2. ASSUME size = 0
        PROVE  m[s[1]].kind = "dir" /\ OwnRow(AsTable(m[s[1]]))
    <3>1. m[s[1]] = Table(init_directory_table(name, at[x]))
      BY <2>2 DEF InTable
    <3>2. OwnRow(init_directory_table(name, at[x]))
      BY SizeFacts DEF OwnRow, init_directory_table, UsedEntry, ZeroTable
    <3> QED
      BY <3>1, <3>2 DEF AsTable, Table
  <2>3. \A y \in DOMAIN big : m[big[y]].kind = "dir" /\ OwnRow(AsTable(m[big[y]]))
    BY <1>7, <1>8, <1>9, <2>1, <2>2
  <2>4. \A y, j : Live(B, y, j) => B[y][j].attribute = AttributeOf(B[y][j].filesize)
    BY <1>3, <1>7, <1>8, <1>9 DEF Seated
  <2> QED
    BY <2>3, <2>4 DEF Seated
<1>12. Sound(m, large, big)
  BY <1>5, <1>7, <1>10, <1>11 DEF Sound, B
<1>13. size = 0 => Node(m, q) = Folder
  <2>1. size = 0 => q \in DOMAIN big
    BY <1>7, <1>8, <1>9
  <2> QED
    BY <1>3, <1>12, <2>1, FolderNodes
<1>14. ASSUME NEW version, size # 0, \A k \in 1 .. Len(s) : m[s[k]] = Data(version, k)
       PROVE  Node(m, q) = File(version, size)
  <2> DEFINE e == NewEntry(map, name, size)
             contents == [k \in 1 .. Len(s) |-> m[s[k]]]
  <2>1. Node(m, q) = NodeOfEntry(m, e)
    BY <1>3, CreationAfter
  <2>2. NodeOfEntry(m, e) = FileOf(contents, size)
    BY <1>2, <1>9, <1>14 DEF NodeOfEntry
  <2>3. FileOf(contents, size) = File(version, size)
    <3>1. PICK n \in Nat : n = Len(s) /\ n # 0
      BY <1>2
    <3>2. contents = [k \in 1 .. n |-> Data(version, k)]
      BY <1>14, <3>1
    <3> DEFINE f == [k \in 1 .. n |-> Data(version, k)]
    <3>3. Len(f) = n /\ f # <<>> /\ 1 \in 1 .. n
      BY <3>1
    <3>4. \A k \in 1 .. n : f[k].kind = "data" /\ f[k].part = k /\ f[k].version = version
      BY DEF Data
    <3>5. n = ClusterNeed(size)
      BY <1>2, <1>14, <3>1 DEF NeedFor
    <3> HIDE DEF f
    <3>6. FileOf(f, size) = File(version, size)
      BY <3>3, <3>4, <3>5 DEF FileOf
    <3> QED
      BY <3>2, <3>6 DEF f
  <2> QED
    BY <2>1, <2>2, <2>3
<1> QED
  BY <1>6, <1>12, <1>13, <1>14

(***************************************************************************)
(* The folders that were there stay where they are.                        *)
(***************************************************************************)
LEMMA CreationKeeps ==
  ASSUME NEW V, NEW d, NEW map, NEW at, NEW x, NEW name, NEW size, NEW q, NEW s, NEW large, NEW i,
         NEW t, Creation(V, d, map, at, x, name, size, q, s, large, i, t),
         NEW m, Underway(V, d, m, map, at, x, s, large), InTable(m, at, x, name, size, s, t),
         NEW big, big = Bigger(at, q, s, size)
  PROVE  \A y \in DOMAIN big : y = q \/ KeepsPlace(d, m, big, y)
<1>1. /\ CanCreate(V, d, map, at, x, name, size) /\ i = NewRow(d, at, x)
      /\ t = NewTable(d, map, at, x, name, size)
  BY DEF Creation
<1>2. d \in Disks(V) /\ Sound(d, map, at)
  BY <1>1 DEF CanCreate
<1>3. /\ i \in Rows /\ AsTable(Table(t)) = t
      /\ \A j \in Positions : j = i \/ t[j] = AsTable(d[at[x]])[j]
  BY <1>1, NewRowFacts
<1>4. 0 # i /\ 0 \in Positions
  BY <1>3, SizeFacts DEF Rows
<1>5. \A y \in DOMAIN at : y = x \/ m[at[y]] = d[at[y]]
  BY UnderwayFacts
<1>6. \A y \in DOMAIN at : AsTable(m[at[y]])[0] = AsTable(d[at[y]])[0]
  BY <1>3, <1>4, <1>5 DEF InTable
<1>7. \A y \in DOMAIN big : y = q \/ (y \in DOMAIN at /\ big[y] = at[y])
  BY DEF Bigger
<1> QED
  BY <1>2, <1>6, <1>7, PlacesAre DEF KeepsPlace

-----------------------------------------------------------------------------
(* A deletion *)

\* The deletion of the entry at q, row i of the folder at x, with nothing below
\* it: s is its chain, and "map" and t are what is left.
Deletion(V, d, large, big, x, i, q, s, map, t) ==
  /\ d \in Disks(V) /\ large \in FATs /\ large = AsFAT(d[FAT_CLUSTER_NUMBER]) /\ Sound(d, large, big)
  /\ Leads(Listing(d, big), x, i, q)
  /\ \A j : ~Live(Listing(d, big), q, j)
  /\ s = ChainOf(large, Listing(d, big), x, i)
  /\ map = Freed(large, s)
  /\ t = [AsTable(d[big[x]]) EXCEPT ![i] = EmptyEntry]

Smaller(big, q) == [y \in DOMAIN big \ {q} |-> big[y]]

\* A disk with at most the entry's clusters, the FAT and the folder's table
\* written.
Removing(V, d, m, large, big, x, s, map) ==
  /\ m \in Disks(V)
  /\ \A c \in Clusters : \/ c \in {FAT_CLUSTER_NUMBER, big[x]}
                         \/ m[c] = d[c]
                         \/ c \in ToSet(s) /\ m[c] = Blank
  /\ AsFAT(m[FAT_CLUSTER_NUMBER]) \in {map, large}

\* A folder's cluster is none of those the driver has for itself.
Apart(at, y) == at[y] \in Clusters /\ at[y] \notin {0, 1}

LEMMA FreedFacts ==
  ASSUME NEW large, NEW s \in Seq(Clusters)
  PROVE  \A c \in Clusters :
           Freed(large, s)[c] = IF c \in ToSet(s) THEN FAT32_FAT_EMPTY_ENTRY ELSE large[c]
<1>1. \A c : c \in ToSet(s) <=> \E k \in 1 .. Len(s) : s[k] = c
  BY DEF ToSet
<1> QED
  BY <1>1 DEF Freed

LEMMA DeletionFacts ==
  ASSUME NEW V, NEW d, NEW large, NEW big, NEW x, NEW i, NEW q, NEW s, NEW map, NEW t,
         Deletion(V, d, large, big, x, i, q, s, map, t)
  PROVE  /\ q \in Paths /\ x \in DOMAIN big /\ x # q /\ <<>> # q /\ i \in Rows
         /\ s \in Seq(Clusters) /\ MapGrown(map, large, s)
         /\ \A y, j : Live(Listing(d, big), y, j) =>
              (y = x /\ j = i) \/ ToSet(ChainOf(large, Listing(d, big), y, j)) \cap ToSet(s) = {}
         /\ \A y \in DOMAIN big : Apart(big, y) /\ (y = q \/ big[y] \notin ToSet(s))
         /\ Listing(d, big)[x][i].filesize = 0 =>
              q \in DOMAIN big /\ big[q] = Listing(d, big)[x][i].cluster
         /\ q \in DOMAIN big => Listing(d, big)[x][i].filesize = 0
         /\ \A y \in DOMAIN big : y = x \/ big[y] # big[x]
<1> DEFINE B == Listing(d, big)
<1>1. /\ Shaped(big, B) /\ Allotted(large, B) /\ Leads(B, x, i, q) /\ s = ChainOf(large, B, x, i)
      /\ Live(B, x, i) /\ map = Freed(large, s)
  BY SoundTree DEF Deletion, Leads
<1> HIDE DEF B
<1>2. /\ q \in Paths /\ x \in DOMAIN big /\ i \in Rows /\ x = Front(q) /\ B[x][i].cluster \in Clusters
  BY <1>1, ShapedFacts, EmptyTyped DEF PointingOff
<1>3. x # q /\ <<>> # q
  <2>1. Len(x) = Len(q) - 1 /\ Len(q) \in Nat \ {0} /\ q # <<>>
    BY <1>2, PathFacts
  <2> QED
    BY <2>1
<1>4. s \in Seq(Clusters) /\ ToSet(s) \subseteq Clusters
  BY <1>1, <1>2, ChainTyped DEF ChainOf
<1>5. MapGrown(map, large, s)
  <2>1. ToSet(s) \cap {0, 1, 2} = {}
    BY <1>1 DEF Allotted
  <2>2. \A c \in ToSet(s) : large[c] # FAT32_FAT_EMPTY_ENTRY
    BY <1>1, <1>4 DEF Allotted
  <2> QED
    BY <1>1, <1>4, <2>1, <2>2, FreedFacts DEF MapGrown
<1>6. \A y, j : Live(B, y, j) =>
        (y = x /\ j = i) \/ ToSet(ChainOf(large, B, y, j)) \cap ToSet(s) = {}
  BY <1>1 DEF Allotted
<1>7. ASSUME NEW y \in DOMAIN big
      PROVE  Apart(big, y) /\ (y = q \/ big[y] \notin ToSet(s))
  <2>1. big[y] \in Clusters /\ big[y] \notin {0, 1}
    BY <1>1, FolderAllocated
  <2>2. big[y] \in ToSet(s) => Leads(B, x, i, y)
    BY <1>1, FolderOwner
  <2>3. Leads(B, x, i, y) => y = q
    BY <1>1 DEF Leads
  <2> QED
    BY <2>1, <2>2, <2>3 DEF Apart
<1>8. B[x][i].filesize = 0 => q \in DOMAIN big /\ big[q] = B[x][i].cluster
  BY <1>1 DEF Shaped, Leads
<1>9. q \in DOMAIN big => B[x][i].filesize = 0
  BY <1>1, <1>3 DEF Shaped
<1>10. \A y \in DOMAIN big : y = x \/ big[y] # big[x]
  BY <1>1, <1>2, FoldersApart
<1> QED
  BY <1>2, <1>3, <1>4, <1>5, <1>6, <1>7, <1>8, <1>9, <1>10 DEF B

LEMMA RemovingFacts ==
  ASSUME NEW V, NEW d, NEW large, NEW big, NEW x, NEW i, NEW q, NEW s, NEW map, NEW t,
         Deletion(V, d, large, big, x, i, q, s, map, t),
         NEW m, Removing(V, d, m, large, big, x, s, map)
  PROVE  /\ \A y \in DOMAIN big : y = x \/ y = q \/ m[big[y]] = d[big[y]]
         /\ q \in DOMAIN big => m[big[q]] = d[big[q]] \/ m[big[q]] = Blank
         /\ m[BOOT_SECTOR] = Signature /\ AsTable(m[BOOT_SECTOR]) = ZeroTable
         /\ \A c \in Clusters : c \in ToSet(s) \cup {FAT_CLUSTER_NUMBER, big[x]} \/ m[c] = d[c]
         /\ \A c \in Clusters : c \in ToSet(s) \/ AsFAT(m[FAT_CLUSTER_NUMBER])[c] = large[c]
<1>1. /\ \A y \in DOMAIN big : Apart(big, y) /\ (y = q \/ big[y] \notin ToSet(s))
      /\ \A y \in DOMAIN big : y = x \/ big[y] # big[x]
      /\ MapGrown(map, large, s) /\ x # q /\ x \in DOMAIN big
  BY DeletionFacts
<1>2. \A y \in DOMAIN big : y = x \/ y = q \/ m[big[y]] = d[big[y]]
  BY <1>1 DEF Apart, Removing, FAT_CLUSTER_NUMBER
<1>3. q \in DOMAIN big => m[big[q]] = d[big[q]] \/ m[big[q]] = Blank
  BY <1>1 DEF Apart, Removing, FAT_CLUSTER_NUMBER
<1>4. m[BOOT_SECTOR] = d[BOOT_SECTOR]
  BY <1>1, SizeFacts DEF Apart, Removing, FAT_CLUSTER_NUMBER, MapGrown, BOOT_SECTOR
<1>5. d[BOOT_SECTOR] = Signature
  BY DEF Deletion, Sound
<1>6. AsTable(Signature) = ZeroTable
  BY DEF AsTable, Signature
<1>7. \A c \in Clusters : c \in ToSet(s) \/ AsFAT(m[FAT_CLUSTER_NUMBER])[c] = large[c]
  BY <1>1 DEF Removing, MapGrown
<1> QED
  BY <1>2, <1>3, <1>4, <1>5, <1>6, <1>7 DEF Removing

(***************************************************************************)
(* Until the folder's table is written, only what is deleted is harmed.    *)
(***************************************************************************)
LEMMA RemovalBefore ==
  ASSUME NEW V, NEW d, NEW large, NEW big, NEW x, NEW i, NEW q, NEW s, NEW map, NEW t,
         Deletion(V, d, large, big, x, i, q, s, map, t),
         NEW m, Removing(V, d, m, large, big, x, s, map), m[big[x]] = d[big[x]]
  PROVE  \A r \in Paths : r # q => Node(m, r) = Node(d, r)
<1> DEFINE B == Listing(d, big)
<1>1. /\ Shaped(big, B) /\ Seated(d, big, B) /\ Leads(B, x, i, q)
      /\ d \in Disks(V) /\ m \in Disks(V) /\ Sound(d, large, big)
      /\ large = AsFAT(d[FAT_CLUSTER_NUMBER])
      /\ \A j : ~Live(B, q, j)
  BY SoundTree DEF Deletion, Removing
<1>2. /\ x \in DOMAIN big /\ <<>> # q
      /\ \A y, j : Live(B, y, j) =>
           (y = x /\ j = i) \/ ToSet(ChainOf(large, B, y, j)) \cap ToSet(s) = {}
      /\ \A y \in DOMAIN big : big[y] \in Clusters
  BY DeletionFacts DEF Apart
<1>3. /\ \A y \in DOMAIN big : y = q \/ m[big[y]] = d[big[y]]
      /\ q \in DOMAIN big => m[big[q]] = d[big[q]] \/ m[big[q]] = Blank
      /\ AsTable(m[BOOT_SECTOR]) = ZeroTable
      /\ \A c \in Clusters : c \in ToSet(s) \cup {FAT_CLUSTER_NUMBER, big[x]} \/ m[c] = d[c]
      /\ \A c \in Clusters : c \in ToSet(s) \/ AsFAT(m[FAT_CLUSTER_NUMBER])[c] = large[c]
  BY RemovingFacts
<1>4. Listing(m, big) = B
  <2>1. ASSUME NEW y \in DOMAIN big, NEW j \in Rows
        PROVE  AsTable(m[big[y]])[j] = AsTable(d[big[y]])[j]
    <3>1. CASE m[big[y]] = d[big[y]]
      BY <3>1
    <3>2. CASE y = q /\ m[big[y]] = Blank
      <4>1. B[q][j] = EmptyEntry
        <5> HIDE DEF B
        <5> QED
          BY <1>1, <1>2, <2>1, <3>2 DEF Shaped, Live, Vacant
      <4>2. B[q][j] = AsTable(d[big[q]])[j]
        BY <1>1, <1>2, <2>1, <3>2, ListingTyped
      <4>3. AsTable(m[big[y]]) = ZeroTable /\ j \in Positions
        BY <2>1, <3>2 DEF AsTable, Blank, Rows
      <4> QED
        BY <3>2, <4>1, <4>2, <4>3 DEF ZeroTable
    <3> QED
      BY <1>3, <3>1, <3>2
  <2> QED
    BY <2>1, SameListing
<1>5. TreeOn(m, big)
  BY <1>1, <1>3, <1>4 DEF TreeOn
<1>6. m[big[x]].kind = "dir"
  BY <1>1, <1>2 DEF Seated
<1>7. \A y, j, r : r # q /\ Leads(Listing(d, big), y, j, r) =>
        /\ Listing(m, big)[y][j] = Listing(d, big)[y][j]
        /\ ToSet(ChainOf(large, Listing(d, big), y, j)) \cap ToSet(s) = {}
  <2>1. \A y, j, r : r # q /\ Leads(B, y, j, r) => Live(B, y, j) /\ ~(y = x /\ j = i)
    BY <1>1 DEF Leads
  <2> QED
    BY <1>2, <1>4, <2>1
<1>8. \A y, j, r : r # q => (Leads(Listing(d, big), y, j, r) <=> Leads(Listing(m, big), y, j, r))
  BY <1>4
<1>9. /\ d \in Disks(V) /\ m \in Disks(V) /\ Sound(d, large, big)
      /\ large = AsFAT(d[FAT_CLUSTER_NUMBER]) /\ x \in DOMAIN big
      /\ \A c \in Clusters : c \in ToSet(s) \cup {FAT_CLUSTER_NUMBER, big[x]} \/ m[c] = d[c]
      /\ \A c \in Clusters : c \in ToSet(s) \/ AsFAT(m[FAT_CLUSTER_NUMBER])[c] = large[c]
  BY <1>1, <1>2, <1>3
<1> HIDE DEF B
<1>10. Alike(V, d, m, large, big, big, {x}, ToSet(s), {q})
  BY <1>5, <1>6, <1>7, <1>8, <1>9 DEF Alike
<1> QED
  BY <1>10, OthersKept

(***************************************************************************)
(* Once it is written, the tree has one entry less.                        *)
(***************************************************************************)
LEMMA RemovalGrown ==
  ASSUME NEW V, NEW d, NEW large, NEW big, NEW x, NEW i, NEW q, NEW s, NEW map, NEW t,
         Deletion(V, d, large, big, x, i, q, s, map, t),
         NEW m, Removing(V, d, m, large, big, x, s, map), m[big[x]] = Table(t),
         NEW at, at = Smaller(big, q)
  PROVE  /\ Grown(at, Listing(m, at), big, Listing(d, big), x, i, q)
         /\ Shaped(at, Listing(m, at)) /\ TreeOn(m, at)
         /\ \A y, j : ~Leads(Listing(m, at), y, j, q)
         /\ \A y \in DOMAIN at : y \in DOMAIN big /\ at[y] = big[y] /\ y # q
         /\ x \in DOMAIN at
<1> DEFINE B == Listing(d, big)
           L == Listing(m, at)
<1>1. /\ Shaped(big, B) /\ Leads(B, x, i, q)
      /\ d \in Disks(V) /\ m \in Disks(V)
      /\ \A j : ~Live(B, q, j)
      /\ t = [AsTable(d[big[x]]) EXCEPT ![i] = EmptyEntry]
  BY SoundTree DEF Deletion, Removing
<1>2. /\ x \in DOMAIN big /\ x # q /\ <<>> # q /\ i \in Rows
      /\ \A y \in DOMAIN big : big[y] \in Clusters
      /\ B[x][i].filesize = 0 => q \in DOMAIN big /\ big[q] = B[x][i].cluster
      /\ q \in DOMAIN big => B[x][i].filesize = 0 /\ Apart(big, q)
  BY DeletionFacts DEF Apart
<1>3. /\ \A y \in DOMAIN big : y = x \/ y = q \/ m[big[y]] = d[big[y]]
      /\ AsTable(m[BOOT_SECTOR]) = ZeroTable
  BY RemovingFacts
<1>4. /\ DOMAIN at = DOMAIN big \ {q}
      /\ \A y \in DOMAIN at : y \in DOMAIN big /\ at[y] = big[y] /\ y # q
      /\ x \in DOMAIN at
  BY <1>2 DEF Smaller
<1>5. /\ DOMAIN B = DOMAIN big
      /\ \A y \in DOMAIN big : /\ B[y] \in [Rows -> PointingOff]
                               /\ \A j \in Rows : B[y][j] = AsTable(d[big[y]])[j]
  BY <1>1, <1>2, ListingTyped
<1>6. /\ DOMAIN L = DOMAIN at
      /\ \A y \in DOMAIN at : /\ L[y] \in [Rows -> PointingOff]
                              /\ \A j \in Rows : L[y][j] = AsTable(m[big[y]])[j]
  <2>1. \A y \in DOMAIN at : at[y] \in Clusters
    BY <1>2, <1>4
  <2>2. /\ DOMAIN L = DOMAIN at
        /\ \A y \in DOMAIN at : /\ L[y] \in [Rows -> PointingOff]
                                /\ \A j \in Rows : L[y][j] = AsTable(m[at[y]])[j]
    BY <1>1, <2>1, ListingTyped
  <2> QED
    BY <1>4, <2>2
<1> HIDE DEF B, L
<1>7. AsTable(d[big[x]]) \in Tables /\ AsTable(m[big[x]]) = t
  <2>1. AsTable(d[big[x]]) \in Tables
    BY <1>1, <1>2, ReadsAs DEF Disks
  <2> QED
    BY <2>1 DEF AsTable, Table
<1>8. /\ i \in Positions /\ t[i] = EmptyEntry
      /\ \A j \in Positions : j = i \/ t[j] = AsTable(d[big[x]])[j]
  BY <1>1, <1>2, <1>7 DEF Tables, Rows
<1>9. L[x][i] = EmptyEntry
  BY <1>2, <1>4, <1>6, <1>7, <1>8
<1>10. ASSUME NEW y \in DOMAIN at, NEW j \in Rows, ~(y = x /\ j = i)
       PROVE  B[y][j] = L[y][j]
  <2>1. B[y][j] = AsTable(d[big[y]])[j] /\ L[y][j] = AsTable(m[big[y]])[j]
    BY <1>4, <1>5, <1>6, <1>10
  <2>2. CASE y # x
    BY <1>3, <1>4, <2>1, <2>2
  <2>3. CASE y = x
    <3>1. j # i /\ j \in Positions
      BY <1>10, <2>3 DEF Rows
    <3> QED
      BY <1>7, <1>8, <2>1, <2>3, <3>1
  <2> QED
    BY <2>2, <2>3
<1>11. B[x][i].filesize = 0 =>
         /\ big[q] = B[x][i].cluster /\ big[q] # 0
         /\ B[q] \in [Rows -> PointingOff]
         /\ \A j \in Rows : B[q][j] = EmptyEntry
  <2>1. B[x][i].filesize = 0 => q \in DOMAIN big /\ big[q] = B[x][i].cluster /\ big[q] # 0
    BY <1>2 DEF Apart
  <2>2. q \in DOMAIN big => \A j \in Rows : B[q][j] = EmptyEntry
    BY <1>1, <1>2, <1>5 DEF Live, Shaped, Vacant
  <2> QED
    BY <1>5, <2>1, <2>2
<1>12. DOMAIN big = DOMAIN at \cup (IF B[x][i].filesize = 0 THEN {q} ELSE {})
  BY <1>2, <1>4
<1>13. Grown(at, L, big, B, x, i, q)
  <2>1. \A y \in DOMAIN at : big[y] = at[y] /\ B[y] \in [Rows -> PointingOff] /\ L[y] \in [Rows -> PointingOff]
    BY <1>4, <1>5, <1>6
  <2>2. \A y \in DOMAIN at, j \in Rows : (y = x /\ j = i) \/ B[y][j] = L[y][j]
    BY <1>10
  <2>3. Vacant(x, L[x][i]) /\ B[x][i].used
    <3>1. B[x][i].name # NoName /\ (Vacant(x, B[x][i]) \/ B[x][i].used)
      BY <1>1, <1>2 DEF Shaped, Leads, Live
    <3>2. EmptyEntry.name = NoName
      BY DEF EmptyEntry
    <3> QED
      BY <1>9, <3>1, <3>2 DEF Vacant
  <2> QED
    BY <1>1, <1>2, <1>4, <1>5, <1>6, <1>11, <1>12, <2>1, <2>2, <2>3 DEF Grown
<1>14. Shaped(at, L) /\ \A y, j : ~Leads(L, y, j, q)
  BY <1>1, <1>13, ShapedSmaller
<1>15. TreeOn(m, at)
  BY <1>3, <1>14 DEF TreeOn, L
<1> QED
  BY <1>4, <1>13, <1>14, <1>15 DEF B, L

LEMMA RemovalAfter ==
  ASSUME NEW V, NEW d, NEW large, NEW big, NEW x, NEW i, NEW q, NEW s, NEW map, NEW t,
         Deletion(V, d, large, big, x, i, q, s, map, t),
         NEW m, Removing(V, d, m, large, big, x, s, map), m[big[x]] = Table(t)
  PROVE  /\ \A r \in Paths : Node(m, r) = IF r = q THEN Absent ELSE Node(d, r)
         /\ AsFAT(m[FAT_CLUSTER_NUMBER]) = map => Sound(m, map, Smaller(big, q))
<1> DEFINE B == Listing(d, big)
<1>1. PICK at : at = Smaller(big, q)
  OBVIOUS
<1> DEFINE L == Listing(m, at)
<1>2. /\ Shaped(big, B) /\ Seated(d, big, B) /\ Allotted(large, B)
      /\ d \in Disks(V) /\ m \in Disks(V) /\ Sound(d, large, big)
      /\ large = AsFAT(d[FAT_CLUSTER_NUMBER]) /\ s = ChainOf(large, B, x, i)
      /\ t = [AsTable(d[big[x]]) EXCEPT ![i] = EmptyEntry]
  BY SoundTree DEF Deletion, Removing
<1>3. /\ x \in DOMAIN big /\ i \in Rows /\ MapGrown(map, large, s)
      /\ \A y, j : Live(B, y, j) =>
           (y = x /\ j = i) \/ ToSet(ChainOf(large, B, y, j)) \cap ToSet(s) = {}
      /\ \A y \in DOMAIN big : big[y] \in Clusters
  BY DeletionFacts DEF Apart
<1>4. /\ \A y \in DOMAIN big : y = x \/ y = q \/ m[big[y]] = d[big[y]]
      /\ m[BOOT_SECTOR] = Signature
      /\ \A c \in Clusters : c \in ToSet(s) \cup {FAT_CLUSTER_NUMBER, big[x]} \/ m[c] = d[c]
      /\ \A c \in Clusters : c \in ToSet(s) \/ AsFAT(m[FAT_CLUSTER_NUMBER])[c] = large[c]
  BY RemovingFacts
<1>5. /\ Grown(at, L, big, B, x, i, q) /\ Shaped(at, L) /\ TreeOn(m, at)
      /\ \A y, j : ~Leads(L, y, j, q)
      /\ \A y \in DOMAIN at : y \in DOMAIN big /\ at[y] = big[y] /\ y # q
      /\ x \in DOMAIN at
  BY <1>1, RemovalGrown
<1> HIDE DEF B, L
<1>6. /\ \A y, j : Live(L, y, j) => ~(y = x /\ j = i) /\ B[y][j] = L[y][j] /\ y \in DOMAIN at
      /\ \A y, j : Live(L, y, j) => Live(B, y, j)
      /\ \A y, j, p : Leads(L, y, j, p) => Leads(B, y, j, p) /\ ~(y = x /\ j = i)
      /\ \A y, j, p : Leads(B, y, j, p) => Leads(L, y, j, p) \/ (y = x /\ j = i /\ p = q)
  BY <1>5, GrownFacts
<1>7. m[big[x]].kind = "dir" /\ AsTable(m[big[x]]) = t
  BY DEF Table, AsTable
<1>8. \A r \in Paths : r # q => Node(m, r) = Node(d, r)
  <2>1. \A y, j, r : r # q /\ Leads(Listing(d, big), y, j, r) =>
          /\ Listing(m, at)[y][j] = Listing(d, big)[y][j]
          /\ ToSet(ChainOf(large, Listing(d, big), y, j)) \cap ToSet(s) = {}
    BY <1>3, <1>6 DEF Leads, B, L
  <2>2. \A y, j, r : r # q => (Leads(Listing(d, big), y, j, r) <=> Leads(Listing(m, at), y, j, r))
    BY <1>6 DEF B, L
  <2>3. Alike(V, d, m, large, big, at, {x}, ToSet(s), {q})
    BY <1>2, <1>3, <1>4, <1>5, <1>7, <2>1, <2>2 DEF Alike, L
  <2> QED
    BY <2>3, OthersKept
<1>9. q \in Paths => Node(m, q) = Absent
  BY <1>2, <1>5, NodeFacts DEF L
<1>10. ASSUME AsFAT(m[FAT_CLUSTER_NUMBER]) = map
       PROVE  Sound(m, map, at)
  <2>1. Allotted(map, L)
    BY <1>2, <1>3, <1>5, AllottedSmaller
  <2>2. ASSUME NEW y \in DOMAIN at
        PROVE  m[at[y]].kind = "dir" /\ OwnRow(AsTable(m[at[y]]))
    <3>1. y \in DOMAIN big /\ at[y] = big[y] /\ y # q
      BY <1>5
    <3>2. CASE y = x
      <4>1. AsTable(d[big[x]]) \in Tables
        BY <1>2, <1>3, ReadsAs DEF Disks
      <4>2. 0 # i /\ 0 \in Positions
        BY <1>3, SizeFacts DEF Rows
      <4>3. t[0] = AsTable(d[big[x]])[0]
        BY <1>2, <4>1, <4>2 DEF Tables
      <4>4. OwnRow(AsTable(d[big[x]]))
        BY <1>2, <1>3 DEF Seated
      <4>5. OwnRow(AsTable(m[big[x]]))
        BY <1>7, <4>3, <4>4 DEF OwnRow
      <4>6. m[at[y]].kind = "dir"
        BY <1>7, <3>1, <3>2
      <4> QED
        BY <3>1, <3>2, <4>5, <4>6
    <3>3. CASE y # x
      BY <1>2, <1>4, <3>1, <3>3 DEF Seated
    <3> QED
      BY <3>2, <3>3
  <2>3. \A y, j : Live(L, y, j) => L[y][j].attribute = AttributeOf(L[y][j].filesize)
    BY <1>2, <1>6 DEF Seated
  <2> QED
    BY <1>4, <1>5, <2>1, <2>2, <2>3 DEF Sound, Seated, L
<1> QED
  BY <1>1, <1>8, <1>9, <1>10

(***************************************************************************)
(* The folders that are left stay where they are.                          *)
(***************************************************************************)
LEMMA RemovalKeeps ==
  ASSUME NEW V, NEW d, NEW large, NEW big, NEW x, NEW i, NEW q, NEW s, NEW map, NEW t,
         Deletion(V, d, large, big, x, i, q, s, map, t),
         NEW m, Removing(V, d, m, large, big, x, s, map), m[big[x]] = Table(t),
         NEW at, at = Smaller(big, q)
  PROVE  \A y \in DOMAIN at : KeepsPlace(d, m, at, y)
<1>1. /\ d \in Disks(V) /\ Sound(d, large, big)
      /\ t = [AsTable(d[big[x]]) EXCEPT ![i] = EmptyEntry]
  BY DEF Deletion
<1>2. i \in Rows /\ x \in DOMAIN big /\ \A y \in DOMAIN big : Apart(big, y)
  BY DeletionFacts
<1>3. \A y \in DOMAIN big : y = x \/ y = q \/ m[big[y]] = d[big[y]]
  BY RemovingFacts
<1>4. AsTable(m[big[x]])[0] = AsTable(d[big[x]])[0]
  <2>1. AsTable(d[big[x]]) \in Tables
    BY <1>1, <1>2, ReadsAs DEF Disks, Apart
  <2>2. 0 # i /\ 0 \in Positions
    BY <1>2, SizeFacts DEF Rows
  <2>3. AsTable(m[big[x]]) = t
    BY DEF Table, AsTable
  <2> QED
    BY <1>1, <2>1, <2>2, <2>3 DEF Tables
<1>5. \A y \in DOMAIN at : y \in DOMAIN big /\ y # q /\ at[y] = big[y]
  BY DEF Smaller
<1> QED
  BY <1>1, <1>3, <1>4, <1>5, PlacesAre DEF KeepsPlace

-----------------------------------------------------------------------------
(* A disk once some of the writes are made: what the power leaves if it goes  *)
(* after the first k of them.                                                 *)

Begun(d, w, k) == Written(d, SubSeq(w, 1, k))

LEMMA PartFacts ==
  ASSUME NEW S, NEW w \in Seq(S), NEW k \in 0 .. Len(w)
  PROVE  /\ SubSeq(w, 1, k) \in Seq(S) /\ Len(SubSeq(w, 1, k)) = k
         /\ \A j \in 1 .. k : SubSeq(w, 1, k)[j] = w[j] /\ j \in 1 .. Len(w) /\ w[j] \in S
<1>1. PICK n \in Nat : n = Len(w)
  OBVIOUS
<1>2. k \in Nat /\ k <= n
  BY <1>1
<1>3. \A j \in 1 .. k : j \in 1 .. n
  BY <1>2
<1>4. \A j \in 1 .. k : j \in 1 .. Len(w) /\ w[j] \in S
  BY <1>1, <1>3, ElementOfSeq
<1>5. /\ SubSeq(w, 1, k) \in Seq(S)
      /\ Len(SubSeq(w, 1, k)) = IF 1 <= k THEN k - 1 + 1 ELSE 0
      /\ \A i \in 1 .. k - 1 + 1 : SubSeq(w, 1, k)[i] = w[1 + i - 1]
  BY <1>2, <1>4, SubSeqProperties
<1>6. Len(SubSeq(w, 1, k)) = k
  BY <1>2, <1>5
<1>7. \A j \in 1 .. k : SubSeq(w, 1, k)[j] = w[j]
  <2>1. \A j \in 1 .. k : j \in 1 .. k - 1 + 1 /\ 1 + j - 1 = j
    BY <1>2
  <2> QED
    BY <1>5, <2>1
<1> QED
  BY <1>4, <1>5, <1>6, <1>7

(***************************************************************************)
(* A cluster then has what the last write to it so far wrote, or what it   *)
(* had.                                                                    *)
(***************************************************************************)
LEMMA BegunAt ==
  ASSUME NEW S, NEW d, NEW w \in Seq(S), NEW k \in 0 .. Len(w), NEW c \in Clusters
  PROVE  /\ (\A j \in 1 .. k : w[j].cluster # c) => Begun(d, w, k)[c] = d[c]
         /\ Begun(d, w, k)[c] = d[c]
              \/ \E j \in 1 .. k : w[j].cluster = c /\ Begun(d, w, k)[c] = w[j].content
<1>1. PICK p : p = SubSeq(w, 1, k)
  OBVIOUS
<1>2. p \in Seq(S) /\ Len(p) = k /\ k \in Nat /\ \A j \in 1 .. k : p[j] = w[j]
  <2>1. Len(w) \in Nat
    OBVIOUS
  <2> QED
    BY <1>1, <2>1, PartFacts
<1>3. ASSUME \A j \in 1 .. k : w[j].cluster # c
      PROVE  Written(d, p)[c] = d[c]
  <2>1. \A j \in 1 .. k : p[j].cluster # c
    BY <1>2, <1>3
  <2> QED
    BY <1>2, <2>1, WrittenAt
<1>4. Written(d, p)[c] = d[c] \/ \E j \in 1 .. k : w[j].cluster = c /\ Written(d, p)[c] = w[j].content
  <2>1. CASE \A j \in 1 .. k : w[j].cluster # c
    BY <1>3, <2>1
  <2>2. CASE \E j \in 1 .. k : p[j].cluster = c
    <3>1. PICK j \in 1 .. k : p[j].cluster = c /\ LastWrite(p, j)
      BY <1>2, <2>2, WrittenAt
    <3>2. p[j] = w[j]
      BY <1>2
    <3>3. Written(d, p)[c] = p[j].content
      BY <1>2, <3>1, WrittenAt
    <3> QED
      BY <3>1, <3>2, <3>3
  <2> QED
    BY <1>2, <2>1, <2>2
<1> QED
  BY <1>1, <1>2, <1>3, <1>4 DEF Begun

LEMMA BegunLast ==
  ASSUME NEW S, NEW d, NEW w \in Seq(S), NEW k \in 0 .. Len(w), NEW j \in 1 .. k, NEW c \in Clusters,
         w[j].cluster = c, \A l \in j + 1 .. k : w[l].cluster # c
  PROVE  Begun(d, w, k)[c] = w[j].content
<1>1. PICK p : p = SubSeq(w, 1, k)
  OBVIOUS
<1>2. p \in Seq(S) /\ Len(p) = k /\ k \in Nat /\ \A l \in 1 .. k : p[l] = w[l]
  <2>1. Len(w) \in Nat
    OBVIOUS
  <2> QED
    BY <1>1, <2>1, PartFacts
<1>3. \A l \in j + 1 .. k : l \in 1 .. k
  BY <1>2
<1>4. LastWrite(p, j) /\ p[j] = w[j]
  BY <1>2, <1>3 DEF LastWrite
<1>5. Written(d, p)[c] = w[j].content
  BY <1>2, <1>4, WrittenAt
<1> QED
  BY <1>1, <1>5 DEF Begun

LEMMA BegunTyped ==
  ASSUME NEW V, NEW d \in Disks(V), NEW w \in Seq(Writes(V)), NEW k \in 0 .. Len(w)
  PROVE  Begun(d, w, k) \in Disks(V)
<1>1. ASSUME NEW c \in Clusters
      PROVE  Begun(d, w, k)[c] \in HeldContents(V)
  <2>1. d[c] \in HeldContents(V)
    BY DEF Disks
  <2>2. \A j \in 1 .. k : w[j] \in Writes(V)
    BY PartFacts
  <2>3. \A j \in 1 .. k : w[j].content \in HeldContents(V)
    BY <2>2 DEF Writes
  <2>4. Begun(d, w, k)[c] = d[c]
          \/ \E j \in 1 .. k : w[j].cluster = c /\ Begun(d, w, k)[c] = w[j].content
    BY BegunAt
  <2> QED
    BY <2>1, <2>3, <2>4
<1>2. PICK m : m = Begun(d, w, k)
  OBVIOUS
<1>3. m = [c \in Clusters |-> m[c]]
  BY <1>2 DEF Begun, Written
<1>4. m \in [Clusters -> HeldContents(V)]
  BY <1>1, <1>2, <1>3
<1> QED
  BY <1>2, <1>4 DEF Disks

(***************************************************************************)
(* None of them is the disk as it is, all of them the disk as it will be.  *)
(***************************************************************************)
LEMMA BegunEnds ==
  ASSUME NEW V, NEW d \in Disks(V), NEW w \in Seq(Writes(V))
  PROVE  Begun(d, w, 0) = d /\ Begun(d, w, Len(w)) = Written(d, w)
<1>1. SubSeq(w, 1, 0) = <<>>
  BY SubSeqEmpty
<1>2. SubSeq(w, 1, Len(w)) = w
  BY SubSeqFull
<1>3. DOMAIN d = Clusters /\ d = [c \in Clusters |-> d[c]]
  BY DEF Disks
<1> QED
  BY <1>1, <1>2, <1>3, NothingWritten DEF Begun

(***************************************************************************)
(* When one more is made, one less is left.                                *)
(***************************************************************************)
LEMMA BegunNext ==
  ASSUME NEW V, NEW d \in Disks(V), NEW w \in Seq(Writes(V)), w # <<>>, NEW k \in 0 .. Len(Tail(w))
  PROVE  /\ k + 1 \in 0 .. Len(w)
         /\ Begun([d EXCEPT ![Head(w).cluster] = Head(w).content], Tail(w), k) = Begun(d, w, k + 1)
<1>1. PICK n \in Nat : n = Len(w) /\ n > 0
  BY EmptySeq
<1>2. Len(Tail(w)) = n - 1
  BY <1>1, HeadTailProperties
<1>3. k + 1 \in 1 .. n /\ 1 \in 1 .. n /\ k + 1 \in 0 .. n
  BY <1>1, <1>2
<1>4. PICK p : p = SubSeq(w, 1, k + 1)
  OBVIOUS
<1>5. Head(p) = w[1] /\ Tail(p) = SubSeq(w, 2, k + 1)
  <2>1. Head(SubSeq(w, 1, k + 1)) = w[1] /\ Tail(SubSeq(w, 1, k + 1)) = SubSeq(w, 1 + 1, k + 1)
    BY <1>1, <1>3, HeadTailOfSubSeq
  <2> QED
    BY <1>4, <2>1
<1>6. p \in Seq(Writes(V)) /\ Len(p) = k + 1 /\ p # <<>>
  <2>1. p \in Seq(Writes(V)) /\ Len(p) = k + 1
    BY <1>1, <1>3, <1>4, PartFacts
  <2> QED
    BY <1>3, <2>1
<1>7. Tail(p) = SubSeq(Tail(w), 1, k)
  <2>1. /\ SubSeq(Tail(w), 1, k) \in Seq(Writes(V)) /\ Len(SubSeq(Tail(w), 1, k)) = k
        /\ \A j \in 1 .. k : SubSeq(Tail(w), 1, k)[j] = Tail(w)[j]
        /\ \A j \in 1 .. k : Tail(w)[j] = w[j + 1]
    <3>1. Tail(w) \in Seq(Writes(V)) /\ \A j \in 1 .. Len(Tail(w)) : Tail(w)[j] = w[j + 1]
      BY HeadTailProperties
    <3>2. /\ SubSeq(Tail(w), 1, k) \in Seq(Writes(V)) /\ Len(SubSeq(Tail(w), 1, k)) = k
          /\ \A j \in 1 .. k : SubSeq(Tail(w), 1, k)[j] = Tail(w)[j] /\ j \in 1 .. Len(Tail(w))
      <4>1. PICK S, u : S = Writes(V) /\ u = Tail(w)
        OBVIOUS
      <4>2. u \in Seq(S) /\ k \in 0 .. Len(u)
        BY <3>1, <4>1
      <4>3. /\ SubSeq(u, 1, k) \in Seq(S) /\ Len(SubSeq(u, 1, k)) = k
            /\ \A j \in 1 .. k : SubSeq(u, 1, k)[j] = u[j] /\ j \in 1 .. Len(u)
        BY <4>2, PartFacts, Zenon
      <4> QED
        BY <4>1, <4>3, Zenon
    <3> QED
      BY <3>1, <3>2
  <2>2. /\ Tail(p) \in Seq(Writes(V)) /\ Len(Tail(p)) = k
        /\ \A j \in 1 .. k : Tail(p)[j] = w[j + 1]
    <3>1. Tail(p) \in Seq(Writes(V)) /\ Len(Tail(p)) = Len(p) - 1
          /\ \A j \in 1 .. Len(Tail(p)) : Tail(p)[j] = p[j + 1]
      BY <1>6, HeadTailProperties
    <3>2. Len(Tail(p)) = k
      BY <1>3, <1>6, <3>1
    <3>3. \A j \in 1 .. k + 1 : p[j] = w[j]
      BY <1>1, <1>3, <1>4, PartFacts
    <3>4. \A j \in 1 .. k : j + 1 \in 1 .. k + 1
      BY <1>3
    <3>5. ASSUME NEW j \in 1 .. k
          PROVE  Tail(p)[j] = w[j + 1]
      <4>1. Tail(p)[j] = p[j + 1]
        BY <3>1, <3>2, Zenon
      <4>2. p[j + 1] = w[j + 1]
        BY <3>3, <3>4, Zenon
      <4> QED
        BY <4>1, <4>2, Zenon
    <3> QED
      BY <3>1, <3>2, <3>5, Zenon
  <2> HIDE <1>4
  <2> QED
    BY <2>1, <2>2, SeqEqual
<1>8. Head(w) = w[1]
  OBVIOUS
<1>9. DOMAIN d = Clusters
  BY DEF Disks
<1>10. Written([d EXCEPT ![Head(p).cluster] = Head(p).content], Tail(p)) = Written(d, p)
  BY <1>6, <1>9, WrittenNext
<1> QED
  BY <1>1, <1>3, <1>4, <1>5, <1>7, <1>8, <1>10 DEF Begun

-----------------------------------------------------------------------------
(* What a call does *)

(***************************************************************************)
(* The writes leave a tree with "node" at path q and all else, the folders *)
(* and what is in them, where it was and as it was; made one by one they   *)
(* disturb no other path, and a folder comes whole.                        *)
(***************************************************************************)
Does(d, w, map, q, node) ==
  /\ \E at : /\ Sound(Written(d, w), map, at)
             /\ \A y \in DOMAIN at : y = q \/ KeepsPlace(d, Written(d, w), at, y)
  /\ \A r \in Paths : Node(Written(d, w), r) = IF r = q THEN node ELSE Node(d, r)
  /\ \A k \in 0 .. Len(w), r \in Paths : r # q => Node(Begun(d, w, k), r) = Node(d, r)
  /\ node = Folder => \A k \in 0 .. Len(w) : Node(Begun(d, w, k), q) \in {Absent, Folder}

\* Each of the writes is one of the creation's, and the folder's table is
\* written when a new folder is there.
InOrder(V, d, map, at, x, name, size, s, large, t, w) ==
  \A k \in 0 .. Len(w) :
    /\ Underway(V, d, Begun(d, w, k), map, at, x, s, large)
    /\ \/ Begun(d, w, k)[at[x]] = d[at[x]]
       \/ /\ InTable(Begun(d, w, k), at, x, name, size, s, t)
          /\ size = 0 => AsFAT(Begun(d, w, k)[FAT_CLUSTER_NUMBER]) = large

LEMMA CreationDoes ==
  ASSUME NEW V, NEW d, NEW map, NEW at, NEW x, NEW name, NEW size, NEW q, NEW s, NEW large, NEW i,
         NEW t, Creation(V, d, map, at, x, name, size, q, s, large, i, t),
         NEW w \in Seq(Writes(V)), InOrder(V, d, map, at, x, name, size, s, large, t, w),
         InTable(Written(d, w), at, x, name, size, s, t),
         AsFAT(Written(d, w)[FAT_CLUSTER_NUMBER]) = large,
         NEW node,
         \/ size = 0 /\ node = Folder
         \/ \E version : /\ size # 0 /\ node = File(version, size)
                         /\ \A k \in 1 .. Len(s) : Written(d, w)[s[k]] = Data(version, k)
  PROVE  Does(d, w, large, q, node)
<1>1. d \in Disks(V) /\ q \in Paths
  BY DEF Creation, CanCreate
<1>2. Len(w) \in 0 .. Len(w) /\ Begun(d, w, Len(w)) = Written(d, w)
  <2>1. Len(w) \in Nat
    OBVIOUS
  <2> QED
    BY <1>1, <2>1, BegunEnds
<1>3. PICK f : f = Written(d, w)
  OBVIOUS
<1>4. Underway(V, d, f, map, at, x, s, large) /\ InTable(f, at, x, name, size, s, t)
      /\ AsFAT(f[FAT_CLUSTER_NUMBER]) = large
  BY <1>2, <1>3 DEF InOrder
<1>5. ASSUME NEW k \in 0 .. Len(w), NEW r \in Paths, r # q
      PROVE  Node(Begun(d, w, k), r) = Node(d, r)
  <2>1. PICK m : m = Begun(d, w, k)
    OBVIOUS
  <2>2. Underway(V, d, m, map, at, x, s, large)
        /\ (m[at[x]] = d[at[x]] \/ InTable(m, at, x, name, size, s, t))
    BY <2>1 DEF InOrder
  <2>3. CASE m[at[x]] = d[at[x]]
    BY <1>5, <2>1, <2>2, <2>3, CreationBefore
  <2>4. CASE InTable(m, at, x, name, size, s, t)
    BY <1>5, <2>1, <2>2, <2>4, CreationAfter
  <2> QED
    BY <2>2, <2>3, <2>4
<1>6. ASSUME size = 0, NEW k \in 0 .. Len(w)
      PROVE  Node(Begun(d, w, k), q) \in {Absent, Folder}
  <2>1. PICK m : m = Begun(d, w, k)
    OBVIOUS
  <2>2. /\ Underway(V, d, m, map, at, x, s, large)
        /\ \/ m[at[x]] = d[at[x]]
           \/ InTable(m, at, x, name, size, s, t) /\ AsFAT(m[FAT_CLUSTER_NUMBER]) = large
    BY <1>6, <2>1 DEF InOrder
  <2>3. CASE m[at[x]] = d[at[x]]
    BY <1>1, <2>1, <2>2, <2>3, CreationBefore
  <2>4. CASE InTable(m, at, x, name, size, s, t) /\ AsFAT(m[FAT_CLUSTER_NUMBER]) = large
    BY <1>6, <2>1, <2>2, <2>4, CreationDone
  <2> QED
    BY <2>2, <2>3, <2>4
<1>7. Sound(f, large, Bigger(at, q, s, size)) /\ Node(f, q) = node
  <2>1. Sound(f, large, Bigger(at, q, s, size))
    BY <1>4, CreationDone
  <2>2. CASE size = 0 /\ node = Folder
    BY <1>4, <2>2, CreationDone
  <2>3. ASSUME NEW version, size # 0, node = File(version, size),
               \A k \in 1 .. Len(s) : f[s[k]] = Data(version, k)
        PROVE  Node(f, q) = node
    BY <1>4, <2>3, CreationDone
  <2> QED
    BY <1>3, <2>1, <2>2, <2>3
<1>8. node = Folder => size = 0
  BY KindsDiffer
<1>9. \A r \in Paths : r # q => Node(f, r) = Node(d, r)
  BY <1>2, <1>3, <1>5
<1>10. PICK big : big = Bigger(at, q, s, size)
  OBVIOUS
<1>11. Sound(f, large, big) /\ \A y \in DOMAIN big : y = q \/ KeepsPlace(d, f, big, y)
  BY <1>4, <1>7, <1>10, CreationKeeps
<1> QED
  BY <1>3, <1>5, <1>6, <1>7, <1>8, <1>9, <1>11 DEF Does

LEMMA CreationTyped ==
  ASSUME NEW V, NEW d, NEW map, NEW at, NEW x, NEW name, NEW size, NEW q, NEW s, NEW large, NEW i,
         NEW t, Creation(V, d, map, at, x, name, size, q, s, large, i, t)
  PROVE  /\ d \in Disks(V) /\ map = AsFAT(d[FAT_CLUSTER_NUMBER])
         /\ at[x] \in Clusters /\ at[x] \in OffFAT /\ at[x] # FAT_CLUSTER_NUMBER /\ at[x] \notin ToSet(s)
         /\ s \in Seq(Clusters) /\ s[1] \in ToSet(s) /\ ToSet(s) \subseteq Clusters
         /\ ToSet(s) \cap {0, 1, 2} = {} /\ FAT_CLUSTER_NUMBER \notin ToSet(s)
         /\ Len(s) = NeedFor(size) /\ Len(s) \in Nat \ {0}
         /\ \A j, k \in 1 .. Len(s) : s[j] = s[k] => j = k
         /\ large \in FATs /\ t \in Tables /\ name \in Names /\ map \in FATs
         /\ FATImage(large) \in HeldContents(V) /\ AsFAT(FATImage(large)) = large
         /\ Table(t) \in HeldContents(V)
<1>1. /\ CanCreate(V, d, map, at, x, name, size) /\ s = NewChain(map, size)
      /\ large = NewMap(map, size) /\ t = NewTable(d, map, at, x, name, size)
  BY DEF Creation
<1>2. d \in Disks(V) /\ map = AsFAT(d[FAT_CLUSTER_NUMBER]) /\ map \in FATs /\ name \in Names /\ x \in DOMAIN at
  BY <1>1 DEF CanCreate
<1>3. /\ s \in Seq(Clusters) /\ Len(s) = NeedFor(size) /\ Len(s) \in Nat \ {0}
      /\ MapGrown(map, large, s) /\ s[1] \in ToSet(s)
      /\ \A y \in DOMAIN at : at[y] \notin ToSet(s)
  BY <1>1, NewChainFacts
<1>4. t \in Tables
  BY <1>1, NewRowFacts
<1>5. at[x] \in Clusters /\ at[x] \notin {0, 1} /\ at[x] \in OffFAT
  <2>1. Shaped(at, Listing(d, at)) /\ Allotted(map, Listing(d, at))
    BY <1>1, SoundTree DEF CanCreate
  <2> QED
    BY <1>2, <2>1, FolderAllocated, ShapedFacts
<1>6. \A j, k \in 1 .. Len(s) : s[j] = s[k] => j = k
  <2>1. NeedFor(size) \in Nat /\ NeedFor(size) <= Cardinality(FreeClusters(map))
    BY <1>1, <1>3 DEF CanCreate
  <2>2. \A j, k \in 1 .. NeedFor(size) : NewChain(map, size)[j] = NewChain(map, size)[k] => j = k
    BY <2>1, AllocationFacts DEF NewChain
  <2> QED
    BY <1>1, <1>3, <2>2
<1>7. large \in FATs
  BY <1>1, <1>2, <1>3, LinkedTyped DEF NewMap
<1> QED
  BY <1>2, <1>3, <1>4, <1>5, <1>6, <1>7, Held DEF MapGrown, FAT_CLUSTER_NUMBER

(***************************************************************************)
(* write of a folder: its table, the FAT, and last the table it is in.     *)
(***************************************************************************)
LEMMA FolderDoes ==
  ASSUME NEW V, NEW d, NEW map, NEW at, NEW x, NEW name, NEW q, NEW s, NEW large, NEW i,
         NEW t, Creation(V, d, map, at, x, name, 0, q, s, large, i, t),
         NEW w \in {FolderWrites(write_cluster(s[1], Table(init_directory_table(name, at[x]))),
                                 write_cluster(FAT_CLUSTER_NUMBER, FATImage(large)),
                                 write_cluster(at[x], Table(t)))}
  PROVE  w \in Seq(Writes(V)) /\ Does(d, w, large, q, Folder)
<1> DEFINE init == Table(init_directory_table(name, at[x]))
           P == at[x]
           c1 == s[1]
<1>1. /\ d \in Disks(V) /\ map = AsFAT(d[FAT_CLUSTER_NUMBER]) /\ name \in Names
      /\ P \in Clusters /\ P \in OffFAT /\ P # FAT_CLUSTER_NUMBER /\ P \notin ToSet(s)
      /\ c1 \in ToSet(s) /\ c1 \in Clusters /\ FAT_CLUSTER_NUMBER \notin ToSet(s)
      /\ FATImage(large) \in HeldContents(V) /\ AsFAT(FATImage(large)) = large
      /\ Table(t) \in HeldContents(V)
  BY CreationTyped
<1>2. init \in HeldContents(V)
  <2>1. init_directory_table(name, P) \in Tables
    BY <1>1, TablesTyped DEF Called
  <2> QED
    BY <2>1, Held
<1>3. FAT_CLUSTER_NUMBER \in Clusters
  BY EmptyTyped
<1> HIDE DEF init, P, c1
<1>4. w = <<write_cluster(c1, init), write_cluster(FAT_CLUSTER_NUMBER, FATImage(large)),
            write_cluster(P, Table(t))>>
  BY DEF FolderWrites, init, P, c1
<1>5. PICK a, b, c : /\ a = write_cluster(c1, init)
                     /\ b = write_cluster(FAT_CLUSTER_NUMBER, FATImage(large))
                     /\ c = write_cluster(P, Table(t))
  OBVIOUS
<1>6. /\ a \in Writes(V) /\ a.cluster = c1 /\ a.content = init
      /\ b \in Writes(V) /\ b.cluster = FAT_CLUSTER_NUMBER /\ b.content = FATImage(large)
      /\ c \in Writes(V) /\ c.cluster = P /\ c.content = Table(t)
  BY <1>1, <1>2, <1>3, <1>5, WriteTyped
<1>7. w \in Seq(Writes(V)) /\ Len(w) = 3 /\ w[1] = a /\ w[2] = b /\ w[3] = c
  BY <1>4, <1>5, <1>6
<1>8. ASSUME NEW k \in 0 .. 3
      PROVE  /\ Underway(V, d, Begun(d, w, k), map, at, x, s, large)
             /\ k <= 2 => Begun(d, w, k)[P] = d[P]
             /\ k = 3 => /\ Begun(d, w, k)[P] = Table(t)
                         /\ Begun(d, w, k)[c1] = init
                         /\ Begun(d, w, k)[FAT_CLUSTER_NUMBER] = FATImage(large)
  <2>1. PICK m : m = Begun(d, w, k)
    OBVIOUS
  <2>2. m \in Disks(V)
    BY <1>1, <1>7, <2>1, BegunTyped
  <2>4. w \in Seq(Writes(V)) /\ k \in 0 .. Len(w) /\ \A j \in 1 .. k : j \in {1, 2, 3}
    BY <1>7
  <2>3. \A z \in Clusters : m[z] = d[z] \/ \E j \in 1 .. k : w[j].cluster = z /\ m[z] = w[j].content
    <3>1. \A z \in Clusters :
            \/ Begun(d, w, k)[z] = d[z]
            \/ \E j \in 1 .. k : w[j].cluster = z /\ Begun(d, w, k)[z] = w[j].content
      BY <2>4, BegunAt
    <3> QED
      BY <2>1, <3>1, Zenon
  <2>5. \A z \in Clusters : z \in ToSet(s) \cup {FAT_CLUSTER_NUMBER, P} \/ m[z] = d[z]
    BY <1>1, <1>6, <1>7, <2>3, <2>4
  <2>6. m[FAT_CLUSTER_NUMBER] = d[FAT_CLUSTER_NUMBER] \/ m[FAT_CLUSTER_NUMBER] = FATImage(large)
    BY <1>1, <1>3, <1>6, <1>7, <2>3, <2>4
  <2>7. Underway(V, d, m, map, at, x, s, large)
    BY <1>1, <2>2, <2>5, <2>6 DEF Underway, P
  <2>8. k <= 2 => m[P] = d[P]
    <3>1. k <= 2 => \A j \in 1 .. k : j \in {1, 2}
      OBVIOUS
    <3> QED
      BY <1>1, <1>6, <1>7, <2>3, <3>1
  <2>9. ASSUME k = 3
        PROVE  m[P] = Table(t) /\ m[c1] = init /\ m[FAT_CLUSTER_NUMBER] = FATImage(large)
    <3>1. /\ 1 \in 1 .. k /\ 2 \in 1 .. k /\ 3 \in 1 .. k
          /\ \A l \in 3 + 1 .. k : FALSE
          /\ \A l \in 2 + 1 .. k : l = 3
          /\ \A l \in 1 + 1 .. k : l = 2 \/ l = 3
      BY <2>9
    <3>2. \A z \in Clusters, j \in 1 .. k :
            w[j].cluster = z /\ (\A l \in j + 1 .. k : w[l].cluster # z) => m[z] = w[j].content
      <4>1. w \in Seq(Writes(V)) /\ k \in 0 .. Len(w)
        BY <1>7, <2>4
      <4>2. ASSUME NEW z \in Clusters, NEW j \in 1 .. k, w[j].cluster = z,
                   \A l \in j + 1 .. k : w[l].cluster # z
            PROVE  Begun(d, w, k)[z] = w[j].content
        BY <4>1, <4>2, BegunLast, SMTT(30)
      <4> QED
        BY <2>1, <4>2, Zenon
    <3>3. m[P] = Table(t)
      BY <1>1, <1>6, <1>7, <3>1, <3>2
    <3>4. m[c1] = init
      BY <1>1, <1>6, <1>7, <3>1, <3>2
    <3>5. m[FAT_CLUSTER_NUMBER] = FATImage(large)
      BY <1>1, <1>3, <1>6, <1>7, <3>1, <3>2
    <3> QED
      BY <3>3, <3>4, <3>5
  <2> QED
    BY <2>1, <2>7, <2>8, <2>9
<1>9. ASSUME NEW k \in 0 .. Len(w)
      PROVE  /\ Underway(V, d, Begun(d, w, k), map, at, x, s, large)
             /\ \/ Begun(d, w, k)[at[x]] = d[at[x]]
                \/ /\ InTable(Begun(d, w, k), at, x, name, 0, s, t)
                   /\ AsFAT(Begun(d, w, k)[FAT_CLUSTER_NUMBER]) = large
  <2>1. k \in 0 .. 3 /\ (k <= 2 \/ k = 3)
    BY <1>7
  <2> QED
    BY <1>1, <1>8, <2>1 DEF InTable, P, c1, init
<1>10. InOrder(V, d, map, at, x, name, 0, s, large, t, w)
  BY <1>9 DEF InOrder
<1>11. InTable(Written(d, w), at, x, name, 0, s, t)
       /\ AsFAT(Written(d, w)[FAT_CLUSTER_NUMBER]) = large
  <2>1. Written(d, w) = Begun(d, w, 3)
    BY <1>1, <1>7, BegunEnds
  <2> QED
    BY <1>1, <1>8, <2>1 DEF InTable, P, c1, init
<1>12. Does(d, w, large, q, Folder)
  BY <1>7, <1>10, <1>11, CreationDoes
<1> QED
  BY <1>7, <1>12

\* The writes of a file's clusters.
FileParts(s, version) ==
  [k \in 1 .. 2 * Len(s) |->
     LET part == (k + 1) \div 2 IN
     write_cluster(s[part], IF k % 2 = 1 THEN Blank ELSE Data(version, part))]

\* Each of the n clusters last with its part of the data.
FillsParts(V, s, version, n, p) ==
  /\ p \in Seq(Writes(V)) /\ Len(p) = 2 * n
  /\ \A j \in 1 .. 2 * n : p[j].cluster \in ToSet(s)
  /\ \A k \in 1 .. n : p[2 * k].cluster = s[k] /\ p[2 * k].content = Data(version, k)
  /\ \A k \in 1 .. n : \A j \in 2 * k + 1 .. 2 * n :
       \E h \in 1 .. n : h > k /\ p[j].cluster = s[h]

LEMMA PartsFacts ==
  ASSUME NEW V, NEW s \in Seq(Clusters), Len(s) <= CLUSTER_MAP_SIZE, NEW version \in V,
         NEW n \in Nat, Len(s) = n, NEW p \in {FileParts(s, version)}
  PROVE  FillsParts(V, s, version, n, p)
<1> DEFINE part(k) == (k + 1) \div 2
           what(k) == IF k % 2 = 1 THEN Blank ELSE Data(version, part(k))
           write(k) == write_cluster(s[part(k)], what(k))
<1>1. p = [k \in 1 .. 2 * n |-> write(k)]
  BY DEF FileParts
<1>2. CLUSTER_MAP_SIZE \in Nat /\ n <= CLUSTER_MAP_SIZE /\ 2 * n \in Nat
  BY SizeFacts
<1>3. ASSUME NEW k \in 1 .. 2 * n
      PROVE  part(k) \in 1 .. n
  OBVIOUS
<1>4. \A k \in 1 .. n : s[k] \in Clusters /\ s[k] \in ToSet(s) /\ k \in 1 .. CLUSTER_MAP_SIZE
  BY <1>2 DEF ToSet
<1>5. ASSUME NEW k \in 1 .. n
      PROVE  2 * k \in 1 .. 2 * n /\ part(2 * k) = k /\ (2 * k) % 2 # 1
  OBVIOUS
<1>6. ASSUME NEW k \in 1 .. n, NEW j \in 2 * k + 1 .. 2 * n
      PROVE  j \in 1 .. 2 * n /\ part(j) > k
  OBVIOUS
<1> HIDE DEF part
<1>7. \A k \in 1 .. 2 * n : what(k) \in HeldContents(V)
  BY <1>3, <1>4, Held
<1>8. \A k \in 1 .. n : what(2 * k) = Data(version, k)
  BY <1>5
<1> HIDE DEF what
<1>9. \A k \in 1 .. 2 * n : /\ write(k) \in Writes(V) /\ write(k).cluster = s[part(k)]
                            /\ write(k).content = what(k)
  BY <1>3, <1>4, <1>7, WriteTyped
<1> HIDE DEF write
<1>10. p \in Seq(Writes(V)) /\ Len(p) = 2 * n /\ \A k \in 1 .. 2 * n : p[k] = write(k)
  BY <1>1, <1>2, <1>9
<1>11. \A j \in 1 .. 2 * n : p[j].cluster \in ToSet(s)
  BY <1>3, <1>4, <1>9, <1>10
<1>12. \A k \in 1 .. n : p[2 * k].cluster = s[k] /\ p[2 * k].content = Data(version, k)
  BY <1>5, <1>8, <1>9, <1>10
<1>13. \A k \in 1 .. n : \A j \in 2 * k + 1 .. 2 * n : \E h \in 1 .. n : h > k /\ p[j].cluster = s[h]
  BY <1>3, <1>6, <1>9, <1>10
<1> QED
  BY <1>10, <1>11, <1>12, <1>13 DEF FillsParts

\* a sequence with an element before it and one after it
Enclosed(S, a, p, b, n, w) ==
  /\ w \in Seq(S) /\ Len(w) = n + 2 /\ w[1] = a /\ w[n + 2] = b
  /\ \A j \in 1 .. n : w[j + 1] = p[j]

LEMMA EnclosedFacts ==
  ASSUME NEW S, NEW a \in S, NEW p \in Seq(S), NEW b \in S, NEW w \in {<<a>> \o p \o <<b>>},
         NEW n \in Nat, Len(p) = n
  PROVE  Enclosed(S, a, p, b, n, w)
<1>1. PICK v : v = <<a>> \o p
  OBVIOUS
<1>2. v \in Seq(S) /\ Len(v) = n + 1 /\ v[1] = a /\ \A j \in 1 .. n : v[j + 1] = p[j]
  BY <1>1
<1>3. w = v \o <<b>>
  BY <1>1
<1>4. w \in Seq(S) /\ Len(w) = n + 2 /\ w[n + 2] = b /\ \A j \in 1 .. n + 1 : w[j] = v[j]
  BY <1>2, <1>3
<1>5. 1 \in 1 .. n + 1 /\ \A j \in 1 .. n : j + 1 \in 1 .. n + 1
  OBVIOUS
<1> QED
  BY <1>2, <1>4, <1>5 DEF Enclosed

\* The writes of a file: the table it is in, its clusters, and last the FAT.
FileWrites(parent, t, s, version, map) ==
  <<write_cluster(parent, Table(t))>> \o FileParts(s, version)
    \o <<write_cluster(FAT_CLUSTER_NUMBER, FATImage(map))>>

(***************************************************************************)
(* write of a file.                                                        *)
(***************************************************************************)
LEMMA FileDoes ==
  ASSUME NEW V, NEW d, NEW map, NEW at, NEW x, NEW name, NEW size, NEW q, NEW s, NEW large, NEW i,
         NEW t, Creation(V, d, map, at, x, name, size, q, s, large, i, t), size # 0,
         NEW version \in V,
         NEW w \in {FileWrites(at[x], t, s, version, large)}
  PROVE  w \in Seq(Writes(V)) /\ Does(d, w, large, q, File(version, size))
<1> DEFINE P == at[x]
<1>1. /\ d \in Disks(V) /\ map = AsFAT(d[FAT_CLUSTER_NUMBER]) /\ P \in Clusters
      /\ P # FAT_CLUSTER_NUMBER /\ P \notin ToSet(s) /\ FAT_CLUSTER_NUMBER \notin ToSet(s)
      /\ s \in Seq(Clusters) /\ Len(s) = NeedFor(size) /\ Len(s) \in Nat \ {0}
      /\ \A j, k \in 1 .. Len(s) : s[j] = s[k] => j = k
      /\ FATImage(large) \in HeldContents(V) /\ AsFAT(FATImage(large)) = large
      /\ Table(t) \in HeldContents(V)
  BY CreationTyped
<1>2. PICK n \in Nat : n = Len(s) /\ n > 0
  BY <1>1
<1>3. n <= CLUSTER_MAP_SIZE
  <2>1. Len(s) <= Cardinality(FreeClusters(map))
    BY <1>1 DEF Creation, CanCreate
  <2> QED
    BY <1>2, <2>1, FreeBound, FreeFacts, SizeFacts
<1>4. FAT_CLUSTER_NUMBER \in Clusters
  BY EmptyTyped
<1> HIDE DEF P
<1>5. PICK a, b, p : /\ a = write_cluster(P, Table(t))
                     /\ b = write_cluster(FAT_CLUSTER_NUMBER, FATImage(large))
                     /\ p = FileParts(s, version)
  OBVIOUS
<1>6. /\ a \in Writes(V) /\ a.cluster = P /\ a.content = Table(t)
      /\ b \in Writes(V) /\ b.cluster = FAT_CLUSTER_NUMBER /\ b.content = FATImage(large)
  BY <1>1, <1>4, <1>5, WriteTyped
<1>7. /\ p \in Seq(Writes(V)) /\ Len(p) = 2 * n
      /\ \A j \in 1 .. 2 * n : p[j].cluster \in ToSet(s)
      /\ \A k \in 1 .. n : p[2 * k].cluster = s[k] /\ p[2 * k].content = Data(version, k)
      /\ \A k \in 1 .. n : \A j \in 2 * k + 1 .. 2 * n :
           \E h \in 1 .. n : h > k /\ p[j].cluster = s[h]
  <2>1. Len(s) = n /\ Len(s) <= CLUSTER_MAP_SIZE /\ s \in Seq(Clusters) /\ p \in {FileParts(s, version)}
    BY <1>1, <1>2, <1>3, <1>5
  <2>2. FillsParts(V, s, version, n, p)
    BY <2>1, PartsFacts
  <2> QED
    BY <2>2 DEF FillsParts
<1>8. PICK N \in Nat : N = 2 * n /\ N > 0
  BY <1>2
<1>9. /\ w \in Seq(Writes(V)) /\ Len(w) = N + 2 /\ w[1] = a /\ w[N + 2] = b
      /\ \A j \in 1 .. N : w[j + 1] = p[j]
  <2>1. w \in {<<a>> \o p \o <<b>>}
    BY <1>5 DEF P, FileWrites
  <2>2. a \in Writes(V) /\ b \in Writes(V) /\ p \in Seq(Writes(V)) /\ Len(p) = N
    BY <1>6, <1>7, <1>8
  <2>3. Enclosed(Writes(V), a, p, b, N, w)
    BY <2>1, <2>2, EnclosedFacts
  <2> QED
    BY <2>3 DEF Enclosed
<1>10. /\ w[1].cluster = P /\ w[1].content = Table(t)
       /\ w[N + 2].cluster = FAT_CLUSTER_NUMBER /\ w[N + 2].content = FATImage(large)
       /\ \A j \in 2 .. N + 1 : w[j].cluster \in ToSet(s)
  <2>1. ASSUME NEW j \in 2 .. N + 1
        PROVE  w[j].cluster \in ToSet(s)
    <3>1. j - 1 \in 1 .. N /\ j - 1 + 1 = j
      OBVIOUS
    <3>2. w[j] = p[j - 1]
      BY <1>9, <3>1
    <3> QED
      BY <1>7, <1>8, <3>1, <3>2
  <2> QED
    BY <1>6, <1>9, <2>1
<1>11. ASSUME NEW k \in 1 .. n
       PROVE  /\ 2 * k + 1 \in 1 .. N + 2 /\ w[2 * k + 1].cluster = s[k]
              /\ w[2 * k + 1].content = Data(version, k)
              /\ \A l \in 2 * k + 1 + 1 .. N + 2 : w[l].cluster # s[k]
  <2>1. 2 * k \in 1 .. N /\ 2 * k + 1 \in 1 .. N + 2
    BY <1>8
  <2>2. w[2 * k + 1] = p[2 * k]
    BY <1>9, <2>1
  <2>3. s[k] \in ToSet(s)
    BY <1>2 DEF ToSet
  <2>4. ASSUME NEW l \in 2 * k + 1 + 1 .. N + 2
        PROVE  w[l].cluster # s[k]
    <3>1. CASE l = N + 2
      BY <1>1, <1>10, <2>3, <3>1
    <3>2. CASE l # N + 2
      <4>1. l - 1 \in 2 * k + 1 .. 2 * n /\ l - 1 \in 1 .. N /\ l - 1 + 1 = l
        BY <1>8, <3>2
      <4>2. PICK h \in 1 .. n : h > k /\ p[l - 1].cluster = s[h]
        BY <1>7, <4>1
      <4>3. w[l] = p[l - 1]
        BY <1>9, <4>1
      <4>4. s[h] # s[k]
        BY <1>1, <1>2, <4>2
      <4> QED
        BY <4>2, <4>3, <4>4
    <3> QED
      BY <3>1, <3>2
  <2> QED
    BY <1>7, <2>1, <2>2, <2>4
<1>12. ASSUME NEW k \in 0 .. N + 2
       PROVE  /\ Underway(V, d, Begun(d, w, k), map, at, x, s, large)
              /\ Begun(d, w, k)[P] = d[P] \/ Begun(d, w, k)[P] = Table(t)
  <2>1. PICK m : m = Begun(d, w, k)
    OBVIOUS
  <2>2. k \in 0 .. Len(w) /\ w \in Seq(Writes(V)) /\ \A j \in 1 .. k : j = 1 \/ j = N + 2 \/ j \in 2 .. N + 1
    BY <1>9
  <2>3. \A z \in Clusters : m[z] = d[z] \/ \E j \in 1 .. k : w[j].cluster = z /\ m[z] = w[j].content
    <3>1. \A z \in Clusters :
            \/ Begun(d, w, k)[z] = d[z]
            \/ \E j \in 1 .. k : w[j].cluster = z /\ Begun(d, w, k)[z] = w[j].content
      BY <2>2, BegunAt
    <3> QED
      BY <2>1, <3>1, Zenon
  <2>4. m \in Disks(V)
    BY <1>1, <2>1, <2>2, BegunTyped
  <2>5. \A z \in Clusters : z \in ToSet(s) \cup {FAT_CLUSTER_NUMBER, P} \/ m[z] = d[z]
    BY <1>10, <2>2, <2>3
  <2>6. m[FAT_CLUSTER_NUMBER] = d[FAT_CLUSTER_NUMBER] \/ m[FAT_CLUSTER_NUMBER] = FATImage(large)
    BY <1>1, <1>4, <1>10, <2>2, <2>3
  <2>7. m[P] = d[P] \/ m[P] = Table(t)
    <3>1. CASE m[P] = d[P]
      BY <3>1
    <3>2. ASSUME NEW j \in 1 .. k, w[j].cluster = P, m[P] = w[j].content
          PROVE  m[P] = Table(t)
      <4>1. w[N + 2].cluster # P /\ \A h \in 2 .. N + 1 : w[h].cluster # P
        BY <1>1, <1>10
      <4>2. j = 1
        BY <2>2, <3>2, <4>1
      <4> QED
        BY <1>10, <3>2, <4>2
    <3> QED
      BY <1>1, <2>3, <3>1, <3>2
  <2>8. Underway(V, d, m, map, at, x, s, large)
    BY <1>1, <2>4, <2>5, <2>6 DEF Underway, P
  <2> QED
    BY <2>1, <2>7, <2>8
<1>13. InOrder(V, d, map, at, x, name, size, s, large, t, w)
  <2>1. ASSUME NEW k \in 0 .. Len(w)
        PROVE  /\ Underway(V, d, Begun(d, w, k), map, at, x, s, large)
               /\ \/ Begun(d, w, k)[at[x]] = d[at[x]]
                  \/ InTable(Begun(d, w, k), at, x, name, size, s, t)
    BY <1>9, <1>12 DEF InTable, P
  <2> QED
    BY <2>1 DEF InOrder
<1>14. PICK f : f = Written(d, w)
  OBVIOUS
<1>15. /\ f[P] = Table(t) /\ f[FAT_CLUSTER_NUMBER] = FATImage(large)
       /\ \A k \in 1 .. n : f[s[k]] = Data(version, k)
  <2>1. f = Begun(d, w, Len(w)) /\ Len(w) \in 0 .. Len(w) /\ Len(w) = N + 2
    BY <1>1, <1>9, <1>14, BegunEnds
  <2>2. ASSUME NEW j \in 1 .. N + 2, NEW c \in Clusters, w[j].cluster = c,
               \A l \in j + 1 .. N + 2 : w[l].cluster # c
        PROVE  f[c] = w[j].content
    <3>1. PICK K \in 0 .. Len(w) : K = N + 2
      BY <2>1
    <3>2. j \in 1 .. K /\ \A l \in j + 1 .. K : w[l].cluster # c
      BY <2>2, <3>1
    <3>3. w \in Seq(Writes(V)) /\ w[j].cluster = c
      BY <1>9, <2>2
    <3>4. Begun(d, w, K)[c] = w[j].content
      BY <3>2, <3>3, BegunLast
    <3> QED
      BY <2>1, <3>1, <3>4
  <2>3. f[P] = Table(t)
    <3>1. 1 \in 1 .. N + 2 /\ \A l \in 1 + 1 .. N + 2 : l = N + 2 \/ l \in 2 .. N + 1
      OBVIOUS
    <3>2. \A l \in 1 + 1 .. N + 2 : w[l].cluster # P
      BY <1>1, <1>10, <3>1
    <3> QED
      BY <1>1, <1>10, <2>2, <3>1, <3>2
  <2>4. f[FAT_CLUSTER_NUMBER] = FATImage(large)
    <3>1. N + 2 \in 1 .. N + 2 /\ \A l \in N + 2 + 1 .. N + 2 : FALSE
      OBVIOUS
    <3> QED
      BY <1>4, <1>10, <2>2, <3>1
  <2>5. ASSUME NEW k \in 1 .. n
        PROVE  f[s[k]] = Data(version, k)
    <3>1. s[k] \in Clusters
      BY <1>1, <1>2, ElementOfSeq
    <3> QED
      BY <1>11, <2>2, <3>1
  <2> QED
    BY <2>3, <2>4, <2>5
<1>16. InTable(f, at, x, name, size, s, t) /\ AsFAT(f[FAT_CLUSTER_NUMBER]) = large
  BY <1>1, <1>15 DEF InTable, P
<1>17. Does(d, w, large, q, File(version, size))
  <2>1. \A k \in 1 .. Len(s) : Written(d, w)[s[k]] = Data(version, k)
    BY <1>2, <1>14, <1>15
  <2>2. InTable(Written(d, w), at, x, name, size, s, t)
        /\ AsFAT(Written(d, w)[FAT_CLUSTER_NUMBER]) = large
    BY <1>14, <1>16
  <2>3. PICK node : node = File(version, size)
    OBVIOUS
  <2>4. \E v : /\ size # 0 /\ node = File(v, size)
               /\ \A k \in 1 .. Len(s) : Written(d, w)[s[k]] = Data(v, k)
    BY <2>1, <2>3
  <2>5. Does(d, w, large, q, node)
    BY <1>9, <1>13, <2>2, <2>4, CreationDoes
  <2> QED
    BY <2>3, <2>5
<1> QED
  BY <1>9, <1>17

\* a sequence with two elements after it
Followed(S, p, b, c, n, w) ==
  /\ w \in Seq(S) /\ Len(w) = n + 2 /\ w[n + 1] = b /\ w[n + 2] = c
  /\ \A j \in 1 .. n : w[j] = p[j]

LEMMA FollowedFacts ==
  ASSUME NEW S, NEW p \in Seq(S), NEW b \in S, NEW c \in S, NEW w \in {p \o <<b, c>>},
         NEW n \in Nat, Len(p) = n
  PROVE  Followed(S, p, b, c, n, w)
<1>1. PICK v : v = <<b, c>>
  OBVIOUS
<1>2. v \in Seq(S) /\ Len(v) = 2 /\ v[1] = b /\ v[2] = c
  BY <1>1
<1>3. w = p \o v
  BY <1>1
<1> HIDE <1>1
<1>4. w \in Seq(S) /\ Len(w) = n + 2
  BY <1>2, <1>3
<1>5. \A j \in 1 .. n : w[j] = p[j]
  BY <1>2, <1>3
<1>6. w[n + 1] = v[1] /\ w[n + 2] = v[2]
  <2>1. n + 1 \in 1 .. n + 2 /\ n + 2 \in 1 .. n + 2 /\ n + 1 - n = 1 /\ n + 2 - n = 2
        /\ ~(n + 1 <= n) /\ ~(n + 2 <= n)
    OBVIOUS
  <2>2. \A j \in 1 .. n + 2 : w[j] = IF j <= n THEN p[j] ELSE v[j - n]
    BY <1>2, <1>3
  <2> QED
    BY <2>1, <2>2
<1> QED
  BY <1>2, <1>4, <1>5, <1>6 DEF Followed

\* The writes that blank a chain.
Blanks(s) == [k \in 1 .. Len(s) |-> write_cluster(s[k], Blank)]

(***************************************************************************)
(* delete: the chain's clusters, the FAT, and last the table it is in.     *)
(***************************************************************************)
LEMMA DeletionDoes ==
  ASSUME NEW V, NEW d, NEW large, NEW big, NEW x, NEW i, NEW q, NEW s, NEW map, NEW t,
         Deletion(V, d, large, big, x, i, q, s, map, t),
         NEW w \in {Blanks(s) \o <<write_cluster(FAT_CLUSTER_NUMBER, FATImage(map)),
                                   write_cluster(big[x], Table(t))>>}
  PROVE  w \in Seq(Writes(V)) /\ Does(d, w, map, q, Absent)
<1> DEFINE P == big[x]
<1>1. /\ d \in Disks(V) /\ large = AsFAT(d[FAT_CLUSTER_NUMBER]) /\ large \in FATs
      /\ map = Freed(large, s) /\ t = [AsTable(d[P]) EXCEPT ![i] = EmptyEntry]
  BY DEF Deletion
<1>2. /\ q \in Paths /\ x \in DOMAIN big /\ x # q /\ i \in Rows
      /\ s \in Seq(Clusters) /\ MapGrown(map, large, s)
      /\ Apart(big, x) /\ (x = q \/ P \notin ToSet(s))
  BY DeletionFacts
<1> HIDE DEF P
<1>3. /\ P \in Clusters /\ P # FAT_CLUSTER_NUMBER /\ P \notin ToSet(s)
      /\ FAT_CLUSTER_NUMBER \in Clusters /\ FAT_CLUSTER_NUMBER \notin ToSet(s)
      /\ ToSet(s) \subseteq Clusters
  BY <1>2, EmptyTyped DEF Apart, MapGrown, P, FAT_CLUSTER_NUMBER
<1>4. map \in FATs /\ FATImage(map) \in HeldContents(V) /\ AsFAT(FATImage(map)) = map
  BY <1>1, <1>2, LinkedTyped, Held
<1>5. Table(t) \in HeldContents(V)
  <2>1. AsTable(d[P]) \in Tables
    BY <1>1, <1>3, ReadsAs DEF Disks
  <2>2. t \in Tables
    <3>1. PICK u \in Tables : u = AsTable(d[P])
      BY <2>1
    <3>2. t = [u EXCEPT ![i] = EmptyEntry]
      BY <1>1, <3>1
    <3> QED
      BY <3>2, EmptyTyped DEF Tables
  <2> QED
    BY <2>2, Held
<1>6. PICK b, c, p : /\ b = write_cluster(FAT_CLUSTER_NUMBER, FATImage(map))
                     /\ c = write_cluster(P, Table(t))
                     /\ p = Blanks(s)
  OBVIOUS
<1>7. /\ b \in Writes(V) /\ b.cluster = FAT_CLUSTER_NUMBER /\ b.content = FATImage(map)
      /\ c \in Writes(V) /\ c.cluster = P /\ c.content = Table(t)
  BY <1>3, <1>4, <1>5, <1>6, WriteTyped
<1>8. PICK n \in Nat : n = Len(s)
  BY <1>2
<1>9. /\ p \in Seq(Writes(V)) /\ Len(p) = n
      /\ \A j \in 1 .. n : p[j].cluster \in ToSet(s) /\ p[j].content = Blank
  <2>1. \A k \in 1 .. n : s[k] \in Clusters /\ s[k] \in ToSet(s)
    BY <1>2, <1>8, ElementOfSeq, SMTT(30) DEF ToSet
  <2>2. p = [k \in 1 .. n |-> write_cluster(s[k], Blank)]
    BY <1>6, <1>8 DEF Blanks
  <2>3. \A k \in 1 .. n : /\ write_cluster(s[k], Blank) \in Writes(V)
                          /\ write_cluster(s[k], Blank).cluster = s[k]
                          /\ write_cluster(s[k], Blank).content = Blank
    BY <2>1, Held, WriteTyped
  <2> DEFINE write(k) == write_cluster(s[k], Blank)
  <2>4. p = [k \in 1 .. n |-> write(k)]
    BY <2>2
  <2>5. \A k \in 1 .. n : write(k) \in Writes(V) /\ write(k).cluster = s[k] /\ write(k).content = Blank
    BY <2>3
  <2> HIDE DEF write
  <2>6. p \in Seq(Writes(V)) /\ Len(p) = n /\ \A k \in 1 .. n : p[k] = write(k)
    BY <2>4, <2>5
  <2> QED
    BY <2>1, <2>5, <2>6
<1>10. /\ w \in Seq(Writes(V)) /\ Len(w) = n + 2 /\ w[n + 1] = b /\ w[n + 2] = c
       /\ \A j \in 1 .. n : w[j] = p[j]
  <2>1. w \in {p \o <<b, c>>}
    BY <1>6 DEF P
  <2>2. Followed(Writes(V), p, b, c, n, w)
    BY <1>7, <1>9, <2>1, FollowedFacts
  <2> QED
    BY <2>2 DEF Followed
<1>11. ASSUME NEW k \in 0 .. n + 2
       PROVE  /\ Removing(V, d, Begun(d, w, k), large, big, x, s, map)
              /\ Begun(d, w, k)[P] = d[P] \/ Begun(d, w, k)[P] = Table(t)
  <2>1. PICK m : m = Begun(d, w, k)
    OBVIOUS
  <2>2. k \in 0 .. Len(w) /\ w \in Seq(Writes(V)) /\ \A j \in 1 .. k : j \in 1 .. n \/ j = n + 1 \/ j = n + 2
    BY <1>10
  <2>3. ASSUME NEW z \in Clusters
        PROVE  \/ m[z] = d[z]
               \/ z \in ToSet(s) /\ m[z] = Blank
               \/ z = FAT_CLUSTER_NUMBER /\ m[z] = FATImage(map)
               \/ z = P /\ m[z] = Table(t)
    <3>1. m[z] = d[z] \/ \E j \in 1 .. k : w[j].cluster = z /\ m[z] = w[j].content
      BY <2>1, <2>2, BegunAt, SMTT(30)
    <3>2. ASSUME NEW j \in 1 .. k, w[j].cluster = z, m[z] = w[j].content
          PROVE  \/ z \in ToSet(s) /\ m[z] = Blank
                 \/ z = FAT_CLUSTER_NUMBER /\ m[z] = FATImage(map)
                 \/ z = P /\ m[z] = Table(t)
      <4>1. CASE j \in 1 .. n
        BY <1>9, <1>10, <3>2, <4>1
      <4>2. CASE j = n + 1
        BY <1>7, <1>10, <3>2, <4>2
      <4>3. CASE j = n + 2
        BY <1>7, <1>10, <3>2, <4>3
      <4> QED
        BY <2>2, <4>1, <4>2, <4>3
    <3> QED
      BY <3>1, <3>2
  <2>4. m \in Disks(V)
    BY <1>1, <2>1, <2>2, BegunTyped
  <2>5. AsFAT(m[FAT_CLUSTER_NUMBER]) \in {map, large}
    BY <1>1, <1>3, <1>4, <2>3
  <2>6. m[P] = d[P] \/ m[P] = Table(t)
    BY <1>3, <2>3
  <2>7. Removing(V, d, m, large, big, x, s, map)
    BY <2>3, <2>4, <2>5 DEF Removing, P
  <2> QED
    BY <2>1, <2>6, <2>7
<1>12. PICK f : f = Written(d, w)
  OBVIOUS
<1>13. f = Begun(d, w, Len(w)) /\ Len(w) \in 0 .. Len(w) /\ Len(w) = n + 2
  BY <1>1, <1>10, <1>12, BegunEnds
<1>14. f[P] = Table(t) /\ f[FAT_CLUSTER_NUMBER] = FATImage(map)
  <2>1. PICK K \in 0 .. Len(w) : K = n + 2
    BY <1>13
  <2>2. n + 1 \in 1 .. K /\ n + 2 \in 1 .. K
        /\ (\A l \in n + 1 + 1 .. K : l = n + 2) /\ \A l \in n + 2 + 1 .. K : FALSE
    BY <2>1
  <2>3. w[n + 1].cluster = FAT_CLUSTER_NUMBER /\ w[n + 2].cluster = P
    BY <1>7, <1>10
  <2>4. Begun(d, w, K)[P] = w[n + 2].content
    BY <1>3, <1>10, <2>2, <2>3, BegunLast
  <2>5. \A l \in n + 1 + 1 .. K : w[l].cluster # FAT_CLUSTER_NUMBER
    BY <1>3, <2>2, <2>3
  <2>6. Begun(d, w, K)[FAT_CLUSTER_NUMBER] = w[n + 1].content
    BY <1>3, <1>10, <2>2, <2>3, <2>5, BegunLast, SMTT(30)
  <2> QED
    BY <1>7, <1>10, <1>13, <2>1, <2>4, <2>6
<1>15. ASSUME NEW k \in 0 .. Len(w), NEW r \in Paths, r # q
       PROVE  Node(Begun(d, w, k), r) = Node(d, r)
  <2>1. PICK m : m = Begun(d, w, k)
    OBVIOUS
  <2>2. Removing(V, d, m, large, big, x, s, map) /\ (m[P] = d[P] \/ m[P] = Table(t))
    BY <1>11, <1>13, <2>1
  <2>3. CASE m[P] = d[P]
    BY <1>15, <2>1, <2>2, <2>3, RemovalBefore DEF P
  <2>4. CASE m[P] = Table(t)
    BY <1>15, <2>1, <2>2, <2>4, RemovalAfter DEF P
  <2> QED
    BY <2>2, <2>3, <2>4
<1>16. /\ Sound(f, map, Smaller(big, q))
       /\ \A y \in DOMAIN Smaller(big, q) : KeepsPlace(d, f, Smaller(big, q), y)
       /\ \A r \in Paths : Node(f, r) = IF r = q THEN Absent ELSE Node(d, r)
  <2>1. Removing(V, d, f, large, big, x, s, map)
    BY <1>11, <1>13
  <2>2. f[big[x]] = Table(t) /\ AsFAT(f[FAT_CLUSTER_NUMBER]) = map
    BY <1>4, <1>14 DEF P
  <2>3. \A y \in DOMAIN Smaller(big, q) : KeepsPlace(d, f, Smaller(big, q), y)
    BY <2>1, <2>2, RemovalKeeps
  <2> QED
    BY <2>1, <2>2, <2>3, RemovalAfter
<1>17. Does(d, w, map, q, Absent)
  BY <1>12, <1>15, <1>16, KindsDiffer DEF Does
<1> QED
  BY <1>10, <1>17

\* The tree with nothing in it
Seed == [y \in {<<>>} |-> ROOT_CLUSTER_NUMBER]

LEMMA SeedFacts ==
  ASSUME NEW V, NEW m \in Disks(V), m[BOOT_SECTOR] \in {Blank, Signature},
         m[ROOT_CLUSTER_NUMBER]
           \in {Blank, Table(init_directory_table("root", ROOT_CLUSTER_NUMBER))}
  PROVE  /\ TreeOn(m, Seed) /\ \A x, j : ~Live(Listing(m, Seed), x, j)
         /\ \A r \in Paths : Node(m, r) = Absent
<1> DEFINE L == Listing(m, Seed)
           t == init_directory_table("root", ROOT_CLUSTER_NUMBER)
<1>1. DOMAIN Seed = {<<>>} /\ Seed[<<>>] = ROOT_CLUSTER_NUMBER
  BY DEF Seed
<1>2. ROOT_CLUSTER_NUMBER \in OffFAT \ {0} /\ ROOT_CLUSTER_NUMBER \in Clusters
  BY EmptyTyped DEF ROOT_CLUSTER_NUMBER
<1>3. \A j \in Rows : AsTable(m[ROOT_CLUSTER_NUMBER])[j] = EmptyEntry
  <2>1. ASSUME NEW j \in Rows
        PROVE  ZeroTable[j] = EmptyEntry /\ t[j] = EmptyEntry
    <3>1. j \in Positions /\ j # 0
      BY DEF Rows
    <3> QED
      BY <3>1 DEF ZeroTable, init_directory_table
  <2>2. AsTable(Blank) = ZeroTable /\ AsTable(Table(t)) = t
    BY DEF AsTable, Blank, Table
  <2> HIDE DEF t
  <2>3. m[ROOT_CLUSTER_NUMBER] \in {Blank, Table(t)}
    BY DEF t
  <2> QED
    BY <2>1, <2>2, <2>3
<1>4. DOMAIN L = {<<>>} /\ L[<<>>] \in [Rows -> PointingOff]
      /\ \A j \in Rows : L[<<>>][j] = EmptyEntry
  <2>1. /\ DOMAIN L = DOMAIN Seed
        /\ \A y \in DOMAIN Seed : /\ L[y] \in [Rows -> PointingOff]
                                  /\ \A j \in Rows : L[y][j] = AsTable(m[Seed[y]])[j]
    <3>1. \A y \in DOMAIN Seed : Seed[y] \in Clusters
      BY <1>1, <1>2
    <3> QED
      BY <3>1, ListingTyped
  <2> QED
    BY <1>1, <1>3, <2>1
<1> HIDE DEF L
<1>5. \A x, j : ~Live(L, x, j)
  BY <1>4 DEF Live, EmptyEntry
<1>6. \A x, j, p : ~Leads(L, x, j, p)
  BY <1>5 DEF Leads
<1>7. Shaped(Seed, L)
  BY <1>1, <1>2, <1>4, <1>5, <1>6 DEF Shaped, Vacant
<1>8. AsTable(m[BOOT_SECTOR]) = ZeroTable
  BY DEF AsTable, Blank, Signature
<1>9. TreeOn(m, Seed)
  BY <1>7, <1>8 DEF TreeOn, L
<1>10. \A r \in Paths : Node(m, r) = Absent
  BY <1>6, <1>9, NodeFacts DEF L
<1> QED
  BY <1>5, <1>9, <1>10 DEF L

(***************************************************************************)
(* Formatting a disk with nothing where the root directory will be makes a *)
(* tree with nothing in it, and at no instant shows anything.              *)
(***************************************************************************)
LEMMA FormattingDoes ==
  ASSUME NEW V, NEW d \in Disks(V), Plain(d), NEW w \in {create_fat32}
  PROVE  w \in Seq(Writes(V)) /\ Does(d, w, FormattedFAT, <<>>, Absent)
<1> DEFINE root == Table(init_directory_table("root", ROOT_CLUSTER_NUMBER))
<1>1. root \in HeldContents(V) /\ FATImage(FormattedFAT) \in HeldContents(V)
      /\ Signature \in HeldContents(V) /\ AsFAT(FATImage(FormattedFAT)) = FormattedFAT
  BY FormattedTyped, Held
<1>2. BOOT_SECTOR \in Clusters /\ FAT_CLUSTER_NUMBER \in Clusters /\ ROOT_CLUSTER_NUMBER \in Clusters
  BY SizeFacts DEF BOOT_SECTOR, FAT_CLUSTER_NUMBER, ROOT_CLUSTER_NUMBER
<1> HIDE DEF root
<1>3. PICK a, b, c : /\ a = write_cluster(BOOT_SECTOR, Signature)
                     /\ b = write_cluster(FAT_CLUSTER_NUMBER, FATImage(FormattedFAT))
                     /\ c = write_cluster(ROOT_CLUSTER_NUMBER, root)
  OBVIOUS
<1>4. /\ a \in Writes(V) /\ a.cluster = BOOT_SECTOR /\ a.content = Signature
      /\ b \in Writes(V) /\ b.cluster = FAT_CLUSTER_NUMBER /\ b.content = FATImage(FormattedFAT)
      /\ c \in Writes(V) /\ c.cluster = ROOT_CLUSTER_NUMBER /\ c.content = root
  BY <1>1, <1>2, <1>3, WriteTyped
<1>5. w = <<a, b, c>>
  BY <1>3 DEF create_fat32, root
<1>6. w \in Seq(Writes(V)) /\ Len(w) = 3 /\ w[1] = a /\ w[2] = b /\ w[3] = c
  BY <1>4, <1>5
<1>7. BOOT_SECTOR # FAT_CLUSTER_NUMBER /\ BOOT_SECTOR # ROOT_CLUSTER_NUMBER
      /\ FAT_CLUSTER_NUMBER # ROOT_CLUSTER_NUMBER
  BY DEF BOOT_SECTOR, FAT_CLUSTER_NUMBER, ROOT_CLUSTER_NUMBER
<1>8. ASSUME NEW k \in 0 .. 3
      PROVE  /\ Begun(d, w, k) \in Disks(V)
             /\ Begun(d, w, k)[BOOT_SECTOR] \in {Blank, Signature}
             /\ Begun(d, w, k)[ROOT_CLUSTER_NUMBER] \in {Blank, root}
  <2>1. PICK m : m = Begun(d, w, k)
    OBVIOUS
  <2>2. w \in Seq(Writes(V)) /\ k \in 0 .. Len(w) /\ \A j \in 1 .. k : j \in {1, 2, 3}
    BY <1>6
  <2>3. ASSUME NEW z \in Clusters
        PROVE  m[z] = d[z] \/ \E j \in 1 .. k : w[j].cluster = z /\ m[z] = w[j].content
    BY <2>1, <2>2, BegunAt
  <2>4. m \in Disks(V)
    BY <2>1, <2>2, BegunTyped
  <2>5. m[BOOT_SECTOR] \in {Blank, Signature}
    BY <1>2, <1>4, <1>6, <1>7, <2>2, <2>3 DEF Plain
  <2>6. m[ROOT_CLUSTER_NUMBER] \in {Blank, root}
    BY <1>2, <1>4, <1>6, <1>7, <2>2, <2>3 DEF Plain
  <2> QED
    BY <2>1, <2>4, <2>5, <2>6
<1>9. \A k \in 0 .. 3 : \A r \in Paths : Node(Begun(d, w, k), r) = Absent
  BY <1>8, SeedFacts DEF root
<1>10. Begun(d, w, 0) = d /\ Begun(d, w, 3) = Written(d, w) /\ 0 \in 0 .. 3 /\ 3 \in 0 .. 3
  <2>1. w \in Seq(Writes(V)) /\ Len(w) = 3
    BY <1>6
  <2>2. Begun(d, w, 0) = d /\ Begun(d, w, Len(w)) = Written(d, w)
    BY <2>1, BegunEnds
  <2> QED
    BY <2>1, <2>2
<1>11. PICK f : f = Written(d, w)
  OBVIOUS
<1>12. f[BOOT_SECTOR] = Signature /\ f[ROOT_CLUSTER_NUMBER] = root
  <2>1. PICK K \in 0 .. Len(w) : K = 3
    BY <1>6
  <2>2. 1 \in 1 .. K /\ 3 \in 1 .. K
        /\ (\A l \in 1 + 1 .. K : l = 2 \/ l = 3) /\ \A l \in 3 + 1 .. K : FALSE
    BY <2>1
  <2>3. \A l \in 1 + 1 .. K : w[l].cluster # BOOT_SECTOR
    BY <1>4, <1>6, <1>7, <2>2
  <2>4. w[1].cluster = BOOT_SECTOR /\ w[3].cluster = ROOT_CLUSTER_NUMBER
    BY <1>4, <1>6
  <2>5. Begun(d, w, K)[BOOT_SECTOR] = w[1].content
    <3>1. PICK j \in 1 .. K : j = 1
      BY <2>2
    <3>2. w[j].cluster = BOOT_SECTOR /\ \A l \in j + 1 .. K : w[l].cluster # BOOT_SECTOR
      BY <2>3, <2>4, <3>1
    <3>3. Begun(d, w, K)[BOOT_SECTOR] = w[j].content
      BY <1>2, <1>6, <3>2, BegunLast
    <3> QED
      BY <3>1, <3>3
  <2>6. Begun(d, w, K)[ROOT_CLUSTER_NUMBER] = w[3].content
    BY <1>2, <1>6, <2>2, <2>4, BegunLast
  <2> QED
    BY <1>4, <1>6, <1>10, <1>11, <2>1, <2>5, <2>6
<1>13. Sound(f, FormattedFAT, Seed)
  <2>1. TreeOn(f, Seed) /\ \A x, j : ~Live(Listing(f, Seed), x, j)
    <3>1. f \in Disks(V) /\ f[BOOT_SECTOR] \in {Blank, Signature} /\ f[ROOT_CLUSTER_NUMBER] \in {Blank, root}
      BY <1>8, <1>10, <1>11
    <3> QED
      BY <3>1, SeedFacts DEF root
  <2>2. f[ROOT_CLUSTER_NUMBER].kind = "dir" /\ OwnRow(AsTable(f[ROOT_CLUSTER_NUMBER]))
    <3>1. OwnRow(init_directory_table("root", ROOT_CLUSTER_NUMBER))
      BY SizeFacts DEF OwnRow, init_directory_table, UsedEntry, ZeroTable
    <3> QED
      BY <1>12, <3>1 DEF root, Table, AsTable
  <2>3. DOMAIN Seed = {<<>>} /\ Seed[<<>>] = ROOT_CLUSTER_NUMBER
    BY DEF Seed
  <2>4. Seated(f, Seed, Listing(f, Seed))
    BY <2>1, <2>2, <2>3 DEF Seated
  <2>5. \A y \in Clusters : FormattedFAT[y] # FAT32_FAT_EMPTY_ENTRY <=> y \in {0, 1, 2}
    BY SizeFacts DEF FormattedFAT, ZeroFAT, FAT32_FAT_EMPTY_ENTRY, CLUSTER_0_VALUE,
                     FAT32_FAT_END_OF_FILE
  <2>6. Allotted(FormattedFAT, Listing(f, Seed))
    BY <2>1, <2>5 DEF Allotted
  <2> QED
    BY <1>12, <2>1, <2>4, <2>6 DEF Sound, TreeOn
<1>14. Does(d, w, FormattedFAT, <<>>, Absent)
  <2>1. \A k \in 0 .. Len(w) : k \in 0 .. 3
    BY <1>6
  <2>2. \A r \in Paths : Node(d, r) = Absent /\ Node(f, r) = Absent
    BY <1>9, <1>10, <1>11
  <2>3. \A r \in Paths : Node(Written(d, w), r) = IF r = <<>> THEN Absent ELSE Node(d, r)
    BY <1>11, <2>2
  <2>4. \A k \in 0 .. Len(w), r \in Paths : r # <<>> => Node(Begun(d, w, k), r) = Node(d, r)
    BY <1>9, <2>1, <2>2
  <2>5. \A y \in DOMAIN Seed : y = <<>>
    BY DEF Seed
  <2> QED
    BY <1>11, <1>13, <2>3, <2>4, <2>5, KindsDiffer DEF Does
<1> QED
  BY <1>6, <1>14

(***************************************************************************)
(* A call that is refused does nothing, which is: leave what is there.     *)
(***************************************************************************)
LEMMA NothingDone ==
  ASSUME NEW V, NEW d \in Disks(V), NEW map, NEW at, Sound(d, map, at), NEW q
  PROVE  <<>> \in Seq(Writes(V)) /\ Does(d, <<>>, map, q, Node(d, q))
<1>1. PICK w : w = <<>>
  OBVIOUS
<1>2. w \in Seq(Writes(V)) /\ Len(w) = 0
  BY <1>1
<1>3. Written(d, w) = d
  BY <1>2, BegunEnds, <1>1, NothingWritten DEF Disks
<1>4. \A k \in 0 .. Len(w) : Begun(d, w, k) = d
  <2>1. \A k \in 0 .. Len(w) : k = 0
    BY <1>2
  <2>2. Begun(d, w, 0) = d
    BY <1>2, BegunEnds
  <2> QED
    BY <2>1, <2>2
<1>5. \A y \in DOMAIN at : KeepsPlace(d, d, at, y)
  BY PlacesAre DEF KeepsPlace
<1> QED
  BY <1>1, <1>2, <1>3, <1>4, <1>5 DEF Does

-----------------------------------------------------------------------------
(* The calls.  Between them the disk holds a tree.                            *)

Home(V, at) == Settled(V) /\ Sound(disk, fat, at)

LEMMA HomeFacts ==
  ASSUME NEW V, NEW at, Home(V, at), NEW path \in Paths, IsDirectory(Front(path))
  PROVE  /\ disk \in Disks(V) /\ fat \in FATs /\ fat = AsFAT(disk[FAT_CLUSTER_NUMBER])
         /\ Sound(disk, fat, at) /\ Front(path) \in DOMAIN at
         /\ ParentOf(path) = at[Front(path)]
         /\ Last(path) \in Names /\ Append(Front(path), Last(path)) = path
         /\ fat[ParentOf(path)] # FAT32_FAT_EMPTY_ENTRY
<1>1. /\ disk \in Disks(V) /\ fat \in FATs /\ disk[FAT_CLUSTER_NUMBER] = FATImage(fat)
      /\ Sound(disk, fat, at)
  BY DEF Home, Settled
<1>2. fat = AsFAT(disk[FAT_CLUSTER_NUMBER])
  BY <1>1, Held
<1>3. /\ TreeOn(disk, at) /\ Shaped(at, Listing(disk, at)) /\ Allotted(fat, Listing(disk, at))
  BY <1>1, SoundTree
<1>4. /\ Front(path) \in Paths \cup {<<>>} /\ Last(path) \in Names
      /\ Append(Front(path), Last(path)) = path
  BY PathFacts
<1>5. Front(path) \in DOMAIN at
  <2>1. CASE Front(path) = <<>>
    BY <1>3, <2>1 DEF Shaped
  <2>2. CASE Front(path) # <<>>
    <3>1. Front(path) \in Paths /\ Node(disk, Front(path)) = Folder
      BY <1>4, <2>2 DEF IsDirectory
    <3> QED
      BY <1>1, <1>2, <3>1, FolderNodes
  <2> QED
    BY <2>1, <2>2
<1>6. ParentOf(path) = at[Front(path)]
  <2>1. DirectoryCluster(disk, Front(path)) = PlaceOf(at, Front(path))
    BY <1>1, <1>3, <1>4, FolderClusters
  <2> QED
    BY <1>5, <2>1 DEF ParentOf, PlaceOf
<1>7. fat[at[Front(path)]] # FAT32_FAT_EMPTY_ENTRY
  BY <1>3, <1>5, FolderAllocated
<1> QED
  BY <1>1, <1>2, <1>4, <1>5, <1>6, <1>7

\* A careful write makes a creation possible, if the table has room.
LEMMA CarefulCreates ==
  ASSUME NEW V, NEW at, Home(V, at), NEW path \in Paths, NEW size \in Sizes,
         CarefulWrite(path, NeedFor(size)), NeedFor(size) \in Nat,
         UnusedPositions(AsTable(disk[ParentOf(path)])) # {},
         NEW s \in {NewChain(fat, size)}, NEW large \in {NewMap(fat, size)},
         NEW i \in {NewRow(disk, at, Front(path))},
         NEW t \in {NewTable(disk, fat, at, Front(path), Last(path), size)}
  PROVE  Creation(V, disk, fat, at, Front(path), Last(path), size, path, s, large, i, t)
<1>1. IsDirectory(Front(path)) /\ Matches(AsTable(disk[ParentOf(path)]), Last(path)) = {}
      /\ Cardinality(FreeClusters(fat)) >= NeedFor(size)
  BY DEF CarefulWrite
<1>2. /\ disk \in Disks(V) /\ fat \in FATs /\ fat = AsFAT(disk[FAT_CLUSTER_NUMBER])
      /\ Sound(disk, fat, at) /\ Front(path) \in DOMAIN at
      /\ ParentOf(path) = at[Front(path)]
      /\ Last(path) \in Names /\ Append(Front(path), Last(path)) = path
  BY <1>1, HomeFacts
<1>3. NeedFor(size) <= Cardinality(FreeClusters(fat))
  <2>1. Cardinality(FreeClusters(fat)) \in Nat
    BY FreeFacts
  <2>2. PICK a, b : a = Cardinality(FreeClusters(fat)) /\ b = NeedFor(size)
    OBVIOUS
  <2>3. a >= b /\ a \in Nat /\ b \in Nat
    BY <1>1, <2>1, <2>2
  <2>4. b <= a
    BY <2>3
  <2> QED
    BY <2>2, <2>4
<1>4. CanCreate(V, disk, fat, at, Front(path), Last(path), size)
  BY <1>1, <1>2, <1>3 DEF CanCreate
<1> QED
  BY <1>2, <1>4 DEF Creation

\* An effect's writes reach a disk, and do what is said at a path.
Brings(V, e, q, node) ==
  e.writes \in Seq(Writes(V)) /\ Does(disk, e.writes, e.fat, q, node)

LEMMA RefusedBrings ==
  ASSUME NEW V, NEW at, Home(V, at), NEW q, NEW ret
  PROVE  Brings(V, Refused(ret), q, Node(disk, q))
<1>1. disk \in Disks(V) /\ Sound(disk, fat, at)
  BY DEF Home, Settled
<1>2. <<>> \in Seq(Writes(V)) /\ Does(disk, <<>>, fat, q, Node(disk, q))
  BY <1>1, NothingDone
<1>3. Refused(ret).writes = <<>> /\ Refused(ret).fat = fat
  BY DEF Refused, Effect
<1> QED
  BY <1>2, <1>3, Zenon DEF Brings

(***************************************************************************)
(* mkdir: a careful caller's folder is made.                               *)
(***************************************************************************)
LEMMA FolderCall ==
  ASSUME NEW V, NEW at, Home(V, at), NEW path \in Paths, CarefulWrite(path, 1),
         UnusedPositions(AsTable(disk[ParentOf(path)])) # {},
         NEW e \in {FolderWritten(ParentOf(path), Last(path))}
  PROVE  e.ret = 0 /\ Brings(V, e, path, Folder)
<1> DEFINE x == Front(path)
           name == Last(path)
<1>1. IsDirectory(x)
  BY DEF CarefulWrite
<1>2. ParentOf(path) = at[x] /\ fat[ParentOf(path)] # FAT32_FAT_EMPTY_ENTRY
  BY <1>1, HomeFacts
<1>3. PICK s, large, i, t :
        /\ s = NewChain(fat, 0) /\ large = NewMap(fat, 0)
        /\ i = NewRow(disk, at, x) /\ t = NewTable(disk, fat, at, x, name, 0)
  OBVIOUS
<1>4. NeedFor(0) = 1 /\ 0 \in Sizes
  BY DEF NeedFor, Sizes
<1>5. Creation(V, disk, fat, at, x, name, 0, path, s, large, i, t)
  <2>1. CarefulWrite(path, NeedFor(0)) /\ NeedFor(0) \in Nat
    BY <1>4
  <2> QED
    BY <1>3, <1>4, <2>1, CarefulCreates
<1>6. PICK w : w = FolderWrites(write_cluster(s[1], Table(init_directory_table(name, at[x]))),
                                write_cluster(FAT_CLUSTER_NUMBER, FATImage(large)),
                                write_cluster(at[x], Table(t)))
  OBVIOUS
<1>7. w \in Seq(Writes(V)) /\ Does(disk, w, large, path, Folder)
  <2>1. w \in {FolderWrites(write_cluster(s[1], Table(init_directory_table(name, at[x]))),
                            write_cluster(FAT_CLUSTER_NUMBER, FATImage(large)),
                            write_cluster(at[x], Table(t)))}
    BY <1>6
  <2> HIDE DEF x, name
  <2> QED
    BY <1>5, <2>1, FolderDoes
<1>8. e = Effect(0, large, w)
  <2>1. s = Allocation(fat, 1) /\ large = Linked(fat, s)
    BY <1>3, <1>4 DEF NewChain, NewMap
  <2>2. t = WithEntry(AsTable(disk[at[x]]), UsedEntry(name, s[1], 0))
    BY <1>3 DEF NewTable, NewEntry
  <2>3. e = IF fat[at[x]] = FAT32_FAT_EMPTY_ENTRY THEN Refused(2)
            ELSE Effect(0, large, w)
    BY <1>2, <1>6, <2>1, <2>2, Zenon DEF FolderWritten
  <2> QED
    BY <1>2, <2>3
<1> QED
  BY <1>7, <1>8, Zenon DEF Brings, Effect

(***************************************************************************)
(* cp and mv: a careful caller's file is written, unless there is no entry *)
(* left for it, and then nothing is.                                       *)
(***************************************************************************)
LEMMA FileCall ==
  ASSUME NEW V, NEW at, Home(V, at), NEW path \in Paths, NEW size \in FileSizes,
         NEW version \in V, CarefulWrite(path, ClusterNeed(size)),
         NEW e \in {FileWritten(ParentOf(path), Last(path), size, version)}
  PROVE  \/ e.ret = -1 /\ Brings(V, e, path, Node(disk, path))
         \/ e.ret = 0 /\ Brings(V, e, path, File(version, size))
<1> DEFINE x == Front(path)
           name == Last(path)
<1>1. IsDirectory(x)
  BY DEF CarefulWrite
<1>2. ParentOf(path) = at[x] /\ fat[ParentOf(path)] # FAT32_FAT_EMPTY_ENTRY
  BY <1>1, HomeFacts
<1>3. PICK s, large, i, t :
        /\ s = NewChain(fat, size) /\ large = NewMap(fat, size)
        /\ i = NewRow(disk, at, x) /\ t = NewTable(disk, fat, at, x, name, size)
  OBVIOUS
<1>4. NeedFor(size) = ClusterNeed(size) /\ size # 0 /\ size \in Sizes /\ size \in Nat
  BY SizesAssumption DEF NeedFor, Sizes
<1>5. PICK w : w = FileWrites(at[x], t, s, version, large)
  OBVIOUS
<1>6. e = CASE fat[at[x]] = FAT32_FAT_EMPTY_ENTRY -> Refused(2)
            [] fat[at[x]] # FAT32_FAT_EMPTY_ENTRY /\ UnusedPositions(AsTable(disk[at[x]])) = {}
                 -> Refused(-1)
            [] OTHER -> Effect(0, large, w)
  <2>1. s = Allocation(fat, ClusterNeed(size)) /\ large = Linked(fat, s)
    BY <1>3, <1>4 DEF NewChain, NewMap
  <2>2. t = WithEntry(AsTable(disk[at[x]]), UsedEntry(name, s[1], size))
    BY <1>3 DEF NewTable, NewEntry
  <2> QED
    BY <1>2, <1>5, <2>1, <2>2, Zenon DEF FileWritten, FileWrites, FileParts
<1>7. CASE UnusedPositions(AsTable(disk[at[x]])) = {}
  <2>1. e = Refused(-1)
    BY <1>2, <1>6, <1>7
  <2>2. Brings(V, e, path, Node(disk, path))
    BY <2>1, RefusedBrings
  <2>3. e.ret = -1
    BY <2>1 DEF Refused, Effect
  <2> QED
    BY <2>2, <2>3
<1>8. CASE UnusedPositions(AsTable(disk[at[x]])) # {}
  <2>1. e = Effect(0, large, w)
    BY <1>2, <1>6, <1>8
  <2>2. NeedFor(size) \in Nat
    BY <1>4, NeedFacts
  <2>3. Creation(V, disk, fat, at, x, name, size, path, s, large, i, t)
    <3>1. CarefulWrite(path, NeedFor(size))
      BY <1>4
    <3>2. UnusedPositions(AsTable(disk[ParentOf(path)])) # {}
      BY <1>2, <1>8
    <3> QED
      BY <1>3, <1>4, <2>2, <3>1, <3>2, CarefulCreates
  <2>4. w \in Seq(Writes(V)) /\ Does(disk, w, large, path, File(version, size))
    <3>1. w \in {FileWrites(at[x], t, s, version, large)}
      BY <1>5
    <3>2. size # 0 /\ version \in V
      BY <1>4
    <3> HIDE DEF x, name
    <3> QED
      BY <2>3, <3>1, <3>2, FileDoes
  <2> QED
    BY <2>1, <2>4, Zenon DEF Brings, Effect
<1> QED
  BY <1>7, <1>8

(***************************************************************************)
(* rm: what a careful caller deletes, a folder if it is empty, is gone;    *)
(* deleting what is not there is refused.                                  *)
(***************************************************************************)
LEMMA DeleteCall ==
  ASSUME NEW V, NEW at, Home(V, at), NEW path \in Paths, IsDirectory(Front(path)),
         NotItself(path), ~Populated(path),
         NEW e \in {Deleted(ParentOf(path), Last(path))}
  PROVE  \/ e.ret = 1 /\ Node(disk, path) = Absent /\ Brings(V, e, path, Node(disk, path))
         \/ e.ret = 0 /\ Node(disk, path) # Absent /\ Brings(V, e, path, Absent)
<1> DEFINE x == Front(path)
           name == Last(path)
           table == AsTable(disk[at[x]])
           found == Matches(table, name)
           L == Listing(disk, at)
<1>1. /\ disk \in Disks(V) /\ fat \in FATs /\ fat = AsFAT(disk[FAT_CLUSTER_NUMBER])
      /\ Sound(disk, fat, at) /\ x \in DOMAIN at /\ ParentOf(path) = at[x]
      /\ name \in Names /\ Append(x, name) = path
  BY HomeFacts
<1>2. TreeOn(disk, at) /\ Shaped(at, L) /\ Allotted(fat, L)
  BY <1>1, SoundTree
<1>3. found = Listed(table, name)
  <2>1. 0 \notin found
    BY <1>1 DEF NotItself, Matches
  <2> QED
    BY <2>1 DEF Listed
<1>4. \A j : j \in found <=> Leads(L, x, j, path)
  <2>1. \A j : j \in Listed(table, name) <=> Leads(L, x, j, Append(x, name))
    <3> HIDE DEF x, name
    <3> QED
      BY <1>1, <1>2, ListedFacts
  <2> QED
    BY <1>1, <1>3, <2>1
<1>5. PICK i : i = Min(found)
  OBVIOUS
<1>6. PICK s, map, t :
        /\ s = Chain(fat, table[i].cluster) /\ map = Freed(fat, s)
        /\ t = [table EXCEPT ![i] = EmptyEntry]
  OBVIOUS
<1>7. PICK w : w = Blanks(s) \o <<write_cluster(FAT_CLUSTER_NUMBER, FATImage(map)),
                                   write_cluster(at[x], Table(t))>>
  OBVIOUS
<1>8. e = IF found = {} THEN Refused(1) ELSE Effect(0, map, w)
  BY <1>1, <1>5, <1>6, <1>7, Zenon DEF Deleted, Blanks
<1>9. \A y, j : Leads(L, y, j, path) => y = x
  BY <1>2, ShapedFacts
<1>10. CASE found = {}
  <2>1. Node(disk, path) = Absent
    <3>1. \A y, j : ~Leads(L, y, j, path)
      BY <1>4, <1>9, <1>10
    <3> QED
      BY <1>1, <1>2, <3>1, NodeFacts
  <2>2. e = Refused(1)
    BY <1>8, <1>10
  <2>3. Brings(V, e, path, Node(disk, path))
    BY <2>2, RefusedBrings
  <2>4. e.ret = 1
    BY <2>2 DEF Refused, Effect
  <2> QED
    BY <2>1, <2>3, <2>4
<1>11. CASE found # {}
  <2>1. i \in found
    BY <1>5, <1>11, SizeFacts, MinProperty DEF Matches
  <2>2. Leads(L, x, i, path) /\ i \in Rows /\ L[x][i] = table[i]
    <3>1. Leads(L, x, i, path) /\ i \in Rows
      BY <1>4, <2>1 DEF Leads, Live
    <3> QED
      BY <3>1, <1>1 DEF Listing
  <2>3. ASSUME NEW j
        PROVE  ~Live(L, path, j)
    <3> SUFFICES ASSUME Live(L, path, j)
                 PROVE  FALSE
      OBVIOUS
    <3>1. PICK p : p = Append(path, L[path][j].name)
      OBVIOUS
    <3>2. Leads(L, path, j, p)
      BY <3>1 DEF Leads
    <3>3. p \in Paths /\ path = Front(p)
      BY <3>2, <1>2, ShapedFacts
    <3>4. Len(p) = Len(path) + 1
      <4>1. Len(Front(p)) = Len(p) - 1 /\ Len(p) \in Nat
        BY <3>3, PathFacts
      <4> QED
        BY <3>3, <4>1
    <3>5. Node(disk, p) # Absent
      <4>1. Node(disk, p) = NodeOfEntry(disk, L[path][j])
        BY <1>1, <1>2, <3>2, <3>3, NodeFacts
      <4> QED
        BY <4>1, EntryKind
    <3> QED
      BY <3>3, <3>4, <3>5 DEF Populated, Exists
  <2>4. s = ChainOf(fat, L, x, i)
    BY <1>6, <2>2 DEF ChainOf
  <2>5. Deletion(V, disk, fat, at, x, i, path, s, map, t)
    <3>1. t = [AsTable(disk[at[x]]) EXCEPT ![i] = EmptyEntry]
      BY <1>6
    <3>2. map = Freed(fat, s)
      BY <1>6
    <3> HIDE DEF x, table
    <3> QED
      BY <1>1, <2>2, <2>3, <2>4, <3>1, <3>2, Zenon DEF Deletion
  <2>6. w \in Seq(Writes(V)) /\ Does(disk, w, map, path, Absent)
    <3>1. w \in {Blanks(s) \o <<write_cluster(FAT_CLUSTER_NUMBER, FATImage(map)),
                                write_cluster(at[x], Table(t))>>}
      BY <1>7
    <3> HIDE DEF x
    <3> QED
      BY <2>5, <3>1, DeletionDoes
  <2>7. e = Effect(0, map, w)
    BY <1>8, <1>11
  <2>8. Node(disk, path) # Absent
    <3>1. Node(disk, path) = NodeOfEntry(disk, L[x][i])
      BY <1>1, <1>2, <2>2, NodeFacts
    <3> QED
      BY <3>1, EntryKind
  <2> QED
    BY <2>6, <2>7, <2>8, Zenon DEF Brings, Effect
<1> QED
  BY <1>10, <1>11

-----------------------------------------------------------------------------
(* The tree in every state *)

(***************************************************************************)
(* With the writes w still to be made, every instant until they are shows  *)
(* all paths but one as they will be, and a folder that will be there      *)
(* whole or not yet.                                                       *)
(***************************************************************************)
Steady(d, w) ==
  /\ \E q : \A k \in 0 .. Len(w), r \in Paths :
       r # q => Node(Begun(d, w, k), r) = Node(Written(d, w), r)
  /\ \A p \in Paths : Node(Written(d, w), p) = Folder =>
       \A k \in 0 .. Len(w) : Node(Begun(d, w, k), p) \in {Absent, Folder}

DiskInv == FATInv /\ TreeInv /\ Steady(disk, pending)

LEMMA DoesSteady ==
  ASSUME NEW d, NEW w, NEW map, NEW q, NEW node, Does(d, w, map, q, node)
  PROVE  Steady(d, w)
<1>1. \A r \in Paths : Node(Written(d, w), r) = IF r = q THEN node ELSE Node(d, r)
  BY DEF Does
<1>2. \A k \in 0 .. Len(w), r \in Paths : r # q => Node(Begun(d, w, k), r) = Node(d, r)
  BY DEF Does
<1>3. \A k \in 0 .. Len(w), r \in Paths :
        r # q => Node(Begun(d, w, k), r) = Node(Written(d, w), r)
  BY <1>1, <1>2
<1>4. ASSUME NEW p \in Paths, Node(Written(d, w), p) = Folder, NEW k \in 0 .. Len(w)
      PROVE  Node(Begun(d, w, k), p) \in {Absent, Folder}
  <2>1. CASE p = q
    <3>1. node = Folder
      BY <1>1, <1>4, <2>1
    <3> QED
      BY <2>1, <3>1 DEF Does
  <2>2. CASE p # q
    BY <1>3, <1>4, <2>2
  <2> QED
    BY <2>1, <2>2
<1> QED
  BY <1>3, <1>4, Zenon DEF Steady

LEMMA NothingSteady ==
  ASSUME NEW V, NEW d \in Disks(V), NEW w \in {<<>>}
  PROVE  Steady(d, w) /\ Written(d, w) = d
<1>1. w \in Seq(Writes(V)) /\ Len(w) = 0
  OBVIOUS
<1>2. Written(d, w) = d /\ Begun(d, w, 0) = d
  BY <1>1, BegunEnds
<1>3. \A k \in 0 .. Len(w) : k = 0
  BY <1>1
<1>4. \A k \in 0 .. Len(w) : Begun(d, w, k) = Written(d, w)
  BY <1>2, <1>3
<1> QED
  BY <1>2, <1>4, Zenon DEF Steady

(***************************************************************************)
(* One write less to be made.                                              *)
(***************************************************************************)
LEMMA SteadyNext ==
  ASSUME NEW V, NEW d \in Disks(V), NEW w \in Seq(Writes(V)), w # <<>>, Steady(d, w)
  PROVE  /\ Steady([d EXCEPT ![Head(w).cluster] = Head(w).content], Tail(w))
         /\ Written([d EXCEPT ![Head(w).cluster] = Head(w).content], Tail(w)) = Written(d, w)
<1> DEFINE e == [d EXCEPT ![Head(w).cluster] = Head(w).content]
           t == Tail(w)
<1>1. Written(e, t) = Written(d, w)
  <2>1. DOMAIN d = Clusters
    BY DEF Disks
  <2> QED
    BY <2>1, WrittenNext
<1>2. \A k \in 0 .. Len(t) : k + 1 \in 0 .. Len(w) /\ Begun(e, t, k) = Begun(d, w, k + 1)
  BY BegunNext
<1> HIDE DEF e, t
<1>3. PICK q : \A k \in 0 .. Len(w), r \in Paths :
        r # q => Node(Begun(d, w, k), r) = Node(Written(d, w), r)
  BY DEF Steady
<1>4. \A k \in 0 .. Len(t), r \in Paths : r # q => Node(Begun(e, t, k), r) = Node(Written(e, t), r)
  BY <1>1, <1>2, <1>3
<1>5. \A p \in Paths : Node(Written(e, t), p) = Folder =>
        \A k \in 0 .. Len(t) : Node(Begun(e, t, k), p) \in {Absent, Folder}
  BY <1>1, <1>2 DEF Steady
<1>6. Steady(e, t)
  BY <1>4, <1>5, Zenon DEF Steady
<1> QED
  BY <1>1, <1>6 DEF e, t

(***************************************************************************)
(* Between calls the tree is on the disk.                                  *)
(***************************************************************************)
LEMMA AtHome ==
  ASSUME FATInv, TreeInv, Ready
  PROVE  \E at : Home(Versions, at)
<1>1. power /\ pending = <<>> /\ Settled(Versions)
  BY ReadySettled DEF Ready, FATInv
<1>2. FinalDisk = disk
  <2>1. pending \in {<<>>} /\ disk \in Disks(Versions)
    BY <1>1 DEF Settled
  <2> QED
    BY <2>1, NothingSteady DEF FinalDisk
<1>3. PICK at : Sound(disk, fat, at)
  BY <1>1, <1>2 DEF TreeInv
<1> QED
  BY <1>1, <1>3 DEF Home

(***************************************************************************)
(* A call that brings something to a path leaves a tree and a disk that    *)
(* changes only there.                                                     *)
(***************************************************************************)
LEMMA BringsKeeps ==
  ASSUME Ready, NEW e, NEW outcome, Perform(e, outcome), NEW q, NEW node,
         Brings(Versions, e, q, node)
  PROVE  (TreeInv /\ Steady(disk, pending))'
<1>1. disk' = disk /\ fat' = e.fat /\ pending' = e.writes /\ power' = power /\ power
  BY DEF Perform, Ready
<1>2. Does(disk, e.writes, e.fat, q, node)
  BY DEF Brings
<1>3. PICK at : Sound(Written(disk, e.writes), e.fat, at)
  BY <1>2 DEF Does
<1>4. TreeInv'
  <2>1. Sound(FinalDisk', fat', at)
    BY <1>1, <1>3 DEF FinalDisk
  <2> QED
    BY <1>1, <2>1 DEF TreeInv
<1>5. Steady(disk, e.writes)
  BY <1>2, DoesSteady
<1>6. Steady(disk', pending')
  BY <1>1, <1>5
<1>7. Steady(disk, pending)'
  BY <1>6
<1> QED
  BY <1>4, <1>7

(***************************************************************************)
(* Nothing of it changes while disk, FAT, writes and power do not.         *)
(***************************************************************************)
LEMMA SameDiskInv ==
  ASSUME DiskInv, UNCHANGED <<disk, fat, pending, power>>
  PROVE  DiskInv'
<1>1. FATInv'
  BY DEF DiskInv, FATInv, InStep, FATArrives, Formatted
<1>2. TreeInv'
  BY DEF DiskInv, TreeInv, FinalDisk, is_empty_storage
<1>3. Steady(disk, pending)'
  <2>1. Steady(disk', pending')
    BY DEF DiskInv
  <2> QED
    BY <2>1
<1> QED
  BY <1>1, <1>2, <1>3 DEF DiskInv

LEMMA InitDiskInv == Init => DiskInv
<1> SUFFICES ASSUME Init
             PROVE  DiskInv
  OBVIOUS
<1>1. FATInv /\ ~power /\ pending \in {<<>>}
  BY InitFATInv DEF Init
<1>2. disk \in Disks(Versions)
  BY <1>1 DEF FATInv
<1>3. Plain(disk) /\ is_empty_storage
  <2>1. Blank # Signature
    <3>1. Blank.kind = "blank" /\ Signature.kind = "boot"
      BY DEF Blank, Signature
    <3> QED
      BY <3>1
  <2>2. ROOT_CLUSTER_NUMBER \in Clusters /\ BOOT_SECTOR \in Clusters
    BY SizeFacts DEF ROOT_CLUSTER_NUMBER, BOOT_SECTOR
  <2> QED
    BY <2>1, <2>2 DEF Init, Plain, is_empty_storage
<1>4. Steady(disk, pending)
  BY <1>1, <1>2, NothingSteady
<1> QED
  BY <1>1, <1>3, <1>4 DEF DiskInv, TreeInv

(***************************************************************************)
(* Power on: an empty storage is formatted, another has its tree.          *)
(***************************************************************************)
LEMMA InitializeTree ==
  ASSUME DiskInv, initialize_filesystem_fat32
  PROVE  /\ DiskInv'
         /\ \A r \in Paths : Node(FinalDisk', r) = Node(FinalDisk, r)
<1>1. /\ disk' = disk /\ power' = TRUE /\ ~power /\ disk \in Disks(Versions) /\ pending \in {<<>>}
      /\ FATInv'
  BY InitializeInv DEF DiskInv, FATInv, initialize_filesystem_fat32
<1>2. FinalDisk = disk
  BY <1>1, NothingSteady DEF FinalDisk
<1>3. CASE is_empty_storage
  <2>1. fat' = FormattedFAT /\ pending' = create_fat32
    BY <1>3 DEF initialize_filesystem_fat32
  <2>2. Plain(disk)
    BY <1>1, <1>3 DEF DiskInv, TreeInv
  <2>3. PICK w : w = create_fat32
    OBVIOUS
  <2>4. Does(disk, w, FormattedFAT, <<>>, Absent)
    BY <1>1, <2>2, <2>3, FormattingDoes
  <2>5. PICK at : Sound(Written(disk, w), FormattedFAT, at)
    BY <2>4 DEF Does
  <2>6. FinalDisk' = Written(disk, w)
    BY <1>1, <2>1, <2>3 DEF FinalDisk
  <2>7. TreeInv'
    BY <1>1, <2>1, <2>5, <2>6 DEF TreeInv
  <2>8. Steady(disk, pending)'
    <3>1. Steady(disk, w)
      BY <2>4, DoesSteady
    <3>2. Steady(disk', pending')
      BY <3>1, <1>1, <2>1, <2>3
    <3> QED
      BY <3>2
  <2>9. \A r \in Paths : Node(FinalDisk', r) = Node(FinalDisk, r)
    <3>1. \A r \in Paths : r # <<>>
      BY PathFacts
    <3>2. \A r \in Paths : Node(Written(disk, w), r) = IF r = <<>> THEN Absent ELSE Node(disk, r)
      BY <2>4 DEF Does
    <3> QED
      BY <1>2, <2>6, <3>1, <3>2
  <2> QED
    BY <1>1, <2>7, <2>8, <2>9 DEF DiskInv
<1>4. CASE ~is_empty_storage
  <2>1. fat' = AsFAT(disk[FAT_CLUSTER_NUMBER]) /\ pending' = <<>>
    BY <1>4 DEF initialize_filesystem_fat32
  <2>2. PICK at : Sound(disk, AsFAT(disk[FAT_CLUSTER_NUMBER]), at)
    BY <1>1, <1>4 DEF DiskInv, TreeInv
  <2>3. FinalDisk' = disk
    <3>1. FinalDisk' = Written(disk, pending)
      BY <1>1, <2>1 DEF FinalDisk
    <3> QED
      BY <3>1, <1>2 DEF FinalDisk
  <2>4. TreeInv'
    BY <1>1, <2>1, <2>2, <2>3 DEF TreeInv
  <2>5. Steady(disk, pending)'
    <3>1. Steady(disk', pending')
      BY <1>1, <2>1 DEF DiskInv
    <3> QED
      BY <3>1
  <2> QED
    BY <1>1, <1>2, <2>3, <2>4, <2>5 DEF DiskInv
<1> QED
  BY <1>3, <1>4

(***************************************************************************)
(* A write of the call in progress: what the disk will be stays the same.  *)
(***************************************************************************)
LEMMA WriteTree ==
  ASSUME DiskInv, write_clusters
  PROVE  DiskInv' /\ FinalDisk' = FinalDisk
<1>1. /\ pending \in Seq(Writes(Versions)) /\ pending # <<>> /\ disk \in Disks(Versions)
      /\ FATInv' /\ power /\ power' = power /\ fat' = fat
  <2>1. pending # <<>> /\ FATInv'
    BY WriteClustersInv DEF write_clusters, DiskInv
  <2>2. power /\ InStep(Versions)
    BY <2>1 DEF DiskInv, FATInv
  <2>3. power' = power /\ fat' = fat
    BY DEF write_clusters
  <2> QED
    BY <2>1, <2>2, <2>3 DEF InStep
<1>2. disk' = [disk EXCEPT ![Head(pending).cluster] = Head(pending).content]
      /\ pending' = Tail(pending)
  BY DEF write_clusters
<1>3. Steady(disk, pending)
  BY DEF DiskInv
<1>4. PICK d, w, e, t : d = disk /\ w = pending /\ e = disk' /\ t = pending'
  OBVIOUS
<1>5. d \in Disks(Versions) /\ w \in Seq(Writes(Versions)) /\ w # <<>> /\ Steady(d, w)
      /\ e = [d EXCEPT ![Head(w).cluster] = Head(w).content] /\ t = Tail(w)
  BY <1>1, <1>2, <1>3, <1>4
<1>6. Steady(e, t) /\ Written(e, t) = Written(d, w)
  <2>1. /\ Steady([d EXCEPT ![Head(w).cluster] = Head(w).content], Tail(w))
        /\ Written([d EXCEPT ![Head(w).cluster] = Head(w).content], Tail(w)) = Written(d, w)
    BY <1>5, SteadyNext
  <2> QED
    BY <1>5, <2>1, Zenon
<1>7. FinalDisk' = FinalDisk
  BY <1>4, <1>6 DEF FinalDisk
<1>8. TreeInv'
  BY <1>1, <1>7 DEF TreeInv, DiskInv
<1>9. Steady(disk, pending)'
  <2>1. Steady(disk', pending')
    BY <1>4, <1>6
  <2> QED
    BY <2>1
<1> QED
  BY <1>1, <1>7, <1>8, <1>9 DEF DiskInv

(***************************************************************************)
(* Power off: the FAT in memory is lost; the disk has it too.              *)
(***************************************************************************)
LEMMA PowerOffTree ==
  ASSUME DiskInv, PowerOff
  PROVE  DiskInv' /\ FinalDisk' = FinalDisk
<1>1. /\ disk' = disk /\ pending' = pending /\ power' = FALSE /\ Ready /\ FATInv'
      /\ FATInv /\ TreeInv
  BY PowerOffInv DEF PowerOff, DiskInv, Ready
<1>2. PICK at : Home(Versions, at)
  BY <1>1, AtHome
<1>3. Sound(disk, fat, at) /\ fat = AsFAT(disk[FAT_CLUSTER_NUMBER])
  BY <1>2, Held DEF Home, Settled
<1>4. disk[BOOT_SECTOR] = Signature
  BY <1>3 DEF Sound
<1>5. TreeInv'
  BY <1>1, <1>3, <1>4 DEF TreeInv, is_empty_storage
<1>6. Steady(disk, pending)'
  <2>1. Steady(disk', pending')
    BY <1>1 DEF DiskInv
  <2> QED
    BY <2>1
<1>7. FinalDisk' = FinalDisk
  BY <1>1 DEF FinalDisk
<1> QED
  BY <1>1, <1>5, <1>6, <1>7 DEF DiskInv

\* The step puts "node" at path q, now or with the writes it leaves to be made.
Becomes(q, node) ==
  \A r \in Paths : Node(FinalDisk', r) = IF r = q THEN node ELSE Node(FinalDisk, r)

LEMMA ReadyDisk ==
  ASSUME FATInv, Ready
  PROVE  disk \in Disks(Versions) /\ FinalDisk = disk /\ Settled(Versions)
<1>1. pending \in {<<>>} /\ Settled(Versions)
  BY ReadySettled DEF Ready, FATInv
<1>2. disk \in Disks(Versions)
  BY <1>1 DEF Settled
<1> QED
  BY <1>1, <1>2, NothingSteady DEF FinalDisk

LEMMA CallBecomes ==
  ASSUME DiskInv, Ready, NEW e, NEW outcome, Perform(e, outcome), NEW q, NEW node,
         Brings(Versions, e, q, node), Mirrored(e, Versions)
  PROVE  DiskInv' /\ Becomes(q, node) /\ result' = outcome
<1>1. (TreeInv /\ Steady(disk, pending))'
  BY BringsKeeps
<1>2. disk \in Disks(Versions) /\ FinalDisk = disk
  BY ReadyDisk DEF DiskInv
<1>3. disk' = disk /\ pending' = e.writes /\ result' = outcome
      /\ fat' = e.fat /\ power' = power /\ power
  BY DEF Perform, Ready
<1>4. FATInv'
  <2>1. InStep(Versions)'
    BY <1>2, <1>3, MirroredKeeps
  <2>2. power \in BOOLEAN
    BY DEF DiskInv, FATInv
  <2> QED
    BY <1>3, <2>1, <2>2 DEF FATInv
<1>5. Becomes(q, node)
  <2>1. \A r \in Paths : Node(Written(disk, e.writes), r) = IF r = q THEN node ELSE Node(disk, r)
    BY DEF Brings, Does
  <2>2. FinalDisk' = Written(disk, e.writes)
    BY <1>3 DEF FinalDisk
  <2> QED
    BY <1>2, <2>1, <2>2 DEF Becomes
<1> QED
  BY <1>1, <1>3, <1>4, <1>5 DEF DiskInv

(***************************************************************************)
(* A careful caller writes where nothing is.                               *)
(***************************************************************************)
LEMMA CarefulAbsent ==
  ASSUME NEW path \in Paths, NEW clusters, CarefulWrite(path, clusters)
  PROVE  Node(disk, path) = Absent /\ IsDirectory(Front(path))
<1>1. Matches(AsTable(disk[ParentOf(path)]), Last(path)) = {} /\ IsDirectory(Front(path))
  BY DEF CarefulWrite
<1>2. Listed(AsTable(disk[DirectoryCluster(disk, Front(path))]), Last(path)) = {}
  BY <1>1 DEF Listed, ParentOf
<1> QED
  BY <1>1, <1>2 DEF Node

LEMMA WriteFolderTree ==
  ASSUME DiskInv, NEW path \in Paths, CarefulWriteFolder(path)
  PROVE  /\ DiskInv' /\ Becomes(path, Folder) /\ result' = Outcome("write", path, 0)
         /\ Ready /\ Node(disk, path) = Absent /\ IsDirectory(Front(path))
<1> DEFINE V == Versions
<1>1. /\ Ready /\ CarefulWrite(path, 1) /\ Cardinality(FreeClusters(fat)) >= 1
      /\ UnusedPositions(AsTable(disk[ParentOf(path)])) # {}
  BY DEF CarefulWriteFolder, CarefulWrite, ParentOf
<1>2. PICK at : Home(V, at)
  BY <1>1, AtHome DEF DiskInv
<1>3. PICK e : e = FolderWritten(ParentOf(path), Last(path))
               /\ Perform(e, Outcome("write", path, e.ret))
  BY DEF CarefulWriteFolder, WriteFolder
<1>4. e.ret = 0 /\ Brings(V, e, path, Folder)
  <2>1. e \in {FolderWritten(ParentOf(path), Last(path))}
    BY <1>3
  <2> QED
    BY <1>1, <1>2, <2>1, FolderCall
<1>5. Mirrored(e, V)
  BY <1>1, <1>2, <1>3, ParentFacts, FolderMirrored DEF Home
<1>6. DiskInv' /\ Becomes(path, Folder) /\ result' = Outcome("write", path, e.ret)
  BY <1>1, <1>3, <1>4, <1>5, CallBecomes
<1>7. Node(disk, path) = Absent /\ IsDirectory(Front(path))
  BY <1>1, CarefulAbsent
<1> QED
  BY <1>1, <1>4, <1>6, <1>7

LEMMA WriteFileTree ==
  ASSUME DiskInv, NEW path \in Paths, NEW size \in FileSizes, NEW version \in Versions,
         CarefulWriteFile(path, size, version)
  PROVE  /\ DiskInv' /\ \E ret : result' = Outcome("write", path, ret)
         /\ Becomes(path, File(version, size)) \/ Becomes(path, Absent)
         /\ Ready /\ Node(disk, path) = Absent /\ IsDirectory(Front(path))
<1> DEFINE V == Versions
<1>1. /\ Ready /\ CarefulWrite(path, ClusterNeed(size))
      /\ Cardinality(FreeClusters(fat)) >= ClusterNeed(size)
  BY DEF CarefulWriteFile, CarefulWrite
<1>2. PICK at : Home(V, at)
  BY <1>1, AtHome DEF DiskInv
<1>3. PICK e : e = FileWritten(ParentOf(path), Last(path), size, version)
               /\ Perform(e, Outcome("write", path, e.ret))
  BY DEF CarefulWriteFile, WriteFile
<1>4. \/ Brings(V, e, path, Node(disk, path))
      \/ Brings(V, e, path, File(version, size))
  <2>1. e \in {FileWritten(ParentOf(path), Last(path), size, version)}
    BY <1>3
  <2> QED
    BY <1>1, <1>2, <2>1, FileCall
<1>5. Mirrored(e, V)
  BY <1>1, <1>2, <1>3, ParentFacts, FileMirrored DEF Home
<1>6. Node(disk, path) = Absent /\ IsDirectory(Front(path))
  BY <1>1, CarefulAbsent
<1>7. ASSUME NEW node, Brings(V, e, path, node)
      PROVE  DiskInv' /\ Becomes(path, node) /\ result' = Outcome("write", path, e.ret)
  BY <1>1, <1>3, <1>5, <1>7, CallBecomes
<1> QED
  BY <1>1, <1>4, <1>6, <1>7

LEMMA DeleteTree ==
  ASSUME DiskInv, NEW path \in Paths, CarefulDelete(path)
  PROVE  /\ DiskInv' /\ Becomes(path, Absent) /\ Ready /\ ~Populated(path)
         /\ result'.op = "delete"
<1> DEFINE V == Versions
<1>1. Ready /\ IsDirectory(Front(path)) /\ NotItself(path) /\ ~Populated(path)
  BY DEF CarefulDelete
<1>2. PICK at : Home(V, at)
  BY <1>1, AtHome DEF DiskInv
<1>3. PICK e, outcome : e = Deleted(ParentOf(path), Last(path)) /\ Perform(e, outcome)
                        /\ outcome.op = "delete"
  BY DEF CarefulDelete, delete
<1>4. Brings(V, e, path, Absent)
  <2>1. e \in {Deleted(ParentOf(path), Last(path))}
    BY <1>3
  <2>2. \/ Node(disk, path) = Absent /\ Brings(V, e, path, Node(disk, path))
        \/ Brings(V, e, path, Absent)
    BY <1>1, <1>2, <2>1, DeleteCall
  <2> QED
    BY <2>2
<1>5. Mirrored(e, V)
  BY <1>1, <1>2, <1>3, ParentFacts, DeletedMirrored DEF Home
<1>6. DiskInv' /\ Becomes(path, Absent) /\ result' = outcome
  BY <1>1, <1>3, <1>4, <1>5, CallBecomes
<1> QED
  BY <1>1, <1>3, <1>6

(***************************************************************************)
(* Reads, and a write that is refused, leave all as it is.                 *)
(***************************************************************************)
LEMMA ReadTree ==
  ASSUME DiskInv, Reads
  PROVE  DiskInv' /\ FinalDisk' = FinalDisk
<1>1. UNCHANGED <<disk, fat, pending, power>>
  BY DEF Reads, read, read_directory, Answers
<1> QED
  BY <1>1, SameDiskInv DEF FinalDisk

LEMMA NowhereTree ==
  ASSUME DiskInv, Ready, WriteNowhere
  PROVE  DiskInv' /\ FinalDisk' = FinalDisk
<1>1. PICK outcome : Perform(Refused(2), outcome)
  BY DEF WriteNowhere
<1>2. UNCHANGED <<disk, fat, pending, power>>
  BY <1>1 DEF Perform, Refused, Effect, Ready
<1> QED
  BY <1>2, SameDiskInv DEF FinalDisk

(***************************************************************************)
(* The inductive invariant: at every instant the disk holds, or will hold  *)
(* once the writes of the call in progress are made, a tree of folders     *)
(* whose entries have whole chains of their own, and nothing is allocated  *)
(* besides; and until those writes are made, only one path reads           *)
(* differently from how it will.                                           *)
(***************************************************************************)
THEOREM DiskInvariant == Spec => []DiskInv
<1>1. DiskInv /\ [Next]_vars => DiskInv'
  <2> SUFFICES ASSUME DiskInv, [Next]_vars
               PROVE  DiskInv'
    OBVIOUS
  <2>1. CASE UNCHANGED vars
    BY <2>1, SameDiskInv DEF vars
  <2>2. CASE initialize_filesystem_fat32
    BY <2>2, InitializeTree
  <2>3. CASE write_clusters
    BY <2>3, WriteTree
  <2>4. CASE PowerOff
    BY <2>4, PowerOffTree
  <2>5. CASE Calls
    BY <2>5, WriteFolderTree, WriteFileTree, DeleteTree, ReadTree, NowhereTree DEF Calls
  <2> QED
    BY <2>1, <2>2, <2>3, <2>4, <2>5 DEF Next
<1> QED
  BY <1>1, InitDiskInv, PTL DEF Spec

LEMMA BegunNow ==
  ASSUME FATInv
  PROVE  /\ disk \in Disks(Versions) /\ pending \in Seq(Writes(Versions))
         /\ Begun(disk, pending, 0) = disk /\ 0 \in 0 .. Len(pending)
<1>1. disk \in Disks(Versions) /\ pending \in Seq(Writes(Versions))
  <2>1. CASE power
    BY <2>1 DEF FATInv, InStep
  <2>2. CASE ~power
    <3>1. <<>> \in Seq(Writes(Versions))
      OBVIOUS
    <3>2. disk \in Disks(Versions) /\ pending = <<>>
      BY <2>2, Zenon DEF FATInv
    <3> QED
      BY <3>1, <3>2, Zenon
  <2> QED
    BY <2>1, <2>2
<1>2. Begun(disk, pending, 0) = disk
  BY <1>1, BegunEnds
<1>3. Len(pending) \in Nat
  BY <1>1
<1> QED
  BY <1>1, <1>2, <1>3

(***************************************************************************)
(* A power loss at any instant, between any two writes to the disk, costs  *)
(* at most the file or folder that the call in progress is about: every    *)
(* other path then reads as it will, whatever tables, chains and FAT the   *)
(* call has left half written.                                             *)
(***************************************************************************)
THEOREM OtherPathsAreSafe == Spec => []OthersUntouched
<1>1. DiskInv => OthersUntouched
  <2> SUFFICES ASSUME DiskInv
               PROVE  OthersUntouched
    OBVIOUS
  <2> DEFINE Differ == {p \in Paths : Node(disk, p) # Node(FinalDisk, p)}
  <2>1. Begun(disk, pending, 0) = disk /\ 0 \in 0 .. Len(pending) /\ Steady(disk, pending)
    BY BegunNow DEF DiskInv
  <2>2. PICK q : \A k \in 0 .. Len(pending), r \in Paths :
          r # q => Node(Begun(disk, pending, k), r) = Node(Written(disk, pending), r)
    BY <2>1 DEF Steady
  <2>3. \A r \in Paths : r # q => Node(disk, r) = Node(FinalDisk, r)
    BY <2>1, <2>2 DEF FinalDisk
  <2>4. Differ \subseteq {q}
    BY <2>3
  <2>5. Differ = {} \/ Differ = {q}
    <3> HIDE DEF Differ
    <3> QED
      BY <2>4
  <2> HIDE DEF Differ
  <2>6. Cardinality(Differ) \in {0, 1}
    <3>1. Cardinality({}) = 0 /\ Cardinality({q}) = 1
      BY FS_EmptySet, FS_Singleton
    <3> QED
      BY <2>5, <3>1
  <2>7. Cardinality(Differ) <= 1
    BY <2>6
  <2> QED
    BY <2>7 DEF OthersUntouched, Differ
<1> QED
  BY <1>1, DiskInvariant, PTL

(***************************************************************************)
(* mkdir is atomic for the disk: the entry is written last, so a power     *)
(* loss leaves the folder or no folder (fat32.c:298-303).                  *)
(***************************************************************************)
THEOREM FoldersComeWhole == Spec => []FolderCreationAtomic
<1>1. DiskInv => FolderCreationAtomic
  <2> SUFFICES ASSUME DiskInv, NEW p \in Paths, Node(FinalDisk, p) = Folder
               PROVE  Node(disk, p) \in {Absent, Folder}
    BY DEF FolderCreationAtomic
  <2>1. Begun(disk, pending, 0) = disk /\ 0 \in 0 .. Len(pending) /\ Steady(disk, pending)
    BY BegunNow DEF DiskInv
  <2>2. Node(Begun(disk, pending, 0), p) \in {Absent, Folder}
    BY <2>1 DEF Steady, FinalDisk
  <2> QED
    BY <2>1, <2>2
<1> QED
  BY <1>1, DiskInvariant, PTL

-----------------------------------------------------------------------------
(* Used entries *)

\* An entry that is used has a name: in the driver's own tables, not in those
\* that mv writes.
Tidy(content) == \A j \in Positions : AsTable(content)[j].used => AsTable(content)[j].name # NoName
TidyWrites(w) == \A k \in 1 .. Len(w) : Tidy(w[k].content)
TidyInv == (\A c \in Clusters : Tidy(disk[c])) /\ TidyWrites(pending)

(***************************************************************************)
(* Only a table can be untidy, and the driver puts nothing untidy in one.  *)
(***************************************************************************)
LEMMA TidyContents ==
  /\ \A content : content.kind # "dir" => Tidy(content)
  /\ \A content : Tidy(content) => Tidy(Table(AsTable(content)))
  /\ \A t \in Tables, name \in Called : \A c, size :
       Tidy(Table(t)) => Tidy(Table(WithEntry(t, UsedEntry(name, c, size))))
  /\ \A name \in Called : \A c : Tidy(Table(init_directory_table(name, c)))
  /\ \A t \in Tables : \A i : Tidy(Table(t)) => Tidy(Table([t EXCEPT ![i] = EmptyEntry]))
<1>1. \A j \in Positions : ZeroTable[j] = EmptyEntry
  BY DEF ZeroTable
<1>2. EmptyEntry.used = FALSE
  BY DEF EmptyEntry
<1>3. \A t : AsTable(Table(t)) = t
  BY DEF AsTable, Table
<1>4. ASSUME NEW name \in Called, NEW c, NEW size
      PROVE  UsedEntry(name, c, size).name # NoName
  BY NamesAssumption DEF UsedEntry, Called, NoName
<1>5. ASSUME NEW content, content.kind # "dir"
      PROVE  Tidy(content)
  BY <1>1, <1>2, <1>5 DEF Tidy, AsTable
<1>6. ASSUME NEW content, Tidy(content)
      PROVE  Tidy(Table(AsTable(content)))
  BY <1>3, <1>6 DEF Tidy
<1>7. ASSUME NEW t \in Tables, NEW e, NEW i, Tidy(Table(t)), e.used => e.name # NoName
      PROVE  Tidy(Table([t EXCEPT ![i] = e]))
  <2>1. \A j \in Positions : t[j].used => t[j].name # NoName
    BY <1>3, <1>7 DEF Tidy
  <2>2. \A j \in Positions : [t EXCEPT ![i] = e][j] = IF j = i THEN e ELSE t[j]
    BY DEF Tables
  <2> QED
    BY <1>3, <1>7, <2>1, <2>2, ZenonT(60) DEF Tidy
<1>8. ASSUME NEW t \in Tables, NEW name \in Called, NEW c, NEW size, Tidy(Table(t))
      PROVE  Tidy(Table(WithEntry(t, UsedEntry(name, c, size))))
  <2>1. PICK e : e = UsedEntry(name, c, size)
    OBVIOUS
  <2>2. \A i : Tidy(Table([t EXCEPT ![i] = e]))
    BY <1>4, <1>7, <1>8, <2>1
  <2> QED
    BY <1>8, <2>1, <2>2 DEF WithEntry
<1>9. ASSUME NEW name \in Called, NEW c
      PROVE  Tidy(Table(init_directory_table(name, c)))
  <2>1. PICK e : e = UsedEntry(name, c, 0)
    OBVIOUS
  <2>2. \A j \in Positions : [ZeroTable EXCEPT ![0] = e][j] = IF j = 0 THEN e ELSE EmptyEntry
    BY <1>1 DEF ZeroTable
  <2>3. e.name # NoName
    BY <1>4, <2>1
  <2> QED
    BY <1>2, <1>3, <2>1, <2>2, <2>3, ZenonT(60) DEF Tidy, init_directory_table
<1>10. ASSUME NEW t \in Tables, NEW i, Tidy(Table(t))
       PROVE  Tidy(Table([t EXCEPT ![i] = EmptyEntry]))
  BY <1>2, <1>7, <1>10
<1> QED
  BY <1>5, <1>6, <1>8, <1>9, <1>10

(***************************************************************************)
(* So are lists of writes that are put one after the other.                *)
(***************************************************************************)
LEMMA TidyConcat ==
  ASSUME NEW S, NEW v \in Seq(S), NEW w \in Seq(S), TidyWrites(v), TidyWrites(w)
  PROVE  v \o w \in Seq(S) /\ TidyWrites(v \o w)
<1>1. /\ v \o w \in Seq(S) /\ Len(v \o w) = Len(v) + Len(w) /\ Len(v) \in Nat /\ Len(w) \in Nat
      /\ \A k \in 1 .. Len(v \o w) :
           (v \o w)[k] = IF k <= Len(v) THEN v[k] ELSE w[k - Len(v)]
  BY ConcatProperties
<1>2. ASSUME NEW k \in 1 .. Len(v \o w)
      PROVE  Tidy((v \o w)[k].content)
  <2>1. CASE k <= Len(v)
    BY <1>1, <2>1 DEF TidyWrites
  <2>2. CASE ~(k <= Len(v))
    <3>1. k - Len(v) \in 1 .. Len(w)
      BY <1>1, <2>2
    <3> QED
      BY <1>1, <2>2, <3>1 DEF TidyWrites
  <2> QED
    BY <2>1, <2>2
<1> QED
  BY <1>1, <1>2 DEF TidyWrites

(***************************************************************************)
(* What the driver writes is tidy if what it has read is.                  *)
(***************************************************************************)
LEMMA TidyCalls ==
  ASSUME NEW V, Settled(V), \A c \in Clusters : Tidy(disk[c]), NEW parent \in OffFAT,
         NEW name \in Names
  PROVE  /\ TidyWrites(FolderWritten(parent, name).writes)
         /\ \A size, version :
              ClusterNeed(size) \in Nat => TidyWrites(FileWritten(parent, name, size, version).writes)
         /\ Mirrored(Deleted(parent, name), V) => TidyWrites(Deleted(parent, name).writes)
<1> DEFINE table == AsTable(disk[parent])
<1>1. table \in Tables /\ Tidy(Table(table)) /\ name \in Called
  <2>1. table \in Tables /\ Tidy(disk[parent])
    BY ReadsAs, EmptyTyped DEF Settled, Disks
  <2>2. Tidy(Table(table))
    BY <2>1, TidyContents
  <2> QED
    BY <2>1, <2>2 DEF Called
<1> HIDE DEF table
<1>2. /\ \A size, c : Tidy(Table(WithEntry(table, UsedEntry(name, c, size))))
      /\ \A c : Tidy(Table(init_directory_table(name, c)))
      /\ \A i : Tidy(Table([table EXCEPT ![i] = EmptyEntry]))
  BY <1>1, TidyContents
<1>3. Tidy(Blank) /\ (\A m : Tidy(FATImage(m))) /\ \A v, k : Tidy(Data(v, k))
  <2>1. Blank.kind # "dir" /\ (\A m : FATImage(m).kind # "dir") /\ \A v, k : Data(v, k).kind # "dir"
    BY DEF Blank, FATImage, Data
  <2> QED
    BY <2>1, TidyContents
<1>4. \A c, content : write_cluster(c, content).content = content
  BY DEF write_cluster
<1>5. \A ret : Refused(ret).writes = <<>> /\ TidyWrites(<<>>)
  BY DEF Refused, Effect, TidyWrites
<1>6. TidyWrites(FolderWritten(parent, name).writes)
  <2>1. PICK s, map : s = Allocation(fat, 1) /\ map = Linked(fat, s)
    OBVIOUS
  <2>2. PICK w : w = FolderWrites(write_cluster(s[1], Table(init_directory_table(name, parent))),
                       write_cluster(FAT_CLUSTER_NUMBER, FATImage(map)),
                       write_cluster(parent, Table(WithEntry(table, UsedEntry(name, s[1], 0)))))
    OBVIOUS
  <2>3. Len(w) = 3 /\ \A k \in 1 .. 3 : Tidy(w[k].content)
    BY <1>2, <1>3, <1>4, <2>2 DEF FolderWrites
  <2>4. TidyWrites(w)
    BY <2>3 DEF TidyWrites
  <2>5. FolderWritten(parent, name)
          = IF fat[parent] = FAT32_FAT_EMPTY_ENTRY THEN Refused(2) ELSE Effect(0, map, w)
    BY <2>1, <2>2, Zenon DEF FolderWritten, table
  <2>6. Effect(0, map, w).writes = w
    BY DEF Effect
  <2>7. CASE fat[parent] = FAT32_FAT_EMPTY_ENTRY
    BY <1>5, <2>5, <2>7
  <2>8. CASE fat[parent] # FAT32_FAT_EMPTY_ENTRY
    BY <2>4, <2>5, <2>6, <2>8
  <2> QED
    BY <2>7, <2>8
<1>7. ASSUME NEW size, NEW version, ClusterNeed(size) \in Nat
      PROVE  TidyWrites(FileWritten(parent, name, size, version).writes)
  <2>1. PICK s, map : s = Allocation(fat, ClusterNeed(size)) /\ map = Linked(fat, s)
    OBVIOUS
  <2>2. PICK t : t = WithEntry(table, UsedEntry(name, s[1], size))
    OBVIOUS
  <2>3. PICK w : w = FileWrites(parent, t, s, version, map)
    OBVIOUS
  <2>4. Len(s) \in Nat
    BY <1>7, <2>1 DEF Allocation
  <2>5. TidyWrites(w)
    <3> DEFINE p == FileParts(s, version)
               S == {write_cluster(c, content) : c \in {parent, FAT_CLUSTER_NUMBER} \cup {s[k] : k \in 1 .. Len(s)},
                       content \in {e \in {Table(t), FATImage(map), Blank}
                                            \cup {Data(version, k) : k \in 1 .. Len(s)} : Tidy(e)}}
               first == write_cluster(parent, Table(t))
               last == write_cluster(FAT_CLUSTER_NUMBER, FATImage(map))
    <3>1. Tidy(Table(t)) /\ Tidy(FATImage(map))
      BY <1>2, <1>3, <2>2
    <3>2. first \in S /\ last \in S
      BY <3>1, SMTT(30)
    <3>3. \A e \in S : Tidy(e.content)
      BY <1>4
    <3>4. p \in Seq(S)
      <4>1. ASSUME NEW k \in 1 .. 2 * Len(s)
            PROVE  p[k] \in S
        <5>1. (k + 1) \div 2 \in 1 .. Len(s)
          BY <2>4
        <5>2. PICK part \in 1 .. Len(s) : part = (k + 1) \div 2
          BY <5>1
        <5>3. p[k] = write_cluster(s[part], IF k % 2 = 1 THEN Blank ELSE Data(version, part))
          BY <5>2 DEF FileParts
        <5>4. PICK content : content = IF k % 2 = 1 THEN Blank ELSE Data(version, part)
          OBVIOUS
        <5>5. content \in {Blank} \cup {Data(version, l) : l \in 1 .. Len(s)} /\ Tidy(content)
          BY <1>3, <5>4
        <5>6. s[part] \in {s[l] : l \in 1 .. Len(s)}
          OBVIOUS
        <5> QED
          BY <5>3, <5>4, <5>5, <5>6
      <4>2. 2 * Len(s) \in Nat /\ p = [k \in 1 .. 2 * Len(s) |-> p[k]]
        BY <2>4 DEF FileParts
      <4> HIDE DEF p, S
      <4> QED
        BY <4>1, <4>2, IsASeq
    <3> HIDE DEF p, S, first, last
    <3>5. \A v \in Seq(S) : TidyWrites(v)
      BY <3>3 DEF TidyWrites
    <3>6. <<first>> \o p \in Seq(S) /\ <<last>> \in Seq(S)
      BY <3>2, <3>4
    <3>7. (<<first>> \o p) \o <<last>> \in Seq(S)
      BY <3>6
    <3>8. w = (<<first>> \o p) \o <<last>>
      BY <2>3 DEF FileWrites, p, first, last
    <3> QED
      BY <3>5, <3>7, <3>8
  <2>6. FileWritten(parent, name, size, version)
          = CASE fat[parent] = FAT32_FAT_EMPTY_ENTRY -> Refused(2)
              [] fat[parent] # FAT32_FAT_EMPTY_ENTRY /\ UnusedPositions(table) = {} -> Refused(-1)
              [] OTHER -> Effect(0, map, w)
    BY <2>1, <2>2, <2>3, Zenon DEF FileWritten, FileWrites, FileParts, table
  <2>7. Effect(0, map, w).writes = w
    BY DEF Effect
  <2> QED
    BY <1>5, <2>5, <2>6, <2>7
<1>8. ASSUME Mirrored(Deleted(parent, name), V)
      PROVE  TidyWrites(Deleted(parent, name).writes)
  <2>1. PICK i : i = Min(Matches(table, name))
    OBVIOUS
  <2>2. PICK s : s = Chain(fat, table[i].cluster)
    OBVIOUS
  <2>3. PICK map : map = Freed(fat, s)
    OBVIOUS
  <2>4. PICK w : w = Blanks(s) \o <<write_cluster(FAT_CLUSTER_NUMBER, FATImage(map)),
                                   write_cluster(parent, Table([table EXCEPT ![i] = EmptyEntry]))>>
    OBVIOUS
  <2>5. Deleted(parent, name) = IF Matches(table, name) = {} THEN Refused(1) ELSE Effect(0, map, w)
    BY <2>1, <2>2, <2>3, <2>4, Zenon DEF Deleted, Blanks, table
  <2>6. CASE Matches(table, name) = {}
    BY <1>5, <2>5, <2>6
  <2>7. CASE Matches(table, name) # {}
    <3>1. table[i].cluster \in Clusters
      BY <1>1, <2>1, <2>7, LookupFacts, EmptyTyped
    <3>2. s \in Seq(Clusters) /\ Len(s) \in Nat
      BY <2>2, <3>1, ChainTyped
    <3> DEFINE S == {e \in [cluster : Clusters \cup {parent}, content : {Blank, FATImage(map),
                                Table([table EXCEPT ![i] = EmptyEntry])}] : Tidy(e.content)}
               first == write_cluster(FAT_CLUSTER_NUMBER, FATImage(map))
               second == write_cluster(parent, Table([table EXCEPT ![i] = EmptyEntry]))
    <3>3. first \in S /\ second \in S
      BY <1>2, <1>3, EmptyTyped DEF write_cluster
    <3>4. Blanks(s) \in Seq(S)
      BY <1>3, <3>2 DEF Blanks, write_cluster
    <3>5. \A e \in S : Tidy(e.content)
      OBVIOUS
    <3> HIDE DEF S, first, second
    <3>6. Blanks(s) \o <<first, second>> \in Seq(S)
      BY <3>3, <3>4
    <3>7. w = Blanks(s) \o <<first, second>>
      BY <2>4 DEF first, second
    <3>8. TidyWrites(w)
      BY <3>5, <3>6, <3>7 DEF TidyWrites
    <3> QED
      BY <2>5, <2>7, <3>8 DEF Effect
  <2> QED
    BY <2>6, <2>7
<1> QED
  BY <1>6, <1>7, <1>8

(***************************************************************************)
(* A new disk has nothing on it.                                           *)
(***************************************************************************)
LEMMA InitTidy == Init => TidyInv
<1>1. Blank.kind # "dir"
  BY DEF Blank
<1>2. Tidy(Blank)
  BY <1>1, TidyContents
<1> QED
  BY <1>2 DEF Init, TidyInv, TidyWrites

(***************************************************************************)
(* The driver leaves no used entry without a name.                         *)
(***************************************************************************)
LEMMA TidyNext ==
  ASSUME FATInv, TidyInv, [Next]_vars
  PROVE  TidyInv'
<1>1. ASSUME Ready, NEW e, NEW outcome, Perform(e, outcome), TidyWrites(e.writes)
      PROVE  TidyInv'
  BY <1>1 DEF Perform, TidyInv, TidyWrites
<1>2. ASSUME Ready
      PROVE  Settled(Versions)
  BY <1>2, ReadySettled DEF Ready, FATInv
<1>3. ASSUME UNCHANGED <<disk, pending>>
      PROVE  TidyInv'
  BY <1>3 DEF TidyInv, TidyWrites
<1>4. ASSUME NEW path \in Paths
      PROVE  Last(path) \in Names
  BY PathFacts
<1>5. CASE UNCHANGED vars
  BY <1>3, <1>5 DEF vars
<1>6. CASE initialize_filesystem_fat32
  <2>1. CASE is_empty_storage
    <3>1. disk' = disk /\ pending' = create_fat32
      BY <1>6, <2>1 DEF initialize_filesystem_fat32
    <3>2. Signature.kind # "dir" /\ FATImage(FormattedFAT).kind # "dir" /\ "root" \in Called
      BY DEF Signature, FATImage, Called
    <3>3. /\ Tidy(Signature) /\ Tidy(FATImage(FormattedFAT))
          /\ Tidy(Table(init_directory_table("root", ROOT_CLUSTER_NUMBER)))
      BY <3>2, TidyContents
    <3>4. TidyWrites(create_fat32)
      BY <3>3 DEF TidyWrites, create_fat32, write_cluster
    <3> QED
      BY <3>1, <3>4 DEF TidyInv, TidyWrites
  <2>2. CASE ~is_empty_storage
    <3>1. disk' = disk /\ pending' = <<>>
      BY <1>6, <2>2 DEF initialize_filesystem_fat32
    <3> QED
      BY <3>1 DEF TidyInv, TidyWrites
  <2> QED
    BY <2>1, <2>2
<1>7. CASE write_clusters
  <2>1. /\ pending # <<>> /\ pending' = Tail(pending)
        /\ disk' = [disk EXCEPT ![Head(pending).cluster] = Head(pending).content]
    BY <1>7 DEF write_clusters
  <2>2. disk \in Disks(Versions) /\ pending \in Seq(Writes(Versions))
    BY <2>1 DEF FATInv, InStep
  <2>3. Head(pending) = pending[1] /\ 1 \in 1 .. Len(pending)
    BY <2>1, <2>2
  <2>4. Tidy(Head(pending).content)
    BY <2>3 DEF TidyInv, TidyWrites
  <2>5. \A c \in Clusters : disk'[c] = disk[c] \/ disk'[c] = Head(pending).content
    BY <2>1, <2>2 DEF Disks
  <2>6. \A k \in 1 .. Len(Tail(pending)) : Tail(pending)[k] = pending[k + 1] /\ k + 1 \in 1 .. Len(pending)
    BY <2>1, <2>2, HeadTailProperties
  <2>7. TidyWrites(Tail(pending))
    BY <2>6 DEF TidyInv, TidyWrites
  <2> QED
    BY <2>1, <2>4, <2>5, <2>7 DEF TidyInv, TidyWrites
<1>8. CASE PowerOff
  BY <1>3, <1>8 DEF PowerOff
<1>9. ASSUME NEW path \in Paths, CarefulWriteFolder(path)
      PROVE  TidyInv'
  <2>1. Ready
    BY <1>9 DEF CarefulWriteFolder
  <2>2. PICK e, outcome : e = FolderWritten(ParentOf(path), Last(path)) /\ Perform(e, outcome)
    BY <1>9 DEF CarefulWriteFolder, WriteFolder
  <2>3. TidyWrites(e.writes)
    BY <1>2, <1>4, <2>1, <2>2, ParentFacts, TidyCalls DEF TidyInv
  <2> QED
    BY <1>1, <2>1, <2>2, <2>3
<1>10. ASSUME NEW path \in Paths, NEW size \in FileSizes, NEW version \in Versions,
              CarefulWriteFile(path, size, version)
       PROVE  TidyInv'
  <2>1. Ready
    BY <1>10 DEF CarefulWriteFile
  <2>2. PICK e, outcome :
          e = FileWritten(ParentOf(path), Last(path), size, version) /\ Perform(e, outcome)
    BY <1>10 DEF CarefulWriteFile, WriteFile
  <2>3. ClusterNeed(size) \in Nat
    BY SizesAssumption, NeedFacts
  <2>4. TidyWrites(e.writes)
    BY <1>2, <1>4, <2>1, <2>2, <2>3, ParentFacts, TidyCalls DEF TidyInv
  <2> QED
    BY <1>1, <2>1, <2>2, <2>4
<1>11. ASSUME NEW path \in Paths, CarefulDelete(path)
       PROVE  TidyInv'
  <2>1. Ready
    BY <1>11 DEF CarefulDelete
  <2>2. PICK e, outcome : e = Deleted(ParentOf(path), Last(path)) /\ Perform(e, outcome)
    BY <1>11 DEF CarefulDelete, delete
  <2>3. Mirrored(Deleted(ParentOf(path), Last(path)), Versions)
    BY <1>2, <2>1, ParentFacts, DeletedMirrored
  <2>4. TidyWrites(e.writes)
    BY <1>2, <1>4, <2>1, <2>2, <2>3, ParentFacts, TidyCalls DEF TidyInv
  <2> QED
    BY <1>1, <2>1, <2>2, <2>4
<1>12. CASE Ready /\ WriteNowhere
  BY <1>3, <1>12 DEF WriteNowhere, Perform, Refused, Effect, Ready
<1>13. CASE Reads
  BY <1>3, <1>13 DEF Reads, read, read_directory, Answers
<1> QED
  BY <1>5, <1>6, <1>7, <1>8, <1>9, <1>10, <1>11, <1>12, <1>13 DEF Next, Calls

(***************************************************************************)
(* The driver leaves no used entry without a name, on the disk or on its   *)
(* way there: what its tables hold can be found by name, until mv comes    *)
(* (fat32.c:275-376, 413-456).                                             *)
(***************************************************************************)
THEOREM TidyInvariant == Spec => []TidyInv
<1>1. FATInv /\ TidyInv /\ [Next]_vars => TidyInv'
  BY TidyNext
<1> QED
  BY <1>1, InitTidy, FATInvariant, PTL DEF Spec

(***************************************************************************)
(* The reachable directories are the folders of the tree, and what is in   *)
(* their tables is the tree's listing.                                     *)
(***************************************************************************)
LEMMA DirectoriesAre ==
  ASSUME NEW V, NEW at, Home(V, at)
  PROVE  /\ Directories = {at[x] : x \in DOMAIN at}
         /\ \A x \in DOMAIN at, j \in Rows :
              EntryAt(<<at[x], j>>) = Listing(disk, at)[x][j]
<1> DEFINE L == Listing(disk, at)
<1>1. disk \in Disks(V) /\ Sound(disk, fat, at) /\ fat = AsFAT(disk[FAT_CLUSTER_NUMBER])
  BY Held DEF Home, Settled
<1>2. TreeOn(disk, at) /\ Shaped(at, L)
  BY <1>1, SoundTree
<1>3. DOMAIN at \subseteq Paths \cup {<<>>} /\ at[<<>>] = ROOT_CLUSTER_NUMBER /\ <<>> \in DOMAIN at
  BY <1>2 DEF Shaped
<1>4. \A p \in Paths : Node(disk, p) = Folder <=> p \in DOMAIN at
  BY <1>1, FolderNodes
<1>5. \A p \in Paths : p \in DOMAIN at => DirectoryCluster(disk, p) = at[p]
  BY <1>1, <1>2, FolderClusters DEF PlaceOf
<1>6. Directories = {at[x] : x \in DOMAIN at}
  <2>1. ASSUME NEW c \in Directories
        PROVE  \E x \in DOMAIN at : c = at[x]
    BY <1>3, <1>4, <1>5 DEF Directories
  <2>2. ASSUME NEW x \in DOMAIN at
        PROVE  at[x] \in Directories
    <3>1. CASE x = <<>>
      BY <3>1, <1>3 DEF Directories
    <3>2. CASE x # <<>>
      <4>1. x \in Paths
        BY <3>2, <1>3
      <4> QED
        BY <4>1, <1>4, <1>5 DEF Directories
    <3> QED
      BY <3>1, <3>2
  <2> QED
    BY <2>1, <2>2
<1>7. \A x \in DOMAIN at, j \in Rows : EntryAt(<<at[x], j>>) = L[x][j]
  BY <1>1, <1>2, ListingFacts DEF EntryAt
<1> QED
  BY <1>6, <1>7

(***************************************************************************)
(* With no used entry without a name, the used entries are the tree's.     *)
(***************************************************************************)
LEMMA UsedEntriesAre ==
  ASSUME NEW V, NEW at, Home(V, at), TidyInv
  PROVE  /\ \A e \in UsedEntries : \E x, j :
              /\ Live(Listing(disk, at), x, j) /\ e = <<at[x], j>>
              /\ EntryAt(e) = Listing(disk, at)[x][j]
         /\ \A x, j : Live(Listing(disk, at), x, j) =>
              <<at[x], j>> \in UsedEntries /\ EntryAt(<<at[x], j>>) = Listing(disk, at)[x][j]
<1>1. PICK L : L = Listing(disk, at)
  OBVIOUS
<1>2. Shaped(at, L) /\ DOMAIN L = DOMAIN at
  BY <1>1, SoundTree DEF Home, Listing
<1>3. \A x \in DOMAIN at, j \in Rows : EntryAt(<<at[x], j>>) = L[x][j]
  BY <1>1, DirectoriesAre
<1>4. \A e : e \in UsedEntries <=>
             \E x \in DOMAIN at, j \in Rows : e = <<at[x], j>> /\ EntryAt(e).used
  <2>1. UsedEntries = {e \in Directories \X Rows : EntryAt(e).used}
    BY DEF UsedEntries, EntryAt, Rows
  <2> QED
    BY <2>1, DirectoriesAre
<1>5. ASSUME NEW x \in DOMAIN at, NEW j \in Rows
      PROVE  L[x][j].used <=> L[x][j].name # NoName
  <2>1. at[x] \in Clusters /\ j \in Positions
    BY <1>2, EmptyTyped DEF Shaped, Rows
  <2>2. L[x][j] = AsTable(disk[at[x]])[j]
    BY <1>3 DEF EntryAt
  <2>3. L[x][j].used => L[x][j].name # NoName
    BY <2>1, <2>2 DEF TidyInv, Tidy
  <2>4. Vacant(x, L[x][j]) \/ (L[x][j].used /\ L[x][j].name # NoName)
    BY <1>2 DEF Shaped
  <2>5. ~EmptyEntry.used /\ EmptyEntry.name = NoName
    BY DEF EmptyEntry
  <2> QED
    BY <2>3, <2>4, <2>5 DEF Vacant
<1>6. ASSUME NEW e \in UsedEntries
      PROVE  \E x, j : Live(L, x, j) /\ e = <<at[x], j>> /\ EntryAt(e) = L[x][j]
  <2>1. PICK x \in DOMAIN at, j \in Rows : e = <<at[x], j>> /\ EntryAt(e).used
    BY <1>4
  <2>2. EntryAt(e) = L[x][j]
    BY <1>3, <2>1
  <2>3. Live(L, x, j)
    BY <1>2, <1>5, <2>1, <2>2 DEF Live
  <2> QED
    BY <2>1, <2>2, <2>3
<1>7. ASSUME NEW x, NEW j, Live(L, x, j)
      PROVE  <<at[x], j>> \in UsedEntries /\ EntryAt(<<at[x], j>>) = L[x][j]
  <2>1. x \in DOMAIN at /\ j \in Rows /\ L[x][j].name # NoName
    BY <1>2, <1>7 DEF Live
  <2> QED
    BY <1>3, <1>4, <1>5, <2>1
<1> QED
  BY <1>1, <1>6, <1>7

(***************************************************************************)
(* Between calls every entry of every reachable directory has a complete   *)
(* chain of as many clusters as its size needs, no cluster is in two       *)
(* chains, and every allocated cluster is in one, after any history of     *)
(* calls, for disks, tables and names of any number (fat32.c:275-376,      *)
(* 413-456).                                                               *)
(***************************************************************************)
THEOREM ChainsAreSound == Spec => []ChainsSound
<1>1. DiskInv /\ TidyInv => ChainsSound
  <2> SUFFICES ASSUME DiskInv, TidyInv, Ready
               PROVE  ChainsSound
    BY DEF ChainsSound
  <2>1. PICK at : Home(Versions, at)
    BY AtHome DEF DiskInv
  <2> DEFINE L == Listing(disk, at)
  <2>2. Allotted(fat, L) /\ Shaped(at, L) /\ DOMAIN L = DOMAIN at
    BY <2>1, SoundTree DEF Home, Listing
  <2>3. /\ \A e \in UsedEntries : \E x, j :
             Live(L, x, j) /\ e = <<at[x], j>> /\ EntryAt(e) = L[x][j]
        /\ \A x, j : Live(L, x, j) =>
             <<at[x], j>> \in UsedEntries /\ EntryAt(<<at[x], j>>) = L[x][j]
    BY <2>1, UsedEntriesAre
  <2> HIDE DEF L
  <2>4. ASSUME NEW e \in UsedEntries
        PROVE  /\ Complete(fat, Chain(fat, EntryAt(e).cluster))
               /\ Len(Chain(fat, EntryAt(e).cluster))
                    = IF EntryAt(e).filesize = 0 THEN 1 ELSE ClusterNeed(EntryAt(e).filesize)
    <3>1. PICK x, j : Live(L, x, j) /\ EntryAt(e) = L[x][j]
      BY <2>3
    <3>2. Complete(fat, ChainOf(fat, L, x, j)) /\ Len(ChainOf(fat, L, x, j)) = NeedOf(L[x][j])
      BY <3>1, <2>2 DEF Allotted
    <3> QED
      BY <3>1, <3>2 DEF ChainOf, NeedOf
  <2>5. ASSUME NEW e \in UsedEntries, NEW f \in UsedEntries, e # f
        PROVE  ClustersOf(e) \cap ClustersOf(f) = {}
    <3>1. PICK x, j : Live(L, x, j) /\ EntryAt(e) = L[x][j] /\ e = <<at[x], j>>
      BY <2>3
    <3>2. PICK y, k : Live(L, y, k) /\ EntryAt(f) = L[y][k] /\ f = <<at[y], k>>
      BY <2>3
    <3>3. ~(x = y /\ j = k)
      BY <2>5, <3>1, <3>2
    <3>4. ToSet(ChainOf(fat, L, x, j)) \cap ToSet(ChainOf(fat, L, y, k)) = {}
      BY <3>1, <3>2, <3>3, <2>2 DEF Allotted
    <3> QED
      BY <3>1, <3>2, <3>4 DEF ChainOf, ClustersOf
  <2>6. ASSUME NEW c
        PROVE  c \in Clusters /\ fat[c] # FAT32_FAT_EMPTY_ENTRY
                 <=> c \in {0, 1, 2} \cup UNION {ClustersOf(e) : e \in UsedEntries}
    <3>1. c \in UNION {ClustersOf(e) : e \in UsedEntries}
            <=> \E x, j : Live(L, x, j) /\ c \in ToSet(ChainOf(fat, L, x, j))
      <4>1. c \in UNION {ClustersOf(e) : e \in UsedEntries} <=> \E e \in UsedEntries : c \in ClustersOf(e)
        OBVIOUS
      <4>2. ASSUME NEW e \in UsedEntries, c \in ClustersOf(e)
            PROVE  \E x, j : Live(L, x, j) /\ c \in ToSet(ChainOf(fat, L, x, j))
        <5>1. PICK x, j : Live(L, x, j) /\ EntryAt(e) = L[x][j]
          BY <2>3
        <5>2. c \in ToSet(ChainOf(fat, L, x, j))
          BY <4>2, <5>1 DEF ChainOf, ClustersOf
        <5> QED
          BY <5>1, <5>2
      <4>3. ASSUME NEW x, NEW j, Live(L, x, j), c \in ToSet(ChainOf(fat, L, x, j))
            PROVE  \E e \in UsedEntries : c \in ClustersOf(e)
        <5>1. <<at[x], j>> \in UsedEntries /\ EntryAt(<<at[x], j>>) = L[x][j]
          BY <2>3, <4>3
        <5>2. c \in ClustersOf(<<at[x], j>>)
          BY <4>3, <5>1 DEF ChainOf, ClustersOf
        <5> QED
          BY <5>1, <5>2
      <4> QED
        BY <4>1, <4>2, <4>3
    <3>2. ASSUME NEW x, NEW j, Live(L, x, j)
          PROVE  ToSet(ChainOf(fat, L, x, j)) \subseteq Clusters
      <4>1. L[x][j] \in PointingOff
        BY <3>2, <2>2 DEF Live, Shaped
      <4>2. L[x][j].cluster \in Clusters
        BY <4>1, EmptyTyped DEF PointingOff
      <4> QED
        BY <4>2, ChainTyped DEF ChainOf
    <3>3. c \in {0, 1, 2} => c \in Clusters
      BY SizeFacts
    <3>4. c \in Clusters => (fat[c] # FAT32_FAT_EMPTY_ENTRY <=>
            c \in {0, 1, 2} \/ \E x, j : Live(L, x, j) /\ c \in ToSet(ChainOf(fat, L, x, j)))
      BY <2>2 DEF Allotted
    <3> QED
      BY <3>1, <3>2, <3>3, <3>4
  <2>7. {c \in Clusters : fat[c] # FAT32_FAT_EMPTY_ENTRY}
          = {0, 1, 2} \cup UNION {ClustersOf(e) : e \in UsedEntries}
    BY <2>6
  <2> QED
    BY <2>4, <2>5, <2>7, Zenon DEF ChainsSound
<1> QED
  BY <1>1, DiskInvariant, TidyInvariant, PTL

-----------------------------------------------------------------------------
(* The file store *)

\* Entry i of the folder's table is the one a read of the path finds.
Finds(path, i, entry) ==
  /\ Matches(AsTable(disk[ParentOf(path)]), Last(path)) # {}
  /\ i = Min(Matches(AsTable(disk[ParentOf(path)]), Last(path)))
  /\ entry = AsTable(disk[ParentOf(path)])[i]

(***************************************************************************)
(* The entry found is the tree's: it has a whole chain, and its attribute  *)
(* and its size tell the same kind.                                        *)
(***************************************************************************)
LEMMA FindsEntry ==
  ASSUME NEW V, NEW at, Home(V, at), NEW path \in Paths, IsDirectory(Front(path)),
         NotItself(path), NEW i, NEW entry, Finds(path, i, entry)
  PROVE  /\ Node(disk, path) = NodeOfEntry(disk, entry) /\ Node(disk, path) # Absent
         /\ Complete(fat, Chain(fat, entry.cluster)) /\ fat = AsFAT(disk[FAT_CLUSTER_NUMBER])
         /\ Len(Chain(fat, entry.cluster)) = NeedOf(entry)
         /\ entry.attribute = AttributeOf(entry.filesize)
         /\ entry.filesize = 0 => disk[entry.cluster].kind = "dir"
<1> DEFINE x == Front(path)
           name == Last(path)
           L == Listing(disk, at)
<1>1. /\ disk \in Disks(V) /\ fat = AsFAT(disk[FAT_CLUSTER_NUMBER])
      /\ Sound(disk, fat, at) /\ x \in DOMAIN at /\ ParentOf(path) = at[x]
      /\ name \in Names /\ Append(x, name) = path
  BY HomeFacts
<1>2. TreeOn(disk, at) /\ Shaped(at, L) /\ Allotted(fat, L) /\ Seated(disk, at, L)
  BY <1>1, SoundTree
<1>3. PICK table : table = AsTable(disk[at[x]])
  OBVIOUS
<1>4. Matches(table, name) = Listed(table, name)
  <2>1. 0 \notin Matches(table, name)
    BY <1>1, <1>3 DEF NotItself, Matches
  <2> QED
    BY <2>1 DEF Listed
<1>5. i \in Matches(table, name) /\ entry = table[i]
  <2>1. Matches(table, name) # {} /\ i = Min(Matches(table, name)) /\ entry = table[i]
    BY <1>1, <1>3 DEF Finds
  <2>2. Matches(table, name) \subseteq Nat
    BY SizeFacts DEF Matches
  <2> QED
    BY <2>1, <2>2, MinProperty
<1>6. Leads(L, x, i, path) /\ entry = L[x][i] /\ Live(L, x, i) /\ x \in DOMAIN at /\ i \in Rows
  <2>1. Leads(L, x, i, Append(x, name))
    <3> HIDE DEF x, name
    <3> QED
      BY <1>1, <1>2, <1>3, <1>4, <1>5, ListedFacts
  <2>2. x \in DOMAIN at /\ i \in Rows
    BY <1>1, <2>1 DEF Leads, Live
  <2>3. entry = L[x][i]
    BY <1>3, <1>5, <2>2 DEF Listing
  <2> QED
    BY <1>1, <2>1, <2>2, <2>3 DEF Leads
<1> HIDE DEF x, name, L
<1>7. Node(disk, path) = NodeOfEntry(disk, entry)
  BY <1>1, <1>2, <1>6, NodeFacts DEF L
<1>8. Node(disk, path) # Absent
  BY <1>7, EntryKind
<1>9. Complete(fat, Chain(fat, entry.cluster)) /\ Len(Chain(fat, entry.cluster)) = NeedOf(entry)
  BY <1>2, <1>6 DEF Allotted, ChainOf
<1>10. entry.attribute = AttributeOf(entry.filesize)
  BY <1>2, <1>6 DEF Seated
<1>11. entry.filesize = 0 => disk[entry.cluster].kind = "dir"
  <2>1. entry.filesize = 0 => path \in DOMAIN at /\ at[path] = entry.cluster
    BY <1>2, <1>6 DEF Shaped, Leads
  <2> QED
    BY <1>2, <2>1 DEF Seated
<1> QED
  BY <1>1, <1>7, <1>8, <1>9, <1>10, <1>11

(***************************************************************************)
(* cat and cp: a file that is read whole is the file that is there.        *)
(***************************************************************************)
LEMMA FileReadGives ==
  ASSUME NEW V, NEW at, Home(V, at), NEW path \in Paths, IsDirectory(Front(path)),
         NotItself(path), NEW size, NEW r \in {FileRead(ParentOf(path), Last(path), size)},
         r.ret = 0
  PROVE  Node(disk, path) # Absent /\ FileOf(r.data, r.filesize) = Node(disk, path)
<1>1. PICK found, i, entry, chain, count :
        /\ found = Matches(AsTable(disk[ParentOf(path)]), Last(path))
        /\ i = Min(found) /\ entry = AsTable(disk[ParentOf(path)])[i]
        /\ chain = Chain(fat, entry.cluster)
        /\ count = Min({Len(chain), ReadableClusters(size)})
  OBVIOUS
<1>2. r = CASE found = {} -> [ret |-> 3]
            [] found # {} /\ entry.filesize = 0 -> [ret |-> 1]
            [] OTHER -> [ret |-> IF count = Len(chain) THEN 0 ELSE 2,
                         data |-> [k \in 1 .. count |-> disk[chain[k]]],
                         filesize |-> entry.filesize]
  BY <1>1, Zenon DEF FileRead
<1>3. found # {} /\ entry.filesize # 0 /\ count = Len(chain)
      /\ r.data = [k \in 1 .. count |-> disk[chain[k]]] /\ r.filesize = entry.filesize
  BY <1>2, SMTT(30)
<1>4. Finds(path, i, entry)
  BY <1>1, <1>3 DEF Finds
<1>5. /\ Node(disk, path) = NodeOfEntry(disk, entry) /\ Node(disk, path) # Absent
      /\ Complete(fat, chain) /\ fat = AsFAT(disk[FAT_CLUSTER_NUMBER])
      /\ entry.attribute = AttributeOf(entry.filesize)
  BY <1>1, <1>4, FindsEntry
<1>6. NodeOfEntry(disk, entry)
        = FileOf([k \in 1 .. Len(chain) |-> disk[chain[k]]], entry.filesize)
  BY <1>1, <1>3, <1>5, Zenon DEF NodeOfEntry
<1>7. r.data = [k \in 1 .. Len(chain) |-> disk[chain[k]]]
  BY <1>3
<1> QED
  BY <1>3, <1>5, <1>6, <1>7, Zenon

(***************************************************************************)
(* ls and cd: what is read as a directory is a folder.                     *)
(***************************************************************************)
LEMMA DirectoryReadGives ==
  ASSUME NEW V, NEW at, Home(V, at), NEW path \in Paths, IsDirectory(Front(path)),
         NotItself(path), NEW r \in {DirectoryRead(ParentOf(path), Last(path))}, r.ret = 0
  PROVE  Node(disk, path) = Folder /\ r.data.kind = "dir"
<1>1. PICK found, i, entry :
        /\ found = Matches(AsTable(disk[ParentOf(path)]), Last(path))
        /\ i = Min(found) /\ entry = AsTable(disk[ParentOf(path)])[i]
  OBVIOUS
<1>2. r = CASE found = {} -> [ret |-> 2]
            [] found # {} /\ entry.filesize # 0 -> [ret |-> 1]
            [] OTHER -> [ret |-> 0, data |-> disk[entry.cluster]]
  BY <1>1, Zenon DEF DirectoryRead
<1>3. found # {} /\ entry.filesize = 0 /\ r.data = disk[entry.cluster]
  BY <1>2
<1>4. Finds(path, i, entry)
  BY <1>1, <1>3 DEF Finds
<1>5. /\ Node(disk, path) = NodeOfEntry(disk, entry)
      /\ Complete(fat, Chain(fat, entry.cluster)) /\ fat = AsFAT(disk[FAT_CLUSTER_NUMBER])
      /\ Len(Chain(fat, entry.cluster)) = 1
      /\ entry.attribute = AttributeOf(entry.filesize) /\ disk[entry.cluster].kind = "dir"
  BY <1>3, <1>4, FindsEntry DEF NeedOf
<1>6. NodeOfEntry(disk, entry) = Folder
  BY <1>3, <1>5, Zenon DEF NodeOfEntry
<1> QED
  BY <1>3, <1>5, <1>6

LEMMA AnswerFacts ==
  /\ \A r : r.op \notin {"read", "read_directory"} => Answer(r) = Abstract!NoAnswer
  /\ \A r : r.ret # 0 => Answer(r) = Abstract!NoAnswer
  /\ Answer(NoResult) = Abstract!NoAnswer
  /\ \A path, ret : Answer(Outcome("write", path, ret)) = Abstract!NoAnswer
<1>1. Abstract!NoAnswer = [path |-> <<>>, node |-> Absent]
  BY DEF Abstract!NoAnswer, Abstract!Absent, Absent
<1>2. \A r : r.op \notin {"read", "read_directory"} => Answer(r) = Abstract!NoAnswer
  BY <1>1 DEF Answer
<1>3. \A r : r.ret # 0 => Answer(r) = Abstract!NoAnswer
  BY <1>1 DEF Answer
<1>4. NoResult.op \notin {"read", "read_directory"}
  BY DEF NoResult
<1>5. \A path, ret : Outcome("write", path, ret).op \notin {"read", "read_directory"}
  BY DEF Outcome
<1> QED
  BY <1>2, <1>3, <1>4, <1>5, Zenon

(***************************************************************************)
(* A read gives what is at the path, or nothing.                           *)
(***************************************************************************)
LEMMA ReadsGive ==
  ASSUME DiskInv, Reads
  PROVE  \/ Answer(result') = Abstract!NoAnswer
         \/ \E path \in Paths : /\ Node(FinalDisk, path) # Absent
                                /\ Answer(result') = [path |-> path, node |-> Node(FinalDisk, path)]
<1>1. Ready /\ FinalDisk = disk
  BY ReadyDisk DEF Reads, DiskInv
<1>2. PICK at : Home(Versions, at)
  BY <1>1, AtHome DEF DiskInv
<1>3. PICK path \in Paths :
        /\ IsDirectory(Front(path)) /\ NotItself(path)
        /\ read_directory(path) \/ \E size \in BufferSizes : read(path, size)
  BY DEF Reads
<1>4. CASE read_directory(path)
  <2>1. PICK r \in {DirectoryRead(ParentOf(path), Last(path))} :
          Answers([op |-> "read_directory", path |-> path, ret |-> r.ret, got |-> r])
    BY <1>4 DEF read_directory
  <2>2. PICK a : a = result'
    OBVIOUS
  <2>3. a.op = "read_directory" /\ a.path = path /\ a.ret = r.ret /\ a.got = r
    BY <2>1, <2>2 DEF Answers
  <2>4. CASE r.ret = 0
    <3>1. Node(disk, path) = Folder /\ r.data.kind = "dir"
      BY <1>2, <1>3, <2>4, DirectoryReadGives
    <3>2. NodeRead(a) = Folder
      BY <2>3, <3>1 DEF NodeRead
    <3>3. Answer(a) = [path |-> path, node |-> Folder]
      BY <2>3, <2>4, <3>2 DEF Answer
    <3> QED
      BY <1>1, <2>2, <3>1, <3>3, KindsDiffer
  <2>5. CASE r.ret # 0
    BY <2>2, <2>3, <2>5, AnswerFacts
  <2> QED
    BY <2>4, <2>5
<1>5. ASSUME NEW size \in BufferSizes, read(path, size)
      PROVE  \/ Answer(result') = Abstract!NoAnswer
             \/ /\ Node(FinalDisk, path) # Absent
                /\ Answer(result') = [path |-> path, node |-> Node(FinalDisk, path)]
  <2>1. PICK r \in {FileRead(ParentOf(path), Last(path), size)} :
          Answers([op |-> "read", path |-> path, ret |-> r.ret, buffer_size |-> size, got |-> r])
    BY <1>5 DEF read
  <2>2. PICK a : a = result'
    OBVIOUS
  <2>3. a.op = "read" /\ a.path = path /\ a.ret = r.ret /\ a.got = r
    BY <2>1, <2>2 DEF Answers
  <2>4. CASE r.ret = 0
    <3>1. Node(disk, path) # Absent /\ FileOf(r.data, r.filesize) = Node(disk, path)
      BY <1>2, <1>3, <2>4, FileReadGives
    <3>2. NodeRead(a) = Node(disk, path)
      BY <2>3, <3>1 DEF NodeRead
    <3>3. Answer(a) = [path |-> path, node |-> Node(disk, path)]
      BY <2>3, <2>4, <3>2 DEF Answer
    <3> QED
      BY <1>1, <2>2, <3>1, <3>3
  <2>5. CASE r.ret # 0
    BY <2>2, <2>3, <2>5, AnswerFacts
  <2> QED
    BY <2>4, <2>5
<1> QED
  BY <1>3, <1>4, <1>5

\* The store is the tree on the disk, and the answer that of the last call.
StoreInv ==
  /\ DiskInv
  /\ store = Tree(FinalDisk)
  /\ answer = Answer(result)

LEMMA InitStore == StoreInit => StoreInv /\ Abstract!Init
<1> SUFFICES ASSUME StoreInit
             PROVE  StoreInv /\ Abstract!Init
  OBVIOUS
<1>1. DiskInv /\ store = Tree(FinalDisk) /\ answer = Answer(result) /\ result = NoResult
      /\ pending \in {<<>>} /\ FATInv
  BY InitDiskInv, InitFATInv DEF StoreInit, Init
<1>2. disk \in Disks(Versions) /\ disk[BOOT_SECTOR] = Blank /\ disk[ROOT_CLUSTER_NUMBER] = Blank
  <2>1. ROOT_CLUSTER_NUMBER \in Clusters /\ BOOT_SECTOR \in Clusters
    BY SizeFacts DEF ROOT_CLUSTER_NUMBER, BOOT_SECTOR
  <2>2. disk \in Disks(Versions)
    BY <1>1, BegunNow
  <2> QED
    BY <2>1, <2>2 DEF StoreInit, Init
<1>3. FinalDisk = disk
  BY <1>1, <1>2, NothingSteady DEF FinalDisk
<1>4. \A r \in Paths : Node(disk, r) = Absent
  BY <1>2, SeedFacts
<1>5. store = [p \in Paths |-> Abstract!Absent]
  BY <1>1, <1>3, <1>4 DEF Tree, Abstract!Absent, Absent
<1>6. answer = Abstract!NoAnswer
  BY <1>1, AnswerFacts
<1> QED
  BY <1>1, <1>5, <1>6 DEF StoreInv, Abstract!Init

(***************************************************************************)
(* A path's folder is there, as the file store wants it.                   *)
(***************************************************************************)
LEMMA ParentIsThere ==
  ASSUME NEW path \in Paths, IsDirectory(Front(path)), store = Tree(disk)
  PROVE  Abstract!HasParent(path)
<1> SUFFICES ASSUME Len(path) # 1
             PROVE  store[Front(path)] = Folder
  BY DEF Abstract!HasParent, Abstract!Folder, Folder, Abstract!Front, Front
<1>1. Len(path) \in Nat \ {0} /\ Len(Front(path)) = Len(path) - 1
      /\ Front(path) \in Paths \cup {<<>>}
  BY PathFacts
<1>2. Front(path) # <<>>
  <2>1. Len(Front(path)) # 0
    BY <1>1
  <2>2. Len(<<>>) = 0
    OBVIOUS
  <2> QED
    BY <2>1, <2>2
<1>3. Node(disk, Front(path)) = Folder /\ Front(path) \in Paths
  BY <1>1, <1>2 DEF IsDirectory
<1> QED
  BY <1>3 DEF Tree

LEMMA StoreBecomes ==
  ASSUME StoreInv, Observed, NEW q \in Paths, NEW node, Becomes(q, node)
  PROVE  store' = [store EXCEPT ![q] = node]
<1>1. store' = [p \in Paths |-> Node(FinalDisk', p)]
  BY DEF Observed, Tree
<1>2. store = [p \in Paths |-> Node(FinalDisk, p)]
  BY DEF StoreInv, Tree
<1>3. \A p \in Paths : Node(FinalDisk', p) = IF p = q THEN node ELSE Node(FinalDisk, p)
  BY DEF Becomes
<1> QED
  BY <1>1, <1>2, <1>3

LEMMA StoreStays ==
  ASSUME StoreInv, Observed, \A r \in Paths : Node(FinalDisk', r) = Node(FinalDisk, r)
  PROVE  store' = store
<1>1. store' = [p \in Paths |-> Node(FinalDisk', p)]
  BY DEF Observed, Tree
<1>2. store = [p \in Paths |-> Node(FinalDisk, p)]
  BY DEF StoreInv, Tree
<1> QED
  BY <1>1, <1>2

(***************************************************************************)
(* Each step of the driver is one of the file store, or is not seen.       *)
(***************************************************************************)
LEMMA StoreStep ==
  ASSUME StoreInv, StoreNext
  PROVE  StoreInv' /\ (Abstract!Next \/ UNCHANGED <<store, answer>>)
<1>1. DiskInv /\ Observed /\ answer' = Answer(result') /\ answer = Answer(result)
      /\ store = Tree(FinalDisk) /\ Next /\ store' = Tree(FinalDisk')
  BY DEF StoreInv, StoreNext, Observed
<1>2. DiskInv'
  BY <1>1, InitializeTree, WriteTree, PowerOffTree, WriteFolderTree, WriteFileTree, DeleteTree,
     ReadTree, NowhereTree DEF Next, Calls
<1>3. StoreInv'
  BY <1>1, <1>2 DEF StoreInv
<1>4. ASSUME Ready
      PROVE  FinalDisk = disk /\ \A p \in Paths : store[p] = Node(disk, p)
  <2>1. FinalDisk = disk
    BY <1>1, <1>4, ReadyDisk DEF DiskInv
  <2> QED
    BY <1>1, <2>1 DEF Tree
<1>5. Abstract!Absent = Absent /\ Abstract!Folder = Folder
  BY DEF Abstract!Absent, Absent, Abstract!Folder, Folder
<1>6. ASSUME NEW path \in Paths, NEW node \in {Folder} \cup FileNodes, Ready, Becomes(path, node),
             Node(disk, path) = Absent, IsDirectory(Front(path)), answer' = Abstract!NoAnswer
      PROVE  Abstract!Next
  <2>1. store[path] = Abstract!Absent
    BY <1>4, <1>5, <1>6
  <2>2. store' = [store EXCEPT ![path] = node]
    BY <1>1, <1>6, StoreBecomes
  <2>3. store = Tree(disk)
    BY <1>1, <1>4, <1>6
  <2>4. Abstract!HasParent(path)
    BY <1>6, <2>3, ParentIsThere
  <2>5. Abstract!Create(path, node)
    BY <1>6, <2>1, <2>2, <2>4 DEF Abstract!Create
  <2> QED
    BY <1>5, <2>5 DEF Abstract!Next
<1>7. ASSUME \A r \in Paths : Node(FinalDisk', r) = Node(FinalDisk, r),
             answer' = Abstract!NoAnswer
      PROVE  Abstract!Next
  <2>1. store' = store
    BY <1>1, <1>7, StoreStays
  <2> QED
    BY <1>7, <2>1 DEF Abstract!Next, Abstract!Forget
<1>8. CASE initialize_filesystem_fat32
  <2>1. result' = result
    BY <1>8 DEF initialize_filesystem_fat32
  <2>2. store' = store
    BY <1>1, <1>8, InitializeTree, StoreStays
  <2> QED
    BY <1>1, <1>3, <2>1, <2>2
<1>9. CASE write_clusters
  <2>1. result' = result
    BY <1>9 DEF write_clusters
  <2>2. store' = store
    BY <1>1, <1>9, WriteTree
  <2> QED
    BY <1>1, <1>3, <2>1, <2>2
<1>10. CASE PowerOff
  <2>1. result' = NoResult
    BY <1>10 DEF PowerOff
  <2>2. answer' = Abstract!NoAnswer
    BY <1>1, <2>1, AnswerFacts
  <2> QED
    BY <1>1, <1>3, <1>7, <1>10, <2>2, PowerOffTree
<1>11. ASSUME NEW path \in Paths, CarefulWriteFolder(path)
       PROVE  Abstract!Next
  <2>1. /\ Becomes(path, Folder) /\ result' = Outcome("write", path, 0)
        /\ Ready /\ Node(disk, path) = Absent /\ IsDirectory(Front(path))
    BY <1>1, <1>11, WriteFolderTree
  <2>2. answer' = Abstract!NoAnswer
    BY <1>1, <2>1, AnswerFacts
  <2> QED
    BY <1>6, <2>1, <2>2
<1>12. ASSUME NEW path \in Paths, NEW size \in FileSizes, NEW version \in Versions,
              CarefulWriteFile(path, size, version)
       PROVE  Abstract!Next
  <2>1. /\ \E ret : result' = Outcome("write", path, ret)
        /\ Becomes(path, File(version, size)) \/ Becomes(path, Absent)
        /\ Ready /\ Node(disk, path) = Absent /\ IsDirectory(Front(path))
    BY <1>1, <1>12, WriteFileTree
  <2>2. answer' = Abstract!NoAnswer
    BY <1>1, <2>1, AnswerFacts
  <2>3. CASE Becomes(path, File(version, size))
    <3>1. File(version, size) \in FileNodes
      BY DEF FileNodes
    <3> QED
      BY <1>6, <2>1, <2>2, <2>3, <3>1
  <2>4. CASE Becomes(path, Absent)
    <3>1. \A r \in Paths : Node(FinalDisk', r) = Node(FinalDisk, r)
      BY <1>4, <2>1, <2>4 DEF Becomes
    <3> QED
      BY <1>7, <2>2, <3>1
  <2> QED
    BY <2>1, <2>3, <2>4
<1>13. ASSUME NEW path \in Paths, CarefulDelete(path)
       PROVE  Abstract!Next
  <2>1. Becomes(path, Absent) /\ Ready /\ ~Populated(path) /\ result'.op = "delete"
    BY <1>1, <1>13, DeleteTree
  <2>2. answer' = Abstract!NoAnswer
    <3>1. result'.op \notin {"read", "read_directory"}
      BY <2>1
    <3> QED
      BY <1>1, <3>1, AnswerFacts
  <2>3. CASE Node(disk, path) = Absent
    <3>1. \A r \in Paths : Node(FinalDisk', r) = Node(FinalDisk, r)
      BY <1>4, <2>1, <2>3 DEF Becomes
    <3> QED
      BY <1>7, <2>2, <3>1
  <2>4. CASE Node(disk, path) # Absent
    <3>1. store' = [store EXCEPT ![path] = Abstract!Absent]
      BY <1>1, <1>5, <2>1, StoreBecomes
    <3>2. \A p \in Abstract!Children(path) : store[p] = Abstract!Absent
      <4>1. \A p \in Abstract!Children(path) :
              p \in Paths /\ Len(p) = Len(path) + 1 /\ Front(p) = path
        BY DEF Abstract!Children, Abstract!Front, Front
      <4> QED
        BY <1>4, <1>5, <2>1, <4>1 DEF Populated, Exists
    <3>3. store[path] # Abstract!Absent
      BY <1>4, <1>5, <2>1, <2>4
    <3>4. Abstract!Delete(path)
      BY <2>2, <3>1, <3>2, <3>3 DEF Abstract!Delete
    <3> QED
      BY <3>4 DEF Abstract!Next
  <2> QED
    BY <2>3, <2>4
<1>14. CASE Ready /\ WriteNowhere
  <2>1. PICK ret : result' = Outcome("write", <<>>, ret)
    BY <1>14 DEF WriteNowhere, Perform
  <2>2. answer' = Abstract!NoAnswer
    BY <1>1, <2>1, AnswerFacts
  <2> QED
    BY <1>1, <1>3, <1>7, <1>14, <2>2, NowhereTree
<1>15. CASE Reads
  <2>1. FinalDisk' = FinalDisk
    BY <1>1, <1>15, ReadTree
  <2>2. store' = store
    BY <1>1, <2>1
  <2>3. answer' = Abstract!NoAnswer => Abstract!Next
    BY <1>7, <2>1
  <2>4. ASSUME NEW path \in Paths, Node(FinalDisk, path) # Absent,
               answer' = [path |-> path, node |-> Node(FinalDisk, path)]
        PROVE  Abstract!Next
    <3>1. store[path] = Node(FinalDisk, path)
      BY <1>1 DEF Tree
    <3>2. Abstract!Read(path)
      BY <1>5, <2>2, <2>4, <3>1 DEF Abstract!Read
    <3> QED
      BY <3>2 DEF Abstract!Next
  <2>5. \/ answer' = Abstract!NoAnswer
        \/ \E path \in Paths : /\ Node(FinalDisk, path) # Absent
                               /\ answer' = [path |-> path, node |-> Node(FinalDisk, path)]
    BY <1>1, <1>15, ReadsGive
  <2>6. Abstract!Next
    BY <2>3, <2>4, <2>5
  <2> QED
    BY <1>3, <2>6
<1> QED
  BY <1>1, <1>3, <1>8, <1>9, <1>10, <1>11, <1>12, <1>13, <1>14, <1>15 DEF Next, Calls

(***************************************************************************)
(* The driver and its disk implement the file store, for disks, tables,    *)
(* names, file sizes and contents of any number: what is read is what was  *)
(* written, through any history of creations and deletions that reuses and *)
(* scatters clusters, and through the loss of memory with the power; what  *)
(* is deleted is gone, and no call changes anything at a path other than   *)
(* its own (fat32.c:154-456).                                              *)
(***************************************************************************)
THEOREM DriverIsAFileStore == StoreSpec => StoreRefined
<1>1. StoreInit => StoreInv /\ Abstract!Init
  BY InitStore
<1>2. StoreInv /\ [StoreNext]_<<vars, store, answer>>
        => StoreInv' /\ [Abstract!Next]_<<store, answer>>
  <2> SUFFICES ASSUME StoreInv, [StoreNext]_<<vars, store, answer>>
               PROVE  StoreInv' /\ [Abstract!Next]_<<store, answer>>
    OBVIOUS
  <2>1. CASE StoreNext
    BY <2>1, StoreStep
  <2>2. CASE UNCHANGED <<vars, store, answer>>
    <3>1. UNCHANGED <<disk, fat, pending, power>> /\ result' = result /\ store' = store
          /\ answer' = answer
      BY <2>2 DEF vars
    <3>2. DiskInv'
      BY <3>1, SameDiskInv DEF StoreInv
    <3>3. FinalDisk' = FinalDisk
      BY <3>1 DEF FinalDisk
    <3> QED
      BY <3>1, <3>2, <3>3 DEF StoreInv
  <2> QED
    BY <2>1, <2>2
<1> QED
  BY <1>1, <1>2, PTL DEF StoreSpec, StoreRefined, Abstract!Spec

=============================================================================
