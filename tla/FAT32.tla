-------------------------------- MODULE FAT32 --------------------------------
(***************************************************************************)
(* The file system driver (src/src/fat32.c) and the disk below it.         *)
(*                                                                         *)
(* A driver call runs with interrupts off, so no other call sees it half   *)
(* done; the disk does.  A call therefore computes its effect on memory    *)
(* and the cluster writes it makes, in their order, and the writes reach   *)
(* the disk one by one.  The content of a cluster is what was last written *)
(* there; of a file it is which version of it and which part.              *)
(*                                                                         *)
(* The number of FAT entries, of clusters on the disk and of entries in a  *)
(* directory table are parameters; one cluster is four times as many bytes *)
(* as the FAT has entries, as in the code, where 2048 is both              *)
(* 4 * CLUSTER_MAP_SIZE and 4 blocks.                                      *)
(***************************************************************************)
EXTENDS Integers, Sequences, FiniteSets, FiniteSetsExt, SequencesExt, TLC

CONSTANTS CLUSTER_MAP_SIZE,   \* 512 in fat32.h
          TableSize,          \* CLUSTER_SIZE / 32: entries of a directory
          Names,              \* names of files and folders
          Paths,              \* the paths in use: of an entry, by the folders
                              \* that lead to it
          FileSizes,          \* sizes of files, in bytes
          BufferSizes,        \* sizes of the buffers given to read
          Versions            \* what a file may contain

ASSUME MapSizeAssumption == CLUSTER_MAP_SIZE \in Nat /\ CLUSTER_MAP_SIZE > 3
ASSUME TableSizeAssumption == TableSize \in Nat /\ TableSize > 1
ASSUME SizesAssumption ==
  /\ FileSizes \subseteq Nat \ {0}
  /\ BufferSizes \subseteq Nat
ASSUME PathsAssumption ==
  \A p \in Paths : p \in Seq(Names) \ {<<>>} /\ (Len(p) > 1 => Front(p) \in Paths)
ASSUME NamesAssumption == "root" \notin Names /\ "" \notin Names

VARIABLES disk,      \* the content of each cluster
          fat,       \* driver_state.fat_table, in memory
          pending,   \* the writes of the call in progress, still to be made
          power,     \* whether the machine runs
          result     \* the outcome of the last call

vars == <<disk, fat, pending, power, result>>

CLUSTER_SIZE == 4 * CLUSTER_MAP_SIZE
CLUSTER_0_VALUE == 268435440
FAT32_FAT_END_OF_FILE == 268435455
FAT32_FAT_EMPTY_ENTRY == 0
BOOT_SECTOR == 0
FAT_CLUSTER_NUMBER == 1
ROOT_CLUSTER_NUMBER == 2
ATR_FILE == 0
ATR_DIRECTORY == 16

\* No cluster has the number of a mark.
ASSUME MarksAssumption == CLUSTER_MAP_SIZE < CLUSTER_0_VALUE

Clusters == 0 .. CLUSTER_MAP_SIZE - 1
Positions == 0 .. TableSize - 1
NoName == ""

EmptyEntry ==
  [name |-> NoName, used |-> FALSE, attribute |-> ATR_FILE, cluster |-> 0, filesize |-> 0]

AttributeOf(size) == IF size = 0 THEN ATR_DIRECTORY ELSE ATR_FILE

\* Mutant: the entry holds the block address for the cluster number.
UsedEntryBlock(name, cluster, size) ==
  [name |-> name, used |-> TRUE, attribute |-> AttributeOf(size),
   cluster |-> 4 * cluster, filesize |-> size]

UsedEntry(name, cluster, size) ==
  [name |-> name, used |-> TRUE, attribute |-> AttributeOf(size),
   cluster |-> cluster, filesize |-> size]
ZeroTable == [j \in Positions |-> EmptyEntry]
ZeroFAT == [c \in Clusters |-> FAT32_FAT_EMPTY_ENTRY]

Blank == [kind |-> "blank"]
Signature == [kind |-> "boot"]
\* Mutant: the table is written before it is changed.
FATImageStale(map) == [kind |-> "fat", map |-> fat]

FATImage(map) == [kind |-> "fat", map |-> map]
Table(table) == [kind |-> "dir", table |-> table]
Data(version, part) == [kind |-> "data", version |-> version, part |-> part]

\* What a cluster reads as.
AsTable(content) == IF content.kind = "dir" THEN content.table ELSE ZeroTable
AsFAT(content) == IF content.kind = "fat" THEN content.map ELSE ZeroFAT

NoResult == [op |-> "none"]

-----------------------------------------------------------------------------
(* Tables, chains and paths *)

\* Entry 0 of a directory has the directory's own name and its parent's cluster.
init_directory_table(name, parent_dir_cluster) ==
  [ZeroTable EXCEPT ![0] = UsedEntry(name, parent_dir_cluster, 0)]

\* The entry a lookup finds is the first with that name.
Matches(table, name) == {j \in Positions : table[j].name = name}
UnusedPositions(table) == {j \in Positions : ~table[j].used}

\* The clusters visited from "first" on, up to the end of the chain.
Chain(map, first) ==
  LET walk[n \in 0 .. CLUSTER_MAP_SIZE] ==
        IF n = 0 THEN <<first>>
        ELSE LET s == walk[n - 1] IN
             IF map[Last(s)] \in Clusters THEN Append(s, map[Last(s)]) ELSE s
  IN  walk[CLUSTER_MAP_SIZE - 1]

\* clusterNeed: the size divided by that of a cluster, rounded up
ClusterNeed(size) == (size + CLUSTER_SIZE - 1) \div CLUSTER_SIZE

\* The cluster a caller has for a directory after entering one folder after
\* the other from the root, as the shell's cd does; 0 if it does not get there.
\* Entry 0, the directory itself, is not among what is in it.
Listed(table, name) == Matches(table, name) \ {0}

ChildCluster(d, cluster, name) ==
  LET table == AsTable(d[cluster])
      found == Listed(table, name)
  IN  IF found # {} /\ table[Min(found)].filesize = 0
      THEN table[Min(found)].cluster ELSE 0

DirectoryCluster(d, path) ==
  LET entered[n \in 0 .. Len(path)] ==
        IF n = 0 THEN ROOT_CLUSTER_NUMBER ELSE ChildCluster(d, entered[n - 1], path[n])
  IN  entered[Len(path)]

-----------------------------------------------------------------------------
(* Power and disk *)

Init ==
  /\ disk = [c \in Clusters |-> Blank]
  /\ fat = ZeroFAT
  /\ pending = <<>>
  /\ power = FALSE
  /\ result = NoResult

write_cluster(cluster, content) == [cluster |-> cluster, content |-> content]

FormattedFAT ==
  [ZeroFAT EXCEPT ![0] = CLUSTER_0_VALUE, ![1] = FAT32_FAT_END_OF_FILE,
                  ![2] = FAT32_FAT_END_OF_FILE]

create_fat32 ==
  <<write_cluster(BOOT_SECTOR, Signature),
    write_cluster(FAT_CLUSTER_NUMBER, FATImage(FormattedFAT)),
    write_cluster(ROOT_CLUSTER_NUMBER,
                  Table(init_directory_table("root", ROOT_CLUSTER_NUMBER)))>>

is_empty_storage == disk[BOOT_SECTOR] # Signature

initialize_filesystem_fat32 ==
  /\ ~power
  /\ power' = TRUE
  /\ IF is_empty_storage
     THEN fat' = FormattedFAT /\ pending' = create_fat32
     ELSE fat' = AsFAT(disk[FAT_CLUSTER_NUMBER]) /\ pending' = <<>>
  /\ UNCHANGED <<disk, result>>

\* The next write of the call in progress reaches the disk.
write_clusters ==
  /\ pending # <<>>
  /\ disk' = [disk EXCEPT ![Head(pending).cluster] = Head(pending).content]
  /\ pending' = Tail(pending)
  /\ UNCHANGED <<fat, power, result>>

\* The power goes while no call is in progress: memory is lost.
PowerOff ==
  /\ power /\ pending = <<>>
  /\ power' = FALSE
  /\ fat' = ZeroFAT
  /\ result' = NoResult
  /\ UNCHANGED <<disk, pending>>

Ready == power /\ pending = <<>>

-----------------------------------------------------------------------------
(* Driver calls.  A request holds the cluster of a directory and a name in   *)
(* it; the effect of a call is what it returns, the FAT it leaves in memory   *)
(* and the cluster writes it makes.                                           *)

Effect(ret, map, writes) == [ret |-> ret, fat |-> map, writes |-> writes]
Refused(ret) == Effect(ret, fat, <<>>)

Perform(effect, outcome) ==
  /\ fat' = effect.fat
  /\ pending' = effect.writes
  /\ result' = outcome
  /\ UNCHANGED <<disk, power>>

\* Mutant: the FAT entry is not looked at.
AllClusters(map) == ROOT_CLUSTER_NUMBER + 1 .. CLUSTER_MAP_SIZE - 1

FreeClusters(map) ==
  {c \in ROOT_CLUSTER_NUMBER .. CLUSTER_MAP_SIZE - 1 : map[c] = FAT32_FAT_EMPTY_ENTRY}

\* The first "n" free clusters, in the order in which they are taken: "k - 1"
\* others come before the k-th.
Allocation(map, n) ==
  LET free == FreeClusters(map) IN
  [k \in 1 .. n |-> CHOOSE c \in free : Cardinality({b \in free : b < c}) = k - 1]

\* Mutant: a cluster is not linked to the next.
LinkedEndOnly(map, chain) == [map EXCEPT ![chain[Len(chain)]] = FAT32_FAT_END_OF_FILE]

Linked(map, chain) ==
  [c \in Clusters |->
     IF \E k \in 1 .. Len(chain) : chain[k] = c
     THEN LET k == CHOOSE k \in 1 .. Len(chain) : chain[k] = c
          IN  IF k = Len(chain) THEN FAT32_FAT_END_OF_FILE ELSE chain[k + 1]
     ELSE map[c]]

WithEntry(table, entry) ==
  IF UnusedPositions(table) = {} THEN table
  ELSE [table EXCEPT ![Min(UnusedPositions(table))] = entry]

\* Mutant: the parent's table is written first.
ParentFirst(folder, table, parent) == <<parent, folder, table>>

FolderWrites(folder, table, parent) == <<folder, table, parent>>

\* write, with buffer_size 0: the folder's table, the FAT, the parent's table.
\* A full parent is not noticed.
FolderWritten(parent, name) ==
  LET table == AsTable(disk[parent])
      chain == Allocation(fat, 1)
      map   == Linked(fat, chain)
      entry == UsedEntry(name, chain[1], 0)
  IN  IF fat[parent] = FAT32_FAT_EMPTY_ENTRY THEN Refused(2)
      ELSE Effect(0, map, FolderWrites(
             write_cluster(chain[1], Table(init_directory_table(name, parent))),
             write_cluster(FAT_CLUSTER_NUMBER, FATImage(map)),
             write_cluster(parent, Table(WithEntry(table, entry)))))

\* write of a file: the parent's table, each cluster blank and then with its
\* part of the data, the FAT.
FileWritten(parent, name, size, version) ==
  LET table == AsTable(disk[parent])
      chain == Allocation(fat, ClusterNeed(size))
      map   == Linked(fat, chain)
      entry == UsedEntry(name, chain[1], size)
      parts == [k \in 1 .. 2 * Len(chain) |->
                  LET part == (k + 1) \div 2 IN
                  write_cluster(chain[part], IF k % 2 = 1 THEN Blank ELSE Data(version, part))]
  IN  CASE fat[parent] = FAT32_FAT_EMPTY_ENTRY -> Refused(2)
        [] fat[parent] # FAT32_FAT_EMPTY_ENTRY /\ UnusedPositions(table) = {} -> Refused(-1)
        [] OTHER ->
             Effect(0, map,
                    <<write_cluster(parent, Table(WithEntry(table, entry)))>>
                    \o parts
                    \o <<write_cluster(FAT_CLUSTER_NUMBER, FATImage(map))>>)

\* read: clusters are read while the number read so far, counted in units of
\* CLUSTER_MAP_SIZE bytes, does not exceed the size of the buffer.
ReadableClusters(buffer_size) == buffer_size \div CLUSTER_MAP_SIZE + 1

FileRead(parent, name, buffer_size) ==
  LET table == AsTable(disk[parent])
      found == Matches(table, name)
      entry == table[Min(found)]
      chain == Chain(fat, entry.cluster)
      count == Min({Len(chain), ReadableClusters(buffer_size)})
  IN  CASE found = {} -> [ret |-> 3]
        [] found # {} /\ entry.filesize = 0 -> [ret |-> 1]
        [] OTHER -> [ret |-> IF count = Len(chain) THEN 0 ELSE 2,
                     data |-> [k \in 1 .. count |-> disk[chain[k]]],
                     filesize |-> entry.filesize]

\* read_directory: tells a folder from a file by its size.
DirectoryRead(parent, name) ==
  LET table == AsTable(disk[parent])
      found == Matches(table, name)
      entry == table[Min(found)]
  IN  CASE found = {} -> [ret |-> 2]
        [] found # {} /\ entry.filesize # 0 -> [ret |-> 1]
        [] OTHER -> [ret |-> 0, data |-> disk[entry.cluster]]

\* Mutant: only the first cluster of the chain is released.
FreedFirst(map, chain) == [map EXCEPT ![chain[1]] = FAT32_FAT_EMPTY_ENTRY]

Freed(map, chain) ==
  [c \in Clusters |->
     IF \E k \in 1 .. Len(chain) : chain[k] = c THEN FAT32_FAT_EMPTY_ENTRY ELSE map[c]]

\* delete, with an extension in the request as all callers have it: every
\* cluster of the chain blank, the FAT, the parent's table.  A folder is
\* deleted in the same way, whatever it holds.
Deleted(parent, name) ==
  LET table == AsTable(disk[parent])
      found == Matches(table, name)
      chain == Chain(fat, table[Min(found)].cluster)
      map   == Freed(fat, chain)
  IN  IF found = {} THEN Refused(1)
      ELSE Effect(0, map,
             [k \in 1 .. Len(chain) |-> write_cluster(chain[k], Blank)]
             \o <<write_cluster(FAT_CLUSTER_NUMBER, FATImage(map)),
                  write_cluster(parent, Table([table EXCEPT ![Min(found)] = EmptyEntry]))>>)

-----------------------------------------------------------------------------
(* What is on a disk, read as the driver reads it *)

Absent == [kind |-> "absent"]
Folder == [kind |-> "folder"]
Damaged == [kind |-> "damaged"]
File(version, size) == [kind |-> "file", version |-> version, size |-> size]
FileNodes == {File(v, s) : v \in Versions, s \in FileSizes}

\* The file a sequence of cluster contents makes up.
FileOf(contents, size) ==
  IF /\ contents # <<>>
     /\ Len(contents) = ClusterNeed(size)
     /\ \A k \in 1 .. Len(contents) : /\ contents[k].kind = "data"
                                      /\ contents[k].part = k
                                      /\ contents[k].version = contents[1].version
  THEN File(contents[1].version, size)
  ELSE Damaged

Complete(map, chain) == map[Last(chain)] = FAT32_FAT_END_OF_FILE

NodeOfEntry(d, entry) ==
  LET map   == AsFAT(d[FAT_CLUSTER_NUMBER])
      chain == Chain(map, entry.cluster)
  IN  IF ~Complete(map, chain) \/ entry.attribute # AttributeOf(entry.filesize)
      THEN Damaged
      ELSE IF entry.filesize = 0
      THEN IF d[entry.cluster].kind = "dir" /\ Len(chain) = 1 THEN Folder ELSE Damaged
      ELSE FileOf([k \in 1 .. Len(chain) |-> d[chain[k]]], entry.filesize)

Node(d, path) ==
  LET parent == DirectoryCluster(d, Front(path))
      table  == AsTable(d[parent])
      found  == Listed(table, Last(path))
  IN  IF parent = 0 \/ found = {} THEN Absent
      ELSE NodeOfEntry(d, table[Min(found)])

Tree(d) == [p \in Paths |-> Node(d, p)]

\* A disk once some writes are made, one after the other.
Written(d, writes) ==
  [c \in Clusters |->
     LET here == {k \in 1 .. Len(writes) : writes[k].cluster = c}
     IN  IF here = {} THEN d[c] ELSE writes[Max(here)].content]

\* The disk once the writes of the call in progress are made.
FinalDisk == Written(disk, pending)

Exists(path) == Node(disk, path) # Absent
IsDirectory(path) == IF path = <<>> THEN TRUE ELSE Node(disk, path) = Folder
Populated(path) == \E p \in Paths : Len(p) = Len(path) + 1 /\ Front(p) = path /\ Exists(p)

-----------------------------------------------------------------------------
(* The system calls, for the entry at a path *)

Outcome(call, path, ret) == [op |-> call, path |-> path, ret |-> ret]
ParentOf(path) == DirectoryCluster(disk, Front(path))

WriteFolder(path) ==
  \E e \in {FolderWritten(ParentOf(path), Last(path))} :
    Perform(e, Outcome("write", path, e.ret))

WriteFile(path, size, version) ==
  \E e \in {FileWritten(ParentOf(path), Last(path), size, version)} :
    Perform(e, Outcome("write", path, e.ret))

\* write to a parent that is not allocated
WriteNowhere ==
  \E parent \in Clusters, name \in Names :
    /\ fat[parent] = FAT32_FAT_EMPTY_ENTRY
    /\ Perform(Refused(2), Outcome("write", <<>>, FolderWritten(parent, name).ret))

Answers(outcome) == result' = outcome /\ UNCHANGED <<disk, fat, pending, power>>

read(path, buffer_size) ==
  \E r \in {FileRead(ParentOf(path), Last(path), buffer_size)} :
    Answers([op |-> "read", path |-> path, ret |-> r.ret, buffer_size |-> buffer_size, got |-> r])

read_directory(path) ==
  \E r \in {DirectoryRead(ParentOf(path), Last(path))} :
    Answers([op |-> "read_directory", path |-> path, ret |-> r.ret, got |-> r])

delete(path) ==
  \E e \in {Deleted(ParentOf(path), Last(path))} :
    Perform(e, [op |-> "delete", path |-> path, ret |-> e.ret, populated |-> Populated(path)])

-----------------------------------------------------------------------------
(* Careful callers: they use no name in a directory that is the directory's  *)
(* own (a lookup would find entry 0); they write no name that is there, into *)
(* a directory that is, with clusters left and (a folder) an entry left;     *)
(* they delete folders only when empty.  The driver checks none of this.     *)

NotItself(path) == Last(path) # AsTable(disk[ParentOf(path)])[0].name

CarefulWrite(path, clusters) ==
  /\ IsDirectory(Front(path))
  /\ Matches(AsTable(disk[ParentOf(path)]), Last(path)) = {}
  /\ Cardinality(FreeClusters(fat)) >= clusters

CarefulWriteFolder(path) ==
  /\ Ready
  /\ CarefulWrite(path, 1)
  /\ UnusedPositions(AsTable(disk[DirectoryCluster(disk, Front(path))])) # {}
  /\ WriteFolder(path)

CarefulWriteFile(path, size, version) ==
  /\ Ready
  /\ CarefulWrite(path, ClusterNeed(size))
  /\ WriteFile(path, size, version)

CarefulDelete(path) ==
  /\ Ready
  /\ IsDirectory(Front(path)) /\ NotItself(path)
  /\ ~Populated(path)
  /\ delete(path)

Reads ==
  /\ Ready
  /\ \E path \in Paths :
       /\ IsDirectory(Front(path)) /\ NotItself(path)
       /\ read_directory(path) \/ \E size \in BufferSizes : read(path, size)

Calls ==
  \/ \E path \in Paths : CarefulWriteFolder(path) \/ CarefulDelete(path)
  \/ \E path \in Paths, size \in FileSizes, version \in Versions :
       CarefulWriteFile(path, size, version)
  \/ Ready /\ WriteNowhere
  \/ Reads

Next == initialize_filesystem_fat32 \/ write_clusters \/ PowerOff \/ Calls

Spec == Init /\ [][Next]_vars

\* Callers that check nothing but that the directory is there.
AnyCalls ==
  \/ Calls
  \/ Ready /\ \E path \in Paths : IsDirectory(Front(path)) /\ delete(path)

AnySpec == Init /\ [][Next \/ AnyCalls]_vars

\* The power goes between two writes of a call.
Crash ==
  /\ power /\ pending # <<>>
  /\ power' = FALSE
  /\ fat' = ZeroFAT
  /\ pending' = <<>>
  /\ result' = NoResult
  /\ UNCHANGED disk

CrashSpec == Init /\ [][Next \/ Crash]_vars

-----------------------------------------------------------------------------
(* Properties *)

Entries ==
  [name : Names \cup {NoName, "root"}, used : BOOLEAN,
   attribute : {ATR_FILE, ATR_DIRECTORY}, cluster : Clusters, filesize : FileSizes \cup {0}]
FATs ==
  [Clusters -> Clusters \cup {CLUSTER_0_VALUE, FAT32_FAT_END_OF_FILE}]
Contents ==
  {Blank, Signature} \cup {Data(v, k) : v \in Versions, k \in 1 .. CLUSTER_MAP_SIZE}
IsContent(content) ==
  \/ content \in Contents
  \/ content.kind = "fat" /\ content.map \in FATs
  \/ content.kind = "dir" /\ content.table \in [Positions -> Entries]

TypeOK ==
  /\ DOMAIN disk = Clusters
  /\ \A c \in Clusters : IsContent(disk[c])
  /\ fat \in FATs
  /\ \A k \in 1 .. Len(pending) :
       pending[k].cluster \in Clusters /\ IsContent(pending[k].content)
  /\ power \in BOOLEAN

Directories ==
  {ROOT_CLUSTER_NUMBER}
    \cup {DirectoryCluster(disk, p) : p \in {q \in Paths : Node(disk, q) = Folder}}

\* Where the entries are: a directory's cluster and a position in its table.
UsedEntries ==
  {e \in Directories \X (Positions \ {0}) : AsTable(disk[e[1]])[e[2]].used}
EntryAt(e) == AsTable(disk[e[1]])[e[2]]
ClustersOf(e) == ToSet(Chain(fat, EntryAt(e).cluster))

(***************************************************************************)
(* Between calls every entry of every reachable directory has a complete   *)
(* chain of as many clusters as its size needs, no cluster is in two       *)
(* chains, and every allocated cluster is in one: nothing is shared and    *)
(* nothing leaks, although entry, chain and table are changed in different *)
(* places and in a different order by write and delete (fat32.c:275-376,   *)
(* 413-456).                                                               *)
(***************************************************************************)
ChainsSound ==
  Ready =>
    /\ \A e \in UsedEntries :
         LET chain == Chain(fat, EntryAt(e).cluster) IN
         /\ Complete(fat, chain)
         /\ Len(chain) = IF EntryAt(e).filesize = 0 THEN 1
                         ELSE ClusterNeed(EntryAt(e).filesize)
    /\ \A e, f \in UsedEntries : e # f => ClustersOf(e) \cap ClustersOf(f) = {}
    /\ {c \in Clusters : fat[c] # FAT32_FAT_EMPTY_ENTRY}
         = {0, 1, 2} \cup UNION {ClustersOf(e) : e \in UsedEntries}

(***************************************************************************)
(* Between calls the FAT in memory is the one on the disk: no call forgets *)
(* to write what it changed (fat32.c:301, 365, 427, 450).                  *)
(***************************************************************************)
FATMirrored ==
  Ready => disk[FAT_CLUSTER_NUMBER] = FATImage(fat)

(***************************************************************************)
(* At every instant, between any two writes to the disk, a power loss      *)
(* would cost at most the file or folder the call in progress is about:    *)
(* every other path reads from the disk as it will when the call is done.  *)
(***************************************************************************)
OthersUntouched ==
  Cardinality({p \in Paths : Node(disk, p) # Node(FinalDisk, p)}) <= 1

(***************************************************************************)
(* Making a folder is atomic for the disk: the entry is written last, so a *)
(* power loss leaves the folder or no folder (fat32.c:298-303).            *)
(***************************************************************************)
FolderCreationAtomic ==
  \A p \in Paths :
    Node(FinalDisk, p) = Folder => Node(disk, p) \in {Absent, Folder}

(***************************************************************************)
(* "2 folder is not empty" (fat32.c:385): deleting a folder that holds     *)
(* entries does not succeed.                                               *)
(***************************************************************************)
DeleteKeepsPopulated ==
  result.op = "delete" /\ result.ret = 0 => ~result.populated

(***************************************************************************)
(* "buffer_size will limit reading count", "2 not enough buffer"           *)
(* (fat32.c:190-191): no call reads more clusters than the buffer has      *)
(* bytes for.                                                              *)
(***************************************************************************)
ReadStaysInBuffer ==
  result.op = "read" /\ result.ret \in {0, 2} =>
    Len(result.got.data) * CLUSTER_SIZE <= ClusterNeed(result.buffer_size) * CLUSTER_SIZE

(***************************************************************************)
(* create_fat32 writes a "proper FileAllocationTable [...] and initialized *)
(* root directory" (fat32.c:75-77), and a storage that has the signature   *)
(* is not formatted again: between calls the root directory is allocated   *)
(* and there.                                                              *)
(***************************************************************************)
RootIsThere ==
  Ready =>
    /\ fat[ROOT_CLUSTER_NUMBER] = FAT32_FAT_END_OF_FILE
    /\ disk[ROOT_CLUSTER_NUMBER].kind = "dir"
=============================================================================
