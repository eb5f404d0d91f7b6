-------------------------------- MODULE Shell --------------------------------
(***************************************************************************)
(* The shell's file commands (src/src/user-shell.c) above the file system  *)
(* driver.  The shell is the only program that makes these calls and waits *)
(* for each of them, so a command is one step: what it reads, what it      *)
(* tells the user, and the disk writes of its one changing call (of its    *)
(* two, for a move), which reach the disk one by one.                      *)
(*                                                                         *)
(* A session is followed up to its first command that is not sensible;     *)
(* what is sensible is said beside each command, and no more is assumed of *)
(* the user.  Bounds: directories down to MaxDepth are entered (10 in the  *)
(* code, which does not check it), and nothing is created without clusters *)
(* left for it (the driver would read past the end of the FAT).            *)
(***************************************************************************)
EXTENDS FAT32

CONSTANTS MaxDepth,    \* the deepest directory entered
          Inserted,    \* the files put into the image, <<name, size, version>>
          Longer       \* for each name, the names it is the beginning of

ASSUME DepthAssumption == MaxDepth \in Nat /\ MaxDepth > 0
ASSUME InsertedAssumption == Inserted \in Seq(Names \X FileSizes \X Versions)
\* The paths are those of the entries in the directories that are entered.
ASSUME DeepPathsAssumption == Paths = UNION {[1 .. n -> Names] : n \in 1 .. MaxDepth + 1}
ASSUME LongerAssumption == Longer \in [Names \cup {"root"} -> SUBSET (Names \cup {"root"})]

VARIABLES DEPTH, DIR_PATH, DIR_CLUSTERS,
          CURRENT_DIR_CLUSTER_NUMBER, CURRENT_DIR_PARENT_CLUSTER_NUMBER,
          report,      \* what the last command was about and what came of it
          steady       \* every command so far was sensible

place == <<DEPTH, DIR_PATH, DIR_CLUSTERS, CURRENT_DIR_CLUSTER_NUMBER,
           CURRENT_DIR_PARENT_CLUSTER_NUMBER>>
shellVars == <<vars, place, report, steady>>

Root == "root"
Depths == 0 .. MaxDepth
Here == [k \in 1 .. DEPTH |-> DIR_PATH[k]]
Entry(name) == Append(Here, name)

\* cp, mv: a name is copied into a char[8] on the stack that is not cleared, and
\* eight bytes are compared: a shorter name may have remains of the stack behind
\* it.  With them it may be a longer name, or one that nobody types (Garbled).
Garbled == "?"
ASSUME GarbledAssumption == Garbled \notin Names
OnStack(name) == {name, Garbled} \cup Longer[name]

\* mv: the return code is a uint32_t of which the kernel writes one byte.
UninitialisedBytes == {0, 256}

AtPrompt == [cmd |-> "none"]

-----------------------------------------------------------------------------
(* The image: formatted, with files in the root directory *)

InsertFile(state, file) ==
  LET d == state.disk
      f == state.fat
      chain == Allocation(f, ClusterNeed(file[2]))
      map == Linked(f, chain)
      table == WithEntry(AsTable(d[ROOT_CLUSTER_NUMBER]), UsedEntry(file[1], chain[1], file[2]))
  IN  [fat  |-> map,
       disk |-> [c \in Clusters |->
                   CASE c = FAT_CLUSTER_NUMBER -> FATImage(map)
                     [] c = ROOT_CLUSTER_NUMBER -> Table(table)
                     [] c \in ToSet(chain) ->
                          Data(file[3], CHOOSE k \in 1 .. Len(chain) : chain[k] = c)
                     [] OTHER -> d[c]]]

FormattedDisk == Written([c \in Clusters |-> Blank], create_fat32)

\* The image after each of the files
Images[n \in 0 .. Len(Inserted)] ==
  IF n = 0 THEN [fat |-> FormattedFAT, disk |-> FormattedDisk]
  ELSE InsertFile(Images[n - 1], Inserted[n])

Image == Images[Len(Inserted)]

\* The files fit: the tool would not end otherwise.  They have names of their
\* own and the root directory has room for them, as in the makefile.
ASSUME ImageAssumption ==
  \A n \in 1 .. Len(Inserted) :
    \E table \in {AsTable(Images[n - 1].disk[ROOT_CLUSTER_NUMBER])} :
      /\ Cardinality(FreeClusters(Images[n - 1].fat)) >= ClusterNeed(Inserted[n][2])
      /\ Matches(table, Inserted[n][1]) = {}
      /\ UnusedPositions(table) # {}

ShellInit ==
  /\ disk = Image.disk /\ fat = Image.fat
  /\ pending = <<>> /\ power = TRUE /\ result = NoResult
  /\ DEPTH = 0
  /\ DIR_PATH = [k \in Depths |-> IF k = 0 THEN Root ELSE NoName]
  /\ DIR_CLUSTERS = [k \in Depths |-> IF k = 0 THEN ROOT_CLUSTER_NUMBER ELSE -1]
  /\ CURRENT_DIR_CLUSTER_NUMBER = ROOT_CLUSTER_NUMBER
  /\ CURRENT_DIR_PARENT_CLUSTER_NUMBER = ROOT_CLUSTER_NUMBER
  /\ report = AtPrompt
  /\ steady = TRUE

-----------------------------------------------------------------------------
(* What the commands share *)

\* A command that only reads
Tell(outcome) ==
  /\ report' = outcome
  /\ UNCHANGED <<vars, steady>>

\* A command that may change the disk, and whether it was a sensible one
Change(outcome, effect, sensible) ==
  /\ report' = [outcome EXCEPT !.ok = @ /\ effect.ret = 0]
  /\ fat' = effect.fat
  /\ pending' = effect.writes
  /\ steady' = sensible
  /\ UNCHANGED <<disk, power, result, place>>

Command(cmd, from, to) == [cmd |-> cmd, from |-> from, to |-> to, ok |-> TRUE]
Failed(command) == [command EXCEPT !.ok = FALSE]
Shows(command, answer) ==
  [cmd |-> command.cmd, from |-> command.from, to |-> command.to, ok |-> TRUE, answer |-> answer]

\* Most commands get the table of the current directory by its name, from the
\* directory it is in; the root has an entry with its own name.
CurrentDirectory == DirectoryRead(CURRENT_DIR_PARENT_CLUSTER_NUMBER, DIR_PATH[DEPTH])

Fresh(name, cluster) == Matches(AsTable(disk[cluster]), name) = {}
NoOther(bytes, name, cluster) == bytes = name \/ Fresh(bytes, cluster)
HasRoom(cluster) == UnusedPositions(AsTable(disk[cluster])) # {}

-----------------------------------------------------------------------------
(* ls, cd, cat, find *)

\* Mutant: the entries in use, and mv leaves them in use.
EntriesInUse(table) ==
  {table[j] : j \in {k \in Positions \ {0} : table[k].used}}

\* Entry 0 is the directory itself.
NamedEntries(table) ==
  {table[j] : j \in {k \in Positions \ {0} : table[k].name # NoName}}

ls ==
  LET r == CurrentDirectory
      shown == {<<e.name, e.attribute = ATR_DIRECTORY>> : e \in NamedEntries(AsTable(r.data))}
  IN  /\ Tell(IF r.ret = 0 THEN Shows(Command("ls", Here, <<>>), shown)
              ELSE Failed(Command("ls", Here, <<>>)))
      /\ UNCHANGED place

\* Mutant: the parent is taken one level too deep.
LeaveFor(depth) == DIR_CLUSTERS[depth - 1]

ParentAfterLeaving(depth) ==
  IF depth >= 2 THEN DIR_CLUSTERS[depth - 2] ELSE DIR_CLUSTERS[depth - 1]

\* Mutant: the slot above is cleared.
ForgetAbove(depth) == [DIR_CLUSTERS EXCEPT ![depth - 1] = -1]

Forget(depth) == [DIR_CLUSTERS EXCEPT ![depth] = -1]

cdUp ==
  /\ IF DEPTH > 0
     THEN /\ DIR_CLUSTERS' = Forget(DEPTH)
          /\ CURRENT_DIR_PARENT_CLUSTER_NUMBER' = ParentAfterLeaving(DEPTH)
          /\ CURRENT_DIR_CLUSTER_NUMBER' = DIR_CLUSTERS[DEPTH - 1]
          /\ DEPTH' = DEPTH - 1
          /\ UNCHANGED DIR_PATH
     ELSE UNCHANGED place
  /\ Tell(Command("cd ..", Here, <<>>))

\* Mutant: any entry of that name.
AnyEntries(table, name) == {j \in Positions \ {0} : table[j].name = name}

FolderEntries(table, name) ==
  {j \in Positions \ {0} : table[j].attribute = ATR_DIRECTORY /\ table[j].name = name}

\* One component of cd's path: the arrays are written as it goes.
EnterFolder(walk, name) ==
  LET above == IF walk.depth = 0 THEN 0 ELSE walk.depth - 1
      r     == DirectoryRead(walk.clusters[above], walk.path[walk.depth])
      found == FolderEntries(AsTable(r.data), name)
  IN  IF ~walk.ok THEN walk
      ELSE IF r.ret # 0 THEN [walk EXCEPT !.ok = FALSE]
      ELSE IF found = {} THEN [walk EXCEPT !.ok = FALSE]
      ELSE [ok |-> TRUE, depth |-> walk.depth + 1,
            path |-> [walk.path EXCEPT ![walk.depth + 1] = name],
            clusters |-> [walk.clusters EXCEPT
                            ![walk.depth + 1] = AsTable(r.data)[Min(found)].cluster]]

Walk(path) ==
  LET after[k \in 0 .. Len(path)] ==
        IF k = 0
        THEN [ok |-> TRUE, depth |-> DEPTH, path |-> DIR_PATH, clusters |-> DIR_CLUSTERS]
        ELSE EnterFolder(after[k - 1], path[k])
  IN  after[Len(path)]

cd(path) ==
  /\ DEPTH + Len(path) <= MaxDepth
  /\ \E walk \in {Walk(path)} :
       /\ DIR_PATH' = walk.path
       /\ DIR_CLUSTERS' = walk.clusters
       /\ IF walk.ok
          THEN /\ DEPTH' = walk.depth
               /\ CURRENT_DIR_PARENT_CLUSTER_NUMBER' = walk.clusters[walk.depth - 1]
               /\ CURRENT_DIR_CLUSTER_NUMBER' = walk.clusters[walk.depth]
          ELSE UNCHANGED <<DEPTH, CURRENT_DIR_PARENT_CLUSTER_NUMBER,
                           CURRENT_DIR_CLUSTER_NUMBER>>
       /\ Tell([Command("cd", Here, path) EXCEPT !.ok = walk.ok])

\* cat finds the size in the current directory's table, read through the
\* arrays, and reads the file from the directory itself.
CatBuffer(size) == CLUSTER_SIZE * IF size = 0 THEN 1 ELSE ClusterNeed(size)

cat(name) ==
  LET command == Command("cat", Entry(name), <<>>)
      above == IF DEPTH = 0 THEN DIR_CLUSTERS[DEPTH] ELSE DIR_CLUSTERS[DEPTH - 1]
      r     == DirectoryRead(above, DIR_PATH[DEPTH])
      found == Matches(AsTable(r.data), name)
      size  == AsTable(r.data)[Min(found)].filesize
      file  == FileRead(DIR_CLUSTERS[DEPTH], name, CatBuffer(size))
      shown == IF r.ret # 0 THEN FALSE
               ELSE IF found = {} THEN FALSE ELSE file.ret = 0
  IN  /\ Tell(IF shown THEN Shows(command, FileOf(file.data, size))
              ELSE Failed(command))
      /\ UNCHANGED place

\* find: the queue holds a directory's clusters and names from the root on.
\* A folder is read from the one above it; entries are compared in table order.
\* Mutant: it is read from itself.
ReadFromItself(clusters, names) == DirectoryRead(Last(clusters), Last(names))

FirstOfQueue(clusters, names) ==
  DirectoryRead(IF Len(clusters) = 1 THEN clusters[1] ELSE clusters[Len(clusters) - 1],
                Last(names))

FindStep(name, walk) ==
  LET head    == Head(walk.queue)
      table   == AsTable(FirstOfQueue(head.clusters, head.names).data)
      folders == {j \in Positions \ {0} : table[j].attribute = ATR_DIRECTORY}
      below   == [k \in 1 .. Cardinality(folders) |->
                    LET entry == table[SetToSortSeq(folders, <)[k]]
                    IN  [clusters |-> Append(head.clusters, entry.cluster),
                         names    |-> Append(head.names, entry.name)]]
  IN  IF walk.queue = <<>> \/ walk.answer # <<>> THEN walk
      ELSE IF \E j \in Positions \ {0} : table[j].name = name
           THEN [walk EXCEPT !.answer = Append(head.names, name)]
           ELSE [walk EXCEPT !.queue = Tail(@) \o below]

\* No more directories than clusters are looked at.
FindWalk(name) ==
  FoldLeft(LAMBDA walk, k : FindStep(name, walk),
           [queue |-> <<[clusters |-> <<ROOT_CLUSTER_NUMBER>>, names |-> <<Root>>]>>,
            answer |-> <<>>],
           [k \in Clusters \ {0} |-> k])

find(name) ==
  /\ \E walk \in {FindWalk(name)} :
       Tell(IF walk.answer # <<>>
            THEN Shows(Command("find", <<name>>, <<>>), Tail(walk.answer))
            ELSE Failed(Command("find", <<name>>, <<>>)))
  /\ UNCHANGED place

-----------------------------------------------------------------------------
(* mkdir, rm, cp, mv *)

\* Sensible: a name that is not there, and a directory that is not full.
mkdir(name) ==
  /\ FreeClusters(fat) # {}
  /\ Change(Command("mkdir", Entry(name), <<>>),
            IF CurrentDirectory.ret # 0 THEN Refused(-1)
            ELSE FolderWritten(CURRENT_DIR_CLUSTER_NUMBER, name),
            Fresh(name, CURRENT_DIR_CLUSTER_NUMBER) /\ HasRoom(CURRENT_DIR_CLUSTER_NUMBER))

\* rm looks the name up in the current directory and deletes it in the one
\* above.  Sensible: in the root, neither the root itself nor a folder that
\* holds something.
rm(name) ==
  Change(Command("rm", Entry(name), <<>>),
         IF CurrentDirectory.ret # 0 THEN Refused(-1)
         ELSE IF Matches(AsTable(CurrentDirectory.data), name) = {} THEN Refused(1)
         ELSE Deleted(CURRENT_DIR_PARENT_CLUSTER_NUMBER, name),
         DEPTH = 0 /\ name # Root /\ ~Populated(Entry(name)))

\* cp takes the size from the current directory, reads from the directory above
\* and writes into the current one.  Sensible: in the root, to a name that is
\* not there, with nothing behind the new name on the stack, and nothing behind
\* the old one that makes it another entry's.
CopyEffect(source, dest) ==
  LET table == AsTable(CurrentDirectory.data)
      found == Matches(table, source)
      size  == table[Min(found)].filesize
      file  == FileRead(CURRENT_DIR_PARENT_CLUSTER_NUMBER, source,
                        CLUSTER_SIZE * ClusterNeed(size))
  IN  IF CurrentDirectory.ret # 0 THEN Refused(-1)
      ELSE IF found = {} THEN Refused(1)
      ELSE IF file.ret # 0 THEN Refused(file.ret)
      ELSE IF size = 0 THEN FolderWritten(CURRENT_DIR_CLUSTER_NUMBER, dest)
      ELSE FileWritten(CURRENT_DIR_CLUSTER_NUMBER, dest, size, file.data[1].version)

cp(source, dest) ==
  /\ \A size \in FileSizes : Cardinality(FreeClusters(fat)) >= ClusterNeed(size)
  /\ \E s \in OnStack(source), d \in OnStack(dest) :
       \E effect \in {CopyEffect(s, d)} :
         Change(Command("cp", Entry(source), Entry(dest)), effect,
                /\ DEPTH = 0
                /\ Fresh(dest, CURRENT_DIR_CLUSTER_NUMBER)
                /\ NoOther(s, source, CURRENT_DIR_CLUSTER_NUMBER)
                /\ effect.ret = 0 => d = dest)

\* System call 14: a table written to a cluster as it is
WriteTables(writes) == Effect(0, fat, writes)

\* mv without a leading '/': the table of the current directory, with the name
\* changed, is written to the directory above.  Sensible: in the root, not the
\* root itself, to a name that is not there, with nothing behind the old name
\* that makes it another entry's.
RenameEffect(source, dest, retcode) ==
  LET table == AsTable(CurrentDirectory.data)
      found == Matches(table, source)
  IN  IF CurrentDirectory.ret # 0 \/ retcode # 0 THEN Refused(-1)
      ELSE IF found = {} THEN Refused(1)
      ELSE WriteTables(<<write_cluster(CURRENT_DIR_PARENT_CLUSTER_NUMBER,
                           Table([table EXCEPT ![Min(found)].name = dest]))>>)

mvRename(source, dest) ==
  \E s \in OnStack(source), garbage \in UninitialisedBytes :
    Change(Command("mv", Entry(source), Entry(dest)), RenameEffect(s, dest, garbage),
           /\ DEPTH = 0 /\ source # Root
           /\ Fresh(dest, CURRENT_DIR_CLUSTER_NUMBER)
           /\ NoOther(s, source, CURRENT_DIR_CLUSTER_NUMBER))

\* One folder on the way to the destination.
Descend(walk, name) ==
  LET found   == Matches(walk.table, name)
      cluster == walk.table[Min(found)].cluster
      r       == DirectoryRead(walk.above, name)
  IN  IF ~walk.ok THEN walk
      ELSE IF found = {} THEN [walk EXCEPT !.ok = FALSE]
      ELSE IF r.ret # 0 THEN [walk EXCEPT !.ok = FALSE]
      ELSE [ok |-> TRUE, table |-> AsTable(r.data), cluster |-> cluster, above |-> cluster]

Destination(folders) ==
  LET after[k \in 0 .. Len(folders)] ==
        IF k = 0
        THEN [ok |-> TRUE, table |-> AsTable(DirectoryRead(ROOT_CLUSTER_NUMBER, Root).data),
              cluster |-> ROOT_CLUSTER_NUMBER, above |-> ROOT_CLUSTER_NUMBER]
        ELSE Descend(after[k - 1], folders[k])
  IN  after[Len(folders)]

\* Mutant: the source's table is written first.
SourceFirst(dest, source) == <<source, dest>>

MoveWrites(dest, source) == <<dest, source>>

\* Mutant: the entry is made anew, with the size of the cluster.
EntryAnew(entry, name) == UsedEntry(name, entry.cluster, CLUSTER_SIZE)

MovedEntry(entry, name) == [entry EXCEPT !.name = name, !.attribute = ATR_FILE]

\* Mutant: the name stays.
Kept(table, position) == table

Vacated(table, position) == [table EXCEPT ![position].name = NoName]

\* Of the entry that moves only the name is cleared; the new one is a file's.
\* With no room at the destination nothing is done and nothing is said.
MoveEffect(source, path, retcode) ==
  LET table == AsTable(CurrentDirectory.data)
      found == Matches(table, source)
      dest  == Destination(Front(path))
      room  == UnusedPositions(dest.table)
  IN  IF CurrentDirectory.ret # 0 \/ retcode # 0 THEN Refused(-1)
      ELSE IF found = {} THEN Refused(1)
      ELSE IF ~dest.ok THEN Refused(2)
      ELSE IF room = {} THEN WriteTables(<<>>)
      ELSE WriteTables(MoveWrites(
             write_cluster(dest.cluster,
               Table([dest.table EXCEPT ![Min(room)] = MovedEntry(table[Min(found)], Last(path))])),
             write_cluster(CURRENT_DIR_PARENT_CLUSTER_NUMBER, Table(Vacated(table, Min(found))))))

\* mv with a leading '/'.  Sensible: in the root, a file, to a folder below the
\* root that is there, is not full and has no such name, with nothing behind the
\* file's name or the path's first that makes it another entry's.
mvMove(source, path) ==
  \E s \in OnStack(source), first \in OnStack(Head(path)), garbage \in UninitialisedBytes :
    Change(Command("mv", Entry(source), path),
           MoveEffect(s, <<first>> \o Tail(path), garbage),
           /\ DEPTH = 0 /\ Len(path) > 1
           /\ Node(disk, <<source>>).kind = "file"
           /\ Node(disk, Front(path)) = Folder
           /\ Fresh(Last(path), DirectoryCluster(disk, Front(path)))
           /\ HasRoom(DirectoryCluster(disk, Front(path)))
           /\ NoOther(s, source, ROOT_CLUSTER_NUMBER)
           /\ NoOther(first, Head(path), ROOT_CLUSTER_NUMBER))

-----------------------------------------------------------------------------

\* executeCommand
Commands ==
  \/ ls \/ cdUp
  \/ \E path \in Paths : cd(path)
  \/ \E name \in Names : cat(name) \/ find(name) \/ mkdir(name)
  \/ \E name \in Names \cup {Root} : rm(name)
  \/ \E source \in Names \cup {Root}, dest \in Names : mvRename(source, dest)
  \/ \E source, dest \in Names : cp(source, dest)
  \/ \E source \in Names, path \in Paths : mvMove(source, path)

\* The prompt, after a command that has returned
print_terminal_text ==
  /\ Ready /\ report # AtPrompt
  /\ report' = AtPrompt
  /\ UNCHANGED <<vars, place, steady>>

ShellNext ==
  \/ write_clusters /\ UNCHANGED <<place, report, steady>>
  \/ print_terminal_text
  \/ Ready /\ steady /\ report = AtPrompt /\ Commands

ShellSpec == ShellInit /\ [][ShellNext]_shellVars

-----------------------------------------------------------------------------
(* Properties *)

ShellTypeOK ==
  /\ DEPTH \in Depths
  /\ DIR_PATH \in [Depths -> Names \cup {Root, NoName}]
  /\ DIR_CLUSTERS \in [Depths -> Clusters \cup {-1}]
  /\ \A k \in 0 .. DEPTH : DIR_PATH[k] # NoName /\ DIR_CLUSTERS[k] \in Clusters
  /\ steady \in BOOLEAN

(***************************************************************************)
(* The two numbers the changing commands use and the arrays that cd and cat *)
(* use say the same of where the user is, after any walk up and down and   *)
(* any cd that fails half way (user-shell.c:399-501, 508).                 *)
(***************************************************************************)
CursorConsistent ==
  /\ CURRENT_DIR_CLUSTER_NUMBER = DIR_CLUSTERS[DEPTH]
  /\ CURRENT_DIR_PARENT_CLUSTER_NUMBER = DIR_CLUSTERS[IF DEPTH = 0 THEN 0 ELSE DEPTH - 1]

Idle == steady /\ Ready

(***************************************************************************)
(* The path in the prompt is where the commands work: following its names  *)
(* on the disk leads to the cluster the shell has for the current          *)
(* directory, whatever was made, moved or renamed before                   *)
(* (user-shell.c:320-339, 399-501).                                        *)
(***************************************************************************)
WhereIAm == Idle => DirectoryCluster(disk, Here) = CURRENT_DIR_CLUSTER_NUMBER

ShellDirectories ==
  {ROOT_CLUSTER_NUMBER}
    \cup {DirectoryCluster(disk, p) : p \in {q \in Paths : Node(disk, q) = Folder}}
NamedPlaces ==
  {e \in ShellDirectories \X (Positions \ {0}) : EntryAt(e).name # NoName}

(***************************************************************************)
(* Sensible commands keep the tree sound although moved files leave their  *)
(* nameless entry behind: no two entries of a directory have one name, no  *)
(* two named entries share a cluster, and every file and folder is whole   *)
(* (user-shell.c:586-708, 867-1225).                                       *)
(***************************************************************************)
SteadyIsSound ==
  Idle =>
    /\ \A e, f \in NamedPlaces :
         e # f => /\ ClustersOf(e) \cap ClustersOf(f) = {}
                  /\ e[1] = f[1] => EntryAt(e).name # EntryAt(f).name
    /\ \A e \in NamedPlaces :
         /\ NodeOfEntry(disk, EntryAt(e)) # Damaged
         /\ EntryAt(e).name # AsTable(disk[e[1]])[0].name

ChildrenOf(path) ==
  {p \in Paths : Len(p) = Len(path) + 1 /\ Front(p) = path /\ Exists(p)}

\* Where the entries with a name are, the nearest to the root only
Nearest(name) ==
  LET there == {p \in Paths : Last(p) = name /\ Exists(p)}
  IN  {p \in there : \A q \in there : Len(p) <= Len(q)}

ToldTrue ==
  /\ report.cmd = "ls" =>
       report.ok /\ report.answer = {<<Last(p), Node(disk, p) = Folder>> : p \in ChildrenOf(Here)}
  /\ report.cmd = "cat" =>
       IF Node(disk, report.from).kind = "file"
       THEN report.ok /\ report.answer = Node(disk, report.from)
       ELSE ~report.ok

(***************************************************************************)
(* "ls - Menuliskan isi current working directory", "cat - Menuliskan      *)
(* sebuah file" (README.md): wherever the user is and however the          *)
(* directory was reached, they show what is there, and nothing else        *)
(* (user-shell.c:341-397, 503-584).                                        *)
(***************************************************************************)
AnswersTrue == Idle => ToldTrue

(***************************************************************************)
(* find (user-shell.c:710-830) gives a nearest place of the name in the    *)
(* whole tree, or that there is none.                                      *)
(***************************************************************************)
FindsNearest ==
  Idle /\ report.cmd = "find" =>
    IF Nearest(report.from[1]) # {}
    THEN report.ok /\ report.answer \in Nearest(report.from[1])
    ELSE ~report.ok

\* The tree with what is at or below one path at or below another.
Moved(tree, from, to) ==
  [p \in Paths |->
     LET origin == from \o SubSeq(p, Len(to) + 1, Len(p))
     IN  CASE IsPrefix(to, p) -> IF origin \in Paths THEN tree[origin] ELSE Absent
           [] ~IsPrefix(to, p) /\ IsPrefix(from, p) -> Absent
           [] OTHER -> tree[p]]

Told(tree, r) ==
  CASE r.ok /\ r.cmd = "mkdir" -> [tree EXCEPT ![r.from] = Folder]
    [] r.ok /\ r.cmd = "rm" -> [tree EXCEPT ![r.from] = Absent]
    [] r.ok /\ r.cmd = "cp" -> [tree EXCEPT ![r.to] = tree[r.from]]
    [] r.ok /\ r.cmd = "mv" -> Moved(tree, r.from, r.to)
    [] OTHER -> tree

CommandStep == Ready /\ (report' # report \/ pending' # pending)

DoesAsTold ==
  IF pending' = <<>>
  THEN CASE report'.cmd = "mkdir" -> FALSE
         [] report'.cmd = "rm" -> ~report'.ok /\ ~Exists(report'.from)
         [] report'.cmd \in {"cp", "mv"} -> ~report'.ok
         [] OTHER -> TRUE
  ELSE \E before \in {Tree(disk)}, d \in {FinalDisk'} : Tree(d) = Told(before, report')

(***************************************************************************)
(* A sensible command does what the list of commands in README.md says and *)
(* nothing else, anywhere in the tree; one that reports a failure does     *)
(* nothing, and a sensible mkdir or rm of what is there does not fail      *)
(* (user-shell.c:586-708, 867-1225).  Of cp and mv this is said where the  *)
(* bytes behind a short name do not make it another entry's; where they    *)
(* do, CpCopiesNamed shows that it is not so.                              *)
(***************************************************************************)
AsTold == [][CommandStep /\ steady' => DoesAsTold]_shellVars

(***************************************************************************)
(* A file that is being moved is at one of its two places at every instant *)
(* between the two tables that are written: a power loss may leave two     *)
(* entries for it but not none (user-shell.c:1176-1177).                   *)
(***************************************************************************)
MoveNeverLoses ==
  steady /\ report.cmd = "mv" /\ report.ok =>
    Exists(report.from) \/ Exists(report.to)

(***************************************************************************)
(* "rm - Menghapus suatu file" (README.md): after an rm that reports no    *)
(* failure, the name is gone from the directory the user is in.            *)
(***************************************************************************)
RmRemoves ==
  report.cmd = "rm" /\ report.ok /\ pending = <<>> =>
    Matches(AsTable(disk[CURRENT_DIR_CLUSTER_NUMBER]), Last(report.from)) = {}

(***************************************************************************)
(* "cp - Mengcopy suatu file" (README.md): after a cp in the root that     *)
(* reports no failure and has made the file with the new name, the file    *)
(* that it was told to copy is there (user-shell.c:869, 932).              *)
(***************************************************************************)
CpCopiesNamed ==
  report.cmd = "cp" /\ report.ok /\ Len(report.from) = 1 /\ Exists(report.to) =>
    Exists(report.from)
=============================================================================
