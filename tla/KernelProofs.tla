---------------------------- MODULE KernelProofs ----------------------------
(***************************************************************************)
(* The invariants of module Kernel for every number of frames, directories *)
(* and control blocks.  First what the operations of paging.c do to the    *)
(* page manager, the directory pool and the page directories; then         *)
(* KernelInv, the inductive invariant, which rests on it.                  *)
(***************************************************************************)
EXTENDS Kernel, TLAPS, FiniteSetTheorems, WellFoundedInduction

-----------------------------------------------------------------------------
(* Memory: the operations of paging.c *)

UsedDirectories(m) == {d \in Directories : m.page_directory_used[d]}

UserEntry(m, d, p) == m.page_directory_list[d][p]

\* Mapped user frames are real, marked and not the kernel's ...
MappedAreMarked(m) ==
  \A d \in AllDirectories, p \in UserPages :
    UserEntry(m, d, p) # NotPresent =>
      /\ UserEntry(m, d, p) \in Frames \ {0}
      /\ m.page_frame_map[UserEntry(m, d, p)]

\* ... and mapped once.
MappedOnce(m) ==
  \A d, e \in AllDirectories, p, q \in UserPages :
    /\ UserEntry(m, d, p) # NotPresent
    /\ UserEntry(m, d, p) = UserEntry(m, e, q)
    => d = e /\ p = q

\* A directory maps the kernel exactly while it is in use.
DirectoriesInitialised(m) ==
  /\ m.page_directory_list[KernelDirectory][KernelPage] = 0
  /\ \A d \in Directories :
       IF m.page_directory_used[d]
       THEN m.page_directory_list[d][KernelPage] = 0
       ELSE m.page_directory_list[d] = EmptyTable

FramesCounted(m) ==
  /\ m.page_frame_map[0]
  /\ m.free_page_frame_count = Cardinality(FreeFrames(m))

MemoryInv(m) ==
  /\ m \in MemoryStates
  /\ MappedAreMarked(m)
  /\ MappedOnce(m)
  /\ DirectoriesInitialised(m)
  /\ FramesCounted(m)

-----------------------------------------------------------------------------
(***************************************************************************)
(* A non-empty set of naturals has a least element, and Min names it: the  *)
(* "first free" searches of paging.c and process.c find what they look for.*)
(***************************************************************************)
LEMMA MinProperty ==
  ASSUME NEW S, S \subseteq Nat, S # {}
  PROVE  Min(S) \in S /\ \A y \in S : Min(S) <= y
<1> DEFINE Less == {ss \in Nat \X Nat : ss[1] < ss[2]}
<1>1. IsWellFoundedOn(Less, Nat)
  BY NatLessThanWellFounded DEF OpToRel
<1>2. \E x \in S : \A y \in S : ~(<<y, x>> \in Less)
  <2> HIDE DEF Less
  <2> QED
    BY <1>1, WFMin
<1>3. \E x \in S : \A y \in S : x <= y
  <2>1. PICK x \in S : \A y \in S : ~(<<y, x>> \in Less)
    BY <1>2
  <2>2. ASSUME NEW y \in S
        PROVE  x <= y
    <3>1. x \in Nat /\ y \in Nat
      OBVIOUS
    <3>2. ~(y < x)
      BY <2>1, <3>1
    <3> QED
      BY <3>1, <3>2
  <2> QED
    BY <2>2
<1> QED
  BY <1>3 DEF Min

(***************************************************************************)
(* Frames, directories and what is left of them are finite sets.           *)
(***************************************************************************)
LEMMA FrameSetsFinite ==
  ASSUME NEW m
  PROVE  /\ IsFiniteSet(FreeFrames(m))
         /\ IsFiniteSet(UsedDirectories(m))
         /\ Cardinality(FreeFrames(m)) \in Nat
         /\ Cardinality(UsedDirectories(m)) \in Nat
         /\ IsFiniteSet(Directories)
         /\ Cardinality(Directories) = PAGING_DIRECTORY_TABLE_MAX_COUNT
         /\ FreeFrames(m) \subseteq Nat
         /\ UnusedDirectories(m) \subseteq Nat
<1>1. IsFiniteSet(Frames)
  BY FS_Interval, FrameCountAssumption DEF Frames
<1>2. /\ IsFiniteSet(Directories)
      /\ Cardinality(Directories) = PAGING_DIRECTORY_TABLE_MAX_COUNT
  <2>1. /\ 0 \in Int
        /\ PAGING_DIRECTORY_TABLE_MAX_COUNT - 1 \in Int
        /\ PAGING_DIRECTORY_TABLE_MAX_COUNT \in Nat
    BY DirectoryCountAssumption
  <2>2. /\ IsFiniteSet(0 .. PAGING_DIRECTORY_TABLE_MAX_COUNT - 1)
        /\ Cardinality(0 .. PAGING_DIRECTORY_TABLE_MAX_COUNT - 1) =
             IF 0 > PAGING_DIRECTORY_TABLE_MAX_COUNT - 1 THEN 0
             ELSE PAGING_DIRECTORY_TABLE_MAX_COUNT - 1 - 0 + 1
    BY <2>1, FS_Interval
  <2> QED
    BY <2>1, <2>2 DEF Directories
<1>3. /\ FreeFrames(m) \subseteq Frames
      /\ UsedDirectories(m) \subseteq Directories
      /\ UnusedDirectories(m) \subseteq Directories
  BY DEF FreeFrames, UsedDirectories, UnusedDirectories
<1>4. Frames \subseteq Nat /\ Directories \subseteq Nat
  BY FrameCountAssumption, DirectoryCountAssumption DEF Frames, Directories
<1>5. IsFiniteSet(FreeFrames(m)) /\ IsFiniteSet(UsedDirectories(m))
  BY <1>1, <1>2, <1>3, FS_Subset
<1> QED
  BY <1>2, <1>3, <1>4, <1>5, FS_CardinalityType

-----------------------------------------------------------------------------
(***************************************************************************)
(* update_page_directory_entry changes one entry of one directory          *)
(* (paging.c:34-44).                                                       *)
(***************************************************************************)
LEMMA UpdateEffect ==
  ASSUME NEW m \in MemoryStates, NEW d \in AllDirectories, NEW p \in Pages,
         NEW f \in Entries,
         NEW n, n = update_page_directory_entry(m, d, p, f)
  PROVE  /\ n \in MemoryStates
         /\ n.page_frame_map = m.page_frame_map
         /\ n.free_page_frame_count = m.free_page_frame_count
         /\ n.page_directory_used = m.page_directory_used
         /\ n.page_directory_list = [m.page_directory_list EXCEPT ![d][p] = f]
BY DEF update_page_directory_entry, MemoryStates

\* n is m with the free frame f marked and mapped at page p of directory d.
TakesFrame(m, n, d, p, f) ==
  /\ n \in MemoryStates
  /\ f \in Frames
  /\ n.page_frame_map = [g \in Frames |-> m.page_frame_map[g] \/ g = f]
  /\ n.free_page_frame_count = m.free_page_frame_count - 1
  /\ n.page_directory_used = m.page_directory_used
  /\ n.page_directory_list = [m.page_directory_list EXCEPT ![d][p] = f]

(***************************************************************************)
(* While frames are left, paging_allocate_user_page_frame marks and maps   *)
(* one that was free, counts one less, and leaves every other entry and    *)
(* the directory pool alone (paging.c:70-106).                             *)
(***************************************************************************)
LEMMA AllocateEffect ==
  ASSUME NEW m, MemoryInv(m),
         NEW d \in AllDirectories, NEW p \in UserPages,
         FreeFrames(m) # {},
         NEW n, n = paging_allocate_user_page_frame(m, d, p)
  PROVE  \E f \in FreeFrames(m) : TakesFrame(m, n, d, p, f)
<1> DEFINE f == Min(FreeFrames(m))
<1>1. f \in FreeFrames(m) /\ f \in Frames /\ f \in Nat
  BY MinProperty, FrameSetsFinite, FrameCountAssumption DEF FreeFrames, Frames
<1>2. /\ m.free_page_frame_count \in Nat \ {0}
      /\ m.free_page_frame_count < PAGE_FRAME_MAX_COUNT
  <2>1. Cardinality(FreeFrames(m)) \in Nat \ {0}
    BY FrameSetsFinite, FS_EmptySet
  <2>2. m.free_page_frame_count \in 0 .. PAGE_FRAME_MAX_COUNT - 1
    BY DEF MemoryInv, MemoryStates
  <2> QED
    BY <2>1, <2>2, FrameCountAssumption DEF MemoryInv, FramesCounted
<1>3. f # -1
  BY <1>1
<1> HIDE DEF f
<1> DEFINE map   == [g \in Frames |-> m.page_frame_map[g] \/ g = f]
           taken == [m EXCEPT !.page_frame_map = map,
                              !.free_page_frame_count = Dec32(@)]
<1>4. n = update_page_directory_entry(taken, d, p, f)
  BY <1>3 DEF paging_allocate_user_page_frame, f
<1>5. map \in [Frames -> BOOLEAN]
  BY Zenon
<1> HIDE DEF map
<1>6. /\ taken \in MemoryStates
      /\ taken.page_frame_map = map
      /\ taken.free_page_frame_count = m.free_page_frame_count - 1
      /\ taken.page_directory_used = m.page_directory_used
      /\ taken.page_directory_list = m.page_directory_list
  <2>1. m \in MemoryStates
    BY DEF MemoryInv
  <2>2. /\ Dec32(m.free_page_frame_count) = m.free_page_frame_count - 1
        /\ m.free_page_frame_count - 1 \in 0 .. PAGE_FRAME_MAX_COUNT - 1
    BY <1>2, UINT32Assumption, FrameCountAssumption DEF Dec32
  <2> QED
    BY <1>5, <2>1, <2>2 DEF MemoryStates
<1> HIDE DEF taken
<1>7. f \in Entries /\ p \in Pages
  BY <1>1 DEF Entries, Pages
<1>8. /\ n \in MemoryStates
      /\ n.page_frame_map = map
      /\ n.free_page_frame_count = m.free_page_frame_count - 1
      /\ n.page_directory_used = m.page_directory_used
      /\ n.page_directory_list = [m.page_directory_list EXCEPT ![d][p] = f]
  BY <1>4, <1>6, <1>7, UpdateEffect
<1> QED
  BY <1>1, <1>8, Zenon DEF map, TakesFrame

(***************************************************************************)
(* Allocation into a directory in use, or into the kernel's, keeps the     *)
(* memory invariant: no frame becomes mapped twice.                        *)
(***************************************************************************)
LEMMA AllocateInv ==
  ASSUME NEW m, MemoryInv(m),
         NEW d \in AllDirectories, NEW p \in UserPages,
         d \in Directories => m.page_directory_used[d],
         FreeFrames(m) # {},
         NEW n, n = paging_allocate_user_page_frame(m, d, p)
  PROVE  /\ MemoryInv(n)
         /\ n.free_page_frame_count = m.free_page_frame_count - 1
         /\ n.page_directory_used = m.page_directory_used
         /\ UserEntry(n, d, p) # NotPresent
         /\ \A e \in AllDirectories, q \in Pages :
              e # d \/ q # p => UserEntry(n, e, q) = UserEntry(m, e, q)
<1>0. PICK f \in FreeFrames(m) : TakesFrame(m, n, d, p, f)
  BY AllocateEffect
<1>1. /\ n \in MemoryStates
      /\ f \in Frames
      /\ n.page_frame_map = [g \in Frames |-> m.page_frame_map[g] \/ g = f]
      /\ n.free_page_frame_count = m.free_page_frame_count - 1
      /\ n.page_directory_used = m.page_directory_used
      /\ n.page_directory_list = [m.page_directory_list EXCEPT ![d][p] = f]
  BY <1>0, Zenon DEF TakesFrame
<1>2. m.page_directory_list \in [AllDirectories -> [Pages -> Entries]]
  BY DEF MemoryInv, MemoryStates
<1>3. /\ UserEntry(n, d, p) = f
      /\ \A e \in AllDirectories, q \in Pages :
           e # d \/ q # p => UserEntry(n, e, q) = UserEntry(m, e, q)
  BY <1>1, <1>2 DEF UserEntry, UserPages, Pages
<1>4. /\ ~m.page_frame_map[f]
      /\ f \in Frames \ {0}
      /\ f # NotPresent
  BY <1>1, FrameCountAssumption
     DEF FreeFrames, MemoryInv, FramesCounted, Frames, NotPresent
<1>5. /\ n.page_frame_map[f]
      /\ n.page_frame_map[0]
      /\ \A g \in Frames : m.page_frame_map[g] => n.page_frame_map[g]
  <2>1. 0 \in Frames
    BY FrameCountAssumption DEF Frames
  <2> QED
    BY <1>1, <2>1 DEF MemoryInv, FramesCounted
<1>6. UserPages \subseteq Pages /\ KernelPage \notin UserPages
  BY DEF UserPages, Pages, CodePage, StackPage, KernelPage
<1>7. MappedAreMarked(n)
  <2> SUFFICES ASSUME NEW e \in AllDirectories, NEW q \in UserPages,
                      UserEntry(n, e, q) # NotPresent
               PROVE  /\ UserEntry(n, e, q) \in Frames \ {0}
                      /\ n.page_frame_map[UserEntry(n, e, q)]
    BY DEF MappedAreMarked
  <2>1. CASE e = d /\ q = p
    BY <2>1, <1>3, <1>4, <1>5
  <2>2. CASE e # d \/ q # p
    BY <2>2, <1>3, <1>5, <1>6 DEF MemoryInv, MappedAreMarked
  <2> QED
    BY <2>1, <2>2
<1>8. \A e \in AllDirectories, q \in UserPages : UserEntry(m, e, q) # f
  BY <1>4 DEF MemoryInv, MappedAreMarked
<1>9. MappedOnce(n)
  <2> SUFFICES ASSUME NEW e \in AllDirectories, NEW e2 \in AllDirectories,
                      NEW q \in UserPages, NEW q2 \in UserPages,
                      UserEntry(n, e, q) # NotPresent,
                      UserEntry(n, e, q) = UserEntry(n, e2, q2)
               PROVE  e = e2 /\ q = q2
    BY DEF MappedOnce
  <2>1. CASE (e = d /\ q = p) \/ (e2 = d /\ q2 = p)
    BY <2>1, <1>3, <1>6, <1>8
  <2>2. CASE (e # d \/ q # p) /\ (e2 # d \/ q2 # p)
    BY <2>2, <1>3, <1>6 DEF MemoryInv, MappedOnce
  <2> QED
    BY <2>1, <2>2
<1>10. DirectoriesInitialised(n)
  <2>1. \A e \in AllDirectories :
          n.page_directory_list[e][KernelPage] = m.page_directory_list[e][KernelPage]
    BY <1>3, <1>6 DEF UserEntry, Pages
  <2>2. \A e \in AllDirectories :
          e # d => n.page_directory_list[e] = m.page_directory_list[e]
    BY <1>1, <1>2
  <2> QED
    BY <1>1, <2>1, <2>2 DEF MemoryInv, DirectoriesInitialised, AllDirectories
<1>11. FramesCounted(n)
  <2>1. FreeFrames(n) = FreeFrames(m) \ {f}
    BY <1>1 DEF FreeFrames
  <2>2. Cardinality(FreeFrames(n)) = Cardinality(FreeFrames(m)) - 1
    BY <2>1, FS_RemoveElement, FrameSetsFinite, ZenonT(60)
  <2> QED
    BY <1>1, <1>5, <2>2 DEF FramesCounted, MemoryInv
<1> QED
  BY <1>1, <1>3, <1>4, <1>7, <1>9, <1>10, <1>11 DEF MemoryInv

-----------------------------------------------------------------------------
(***************************************************************************)
(* With fewer directories in use than there are, the search of             *)
(* paging_create_new_page_directory does not end with NULL                 *)
(* (paging.c:154-170).                                                     *)
(***************************************************************************)
LEMMA UnusedDirectoryExists ==
  ASSUME NEW m,
         Cardinality(UsedDirectories(m)) < PAGING_DIRECTORY_TABLE_MAX_COUNT
  PROVE  /\ UnusedDirectories(m) # {}
         /\ NewPageDirectory(m) # NULL
         /\ NewPageDirectory(m) \in UnusedDirectories(m)
<1>1. UnusedDirectories(m) # {}
  <2> SUFFICES ASSUME UnusedDirectories(m) = {}
               PROVE  FALSE
    OBVIOUS
  <2>1. UsedDirectories(m) = Directories
    BY DEF UsedDirectories, UnusedDirectories
  <2>2. Cardinality(Directories) = PAGING_DIRECTORY_TABLE_MAX_COUNT
    BY FrameSetsFinite
  <2> QED
    BY <2>1, <2>2, DirectoryCountAssumption
<1>2. UnusedDirectories(m) \subseteq Nat
  BY FrameSetsFinite
<1>3. Min(UnusedDirectories(m)) \in UnusedDirectories(m)
  BY <1>1, <1>2, MinProperty
<1>4. NewPageDirectory(m) = Min(UnusedDirectories(m))
  BY <1>1 DEF NewPageDirectory
<1> QED
  BY <1>1, <1>2, <1>3, <1>4 DEF NULL

(***************************************************************************)
(* A new directory is one that was not in use; it maps the kernel and      *)
(* nothing else, and nothing but it changes (paging.c:139-171).            *)
(***************************************************************************)
LEMMA NewDirectoryInv ==
  ASSUME NEW m, MemoryInv(m),
         NEW d, d = NewPageDirectory(m), d \in UnusedDirectories(m),
         NEW n, n = paging_create_new_page_directory(m)
  PROVE  /\ d \in Directories
         /\ ~m.page_directory_used[d]
         /\ MemoryInv(n)
         /\ n.free_page_frame_count = m.free_page_frame_count
         /\ FreeFrames(n) = FreeFrames(m)
         /\ n.page_directory_used = [m.page_directory_used EXCEPT ![d] = TRUE]
         /\ UserEntry(n, d, KernelPage) = 0
         /\ \A e \in AllDirectories, q \in Pages :
              e # d \/ q # KernelPage => UserEntry(n, e, q) = UserEntry(m, e, q)
         /\ Cardinality(UsedDirectories(n)) = Cardinality(UsedDirectories(m)) + 1
<1> DEFINE used == [m EXCEPT !.page_directory_used[d] = TRUE]
<1>1. /\ d \in Directories
      /\ d \in AllDirectories
      /\ d # KernelDirectory
      /\ ~m.page_directory_used[d]
      /\ KernelPage \in Pages
      /\ KernelPage \notin UserPages
      /\ UserPages \subseteq Pages
      /\ 0 \in Entries
  BY FrameCountAssumption, DirectoryCountAssumption
     DEF UnusedDirectories, AllDirectories, Directories, KernelDirectory,
         Pages, UserPages, KernelPage, CodePage, StackPage, Entries, Frames
<1>2. m \in MemoryStates
  BY DEF MemoryInv
<1>3. /\ used \in MemoryStates
      /\ used.page_frame_map = m.page_frame_map
      /\ used.free_page_frame_count = m.free_page_frame_count
      /\ used.page_directory_used = [m.page_directory_used EXCEPT ![d] = TRUE]
      /\ used.page_directory_list = m.page_directory_list
  BY <1>1, <1>2 DEF MemoryStates
<1>4. n = update_page_directory_entry(used, d, KernelPage, 0)
  BY DEF paging_create_new_page_directory
<1> HIDE DEF used
<1>5. /\ n \in MemoryStates
      /\ n.page_frame_map = m.page_frame_map
      /\ n.free_page_frame_count = m.free_page_frame_count
      /\ n.page_directory_used = [m.page_directory_used EXCEPT ![d] = TRUE]
      /\ n.page_directory_list =
           [m.page_directory_list EXCEPT ![d][KernelPage] = 0]
  BY <1>1, <1>3, <1>4, UpdateEffect
<1>6. /\ m.page_directory_list \in [AllDirectories -> [Pages -> Entries]]
      /\ m.page_directory_used \in [Directories -> BOOLEAN]
  BY <1>2 DEF MemoryStates
<1>7. /\ UserEntry(n, d, KernelPage) = 0
      /\ \A e \in AllDirectories, q \in Pages :
           e # d \/ q # KernelPage => UserEntry(n, e, q) = UserEntry(m, e, q)
      /\ \A e \in AllDirectories :
           e # d => n.page_directory_list[e] = m.page_directory_list[e]
  BY <1>1, <1>5, <1>6 DEF UserEntry
<1>8. \A e \in AllDirectories, q \in UserPages :
        UserEntry(n, e, q) = UserEntry(m, e, q)
  BY <1>1, <1>7
<1>9. MappedAreMarked(n) /\ MappedOnce(n)
  BY <1>5, <1>8 DEF MemoryInv, MappedAreMarked, MappedOnce
<1>10. DirectoriesInitialised(n)
  <2>1. \A e \in Directories :
          n.page_directory_used[e] = IF e = d THEN TRUE ELSE m.page_directory_used[e]
    BY <1>5, <1>6
  <2>2. n.page_directory_list[d][KernelPage] = 0
    BY <1>7 DEF UserEntry
  <2> QED
    BY <1>1, <1>7, <2>1, <2>2
       DEF MemoryInv, DirectoriesInitialised, AllDirectories
<1>11. FreeFrames(n) = FreeFrames(m) /\ FramesCounted(n)
  BY <1>5 DEF MemoryInv, FramesCounted, FreeFrames
<1>12. Cardinality(UsedDirectories(n)) = Cardinality(UsedDirectories(m)) + 1
  <2>1. UsedDirectories(n) = UsedDirectories(m) \cup {d}
    BY <1>1, <1>5, <1>6 DEF UsedDirectories
  <2>2. d \notin UsedDirectories(m)
    BY <1>1 DEF UsedDirectories
  <2> QED
    BY <2>1, <2>2, FS_AddElement, FrameSetsFinite
<1> QED
  BY <1>1, <1>5, <1>7, <1>9, <1>10, <1>11, <1>12 DEF MemoryInv

(***************************************************************************)
(* Freeing a directory clears it and releases it to the pool; frames and   *)
(* other directories stay as they are, and a pointer to no directory       *)
(* changes nothing (paging.c:173-196).                                     *)
(***************************************************************************)
LEMMA FreeDirectoryInv ==
  ASSUME NEW m, MemoryInv(m), NEW d,
         NEW n, n = paging_free_page_directory(m, d)
  PROVE  /\ MemoryInv(n)
         /\ n.free_page_frame_count = m.free_page_frame_count
         /\ Cardinality(UsedDirectories(n)) <= Cardinality(UsedDirectories(m))
         /\ \A e \in AllDirectories :
              e # d => n.page_directory_list[e] = m.page_directory_list[e]
         /\ \A e \in Directories :
              e # d => n.page_directory_used[e] = m.page_directory_used[e]
<1>1. CASE d \notin Directories
  <2>1. n = m
    BY <1>1 DEF paging_free_page_directory
  <2> QED
    BY <2>1, FrameSetsFinite
<1>2. CASE d \in Directories
  <2>1. /\ d \in AllDirectories
        /\ d # KernelDirectory
        /\ UserPages \subseteq Pages
        /\ EmptyTable \in [Pages -> Entries]
        /\ \A p \in Pages : EmptyTable[p] = NotPresent
    BY <1>2, DirectoryCountAssumption
       DEF AllDirectories, Directories, KernelDirectory, Pages, EmptyTable, Entries
  <2>2. m \in MemoryStates
    BY DEF MemoryInv
  <2> DEFINE used == [m.page_directory_used EXCEPT ![d] = FALSE]
             list == [m.page_directory_list EXCEPT ![d] = EmptyTable]
  <2>3. /\ n = [m EXCEPT !.page_directory_used = used,
                         !.page_directory_list = list]
        /\ used \in [Directories -> BOOLEAN]
        /\ list \in [AllDirectories -> [Pages -> Entries]]
    BY <1>2, <2>1, <2>2 DEF paging_free_page_directory, MemoryStates
  <2> HIDE DEF used, list
  <2>4. /\ n \in MemoryStates
        /\ n.page_frame_map = m.page_frame_map
        /\ n.free_page_frame_count = m.free_page_frame_count
        /\ n.page_directory_used = used
        /\ n.page_directory_list = list
    BY <2>2, <2>3 DEF MemoryStates
  <2>5. /\ m.page_directory_list \in [AllDirectories -> [Pages -> Entries]]
        /\ m.page_directory_used \in [Directories -> BOOLEAN]
    BY <2>2 DEF MemoryStates
  <2>6. /\ n.page_directory_list[d] = EmptyTable
        /\ ~n.page_directory_used[d]
        /\ \A e \in AllDirectories :
             e # d => n.page_directory_list[e] = m.page_directory_list[e]
        /\ \A e \in Directories :
             e # d => n.page_directory_used[e] = m.page_directory_used[e]
    BY <1>2, <2>1, <2>4, <2>5 DEF used, list
  <2>7. \A e \in AllDirectories, q \in UserPages :
          UserEntry(n, e, q) # NotPresent =>
            e # d /\ UserEntry(n, e, q) = UserEntry(m, e, q)
    BY <2>1, <2>6 DEF UserEntry
  <2>8. MappedAreMarked(n) /\ MappedOnce(n)
    <3>1. MappedAreMarked(n)
      BY <2>4, <2>7 DEF MemoryInv, MappedAreMarked
    <3>2. MappedOnce(n)
      BY <2>7 DEF MemoryInv, MappedOnce
    <3> QED
      BY <3>1, <3>2
  <2>9. DirectoriesInitialised(n)
    BY <2>1, <2>6 DEF MemoryInv, DirectoriesInitialised, AllDirectories
  <2>10. FramesCounted(n)
    BY <2>4 DEF MemoryInv, FramesCounted, FreeFrames
  <2>11. Cardinality(UsedDirectories(n)) <= Cardinality(UsedDirectories(m))
    <3>1. UsedDirectories(n) \subseteq UsedDirectories(m)
      BY <2>6 DEF UsedDirectories
    <3> QED
      BY <3>1, FS_Subset, FrameSetsFinite
  <2> QED
    BY <2>4, <2>6, <2>8, <2>9, <2>10, <2>11 DEF MemoryInv
<1> QED
  BY <1>1, <1>2

-----------------------------------------------------------------------------
(* The kernel *)

Booting == {"setup", "create_shell", "start_scheduler"}

(***************************************************************************)
(* How many frames are left in each phase.  The memory check of process    *)
(* creation only sees that one frame is left; that two are follows from    *)
(* this parity.                                                            *)
(***************************************************************************)
FramesLeft ==
  memory.free_page_frame_count =
    CASE mode = "setup"        -> PAGE_FRAME_MAX_COUNT - 1
      [] mode = "create_shell" -> PAGE_FRAME_MAX_COUNT - 2
      [] OTHER                 -> PAGE_FRAME_MAX_COUNT - 2 - 2 * births

NothingBornBeforeShell ==
  mode \in {"setup", "create_shell"} => births = 0 /\ active_process_count = 0

DirectoriesOfBirths == Cardinality(UsedDirectories(memory)) <= births

\* The pid of a live block is its index; a released block has none, and no
\* context to resume.
PCBsInPlace ==
  \A i \in Slots :
    IF Live(i)
    THEN /\ process_list[i].pid = i
         /\ process_list[i].state \in {READY, RUNNING}
         /\ process_list[i].born < births
         /\ process_list[i].ctx.owner = process_list[i].born
    ELSE /\ process_list[i].pid = 0
         /\ process_list[i].ctx = NullContext

BornOnce ==
  \A i, j \in Slots :
    Live(i) /\ process_list[i].born = process_list[j].born => i = j

RunningIsLive ==
  /\ mode \in Booting => RunningSlots(process_list) = {}
  /\ mode = "user" => \A i \in RunningSlots(process_list) : Live(i)

\* The process on the CPU has no READY block: the one it had is RUNNING,
\* or was released or filled anew.
OwnerNotReady ==
  mode = "user" =>
    /\ cpu.owner # Nobody
    /\ cpu.owner < births
    /\ \A i \in Slots : process_list[i].born = cpu.owner =>
         process_list[i].state = RUNNING

UnbornHaveNoProgress ==
  /\ births \in Serials
  /\ \A s \in Serials : s >= births => progress[s] = 0

KernelInv ==
  /\ TypeOK
  /\ MemoryInv(memory)
  /\ FramesLeft
  /\ NothingBornBeforeShell
  /\ DirectoriesOfBirths
  /\ LiveDirectories
  /\ PCBsInPlace
  /\ BornOnce
  /\ RunningIsLive
  /\ RunningOwnsCPU
  /\ OwnerNotReady
  /\ ContextIntegrity
  /\ UnbornHaveNoProgress

-----------------------------------------------------------------------------
(***************************************************************************)
(* The slots are naturals and the first of them exists.                    *)
(***************************************************************************)
LEMMA SlotFacts ==
  /\ Slots \subseteq Nat
  /\ 0 \in Slots
  /\ \A i \in Slots : i < PROCESS_COUNT_MAX
  /\ \A i \in Nat : i < PROCESS_COUNT_MAX => i \in Slots
  /\ Nobody \notin Serials
  /\ Serials \subseteq Nat
BY ProcessCountAssumption, FrameCountAssumption DEF Slots, Serials, Nobody

(***************************************************************************)
(* A request that passes the checks of process creation found a count      *)
(* below the table size, an entry point in user space and one frame or     *)
(* more (process.c:50-69): the misread unit of paging_allocate_check makes *)
(* it ask for one frame, whatever the request needs.                       *)
(***************************************************************************)
LEMMA PassedChecks ==
  ASSUME NEW m, NEW active, NEW request,
         request.buf \in Pages,
         request.buffer_size \in Nat,
         m.free_page_frame_count \in Nat,
         active \in Nat,
         CreateReturnCode(m, active, request) = PROCESS_CREATE_SUCCESS
  PROVE  /\ active \in Slots
         /\ request.buf \in UserPages
         /\ m.free_page_frame_count >= 1
<1>1. active < PROCESS_COUNT_MAX
  BY ProcessCountAssumption
     DEF CreateReturnCode, PROCESS_CREATE_SUCCESS,
         PROCESS_CREATE_FAIL_MAX_PROCESS_EXCEEDED
<1>2. ~(request.buf >= KernelPage)
  BY <1>1, ProcessCountAssumption
     DEF CreateReturnCode, PROCESS_CREATE_SUCCESS,
         PROCESS_CREATE_FAIL_INVALID_ENTRYPOINT
<1>3. request.buf \in UserPages
  BY <1>2 DEF Pages, UserPages, CodePage, StackPage, KernelPage
<1>4. paging_allocate_check(m, FrameCountNeeded(request))
  BY <1>1, <1>2, ProcessCountAssumption
     DEF CreateReturnCode, PROCESS_CREATE_SUCCESS,
         PROCESS_CREATE_FAIL_NOT_ENOUGH_MEMORY
<1>5. FrameCountNeeded(request) \in Nat \ {0}
  BY DEF FrameCountNeeded, ceil_div, PAGE_FRAME_SIZE
<1>6. ceil_div(FrameCountNeeded(request), PAGE_FRAME_SIZE) \in Nat \ {0}
  BY <1>5 DEF ceil_div, PAGE_FRAME_SIZE
<1>7. m.free_page_frame_count >= 1
  BY <1>4, <1>6 DEF paging_allocate_check
<1> QED
  BY <1>1, <1>3, <1>7, SlotFacts

(***************************************************************************)
(* A counted frame is there to be found.                                   *)
(***************************************************************************)
LEMMA FrameLeft ==
  ASSUME NEW m, MemoryInv(m), m.free_page_frame_count >= 1
  PROVE  FreeFrames(m) # {}
<1>1. Cardinality(FreeFrames(m)) # 0
  BY FrameSetsFinite DEF MemoryInv, FramesCounted
<1> QED
  BY <1>1, FS_EmptySet

(***************************************************************************)
(* With two frames left, creation sets up a directory that maps the page   *)
(* of the code, that of the stack and the kernel, and changes no other     *)
(* directory (process.c:76-94).                                            *)
(***************************************************************************)
LEMMA CreateMemoryInv ==
  ASSUME NEW m, MemoryInv(m), m.free_page_frame_count >= 2,
         NEW request, request.buf \in UserPages,
         NEW d, d = NewPageDirectory(m), d \in UnusedDirectories(m),
         NEW n, n = CreateMemory(m, request)
  PROVE  /\ MemoryInv(n)
         /\ d \in Directories
         /\ ~m.page_directory_used[d]
         /\ n.free_page_frame_count = m.free_page_frame_count - 2
         /\ n.page_directory_used = [m.page_directory_used EXCEPT ![d] = TRUE]
         /\ UserEntry(n, d, KernelPage) = 0
         /\ \A p \in {request.buf, StackPage} : UserEntry(n, d, p) # NotPresent
         /\ \A e \in AllDirectories, q \in Pages :
              e # d => UserEntry(n, e, q) = UserEntry(m, e, q)
         /\ Cardinality(UsedDirectories(n)) = Cardinality(UsedDirectories(m)) + 1
<1> DEFINE m1 == paging_create_new_page_directory(m)
           m2 == paging_allocate_user_page_frame(m1, d, request.buf)
<1>1. n = paging_allocate_user_page_frame(m2, d, StackPage)
  BY DEF CreateMemory
<1>2. /\ StackPage \in UserPages
      /\ KernelPage \notin UserPages
      /\ UserPages \subseteq Pages
      /\ KernelPage \in Pages
  BY DEF UserPages, Pages, CodePage, StackPage, KernelPage
<1>3. /\ d \in Directories
      /\ ~m.page_directory_used[d]
      /\ MemoryInv(m1)
      /\ m1.free_page_frame_count = m.free_page_frame_count
      /\ m1.page_directory_used = [m.page_directory_used EXCEPT ![d] = TRUE]
      /\ UserEntry(m1, d, KernelPage) = 0
      /\ \A e \in AllDirectories, q \in Pages :
           e # d \/ q # KernelPage => UserEntry(m1, e, q) = UserEntry(m, e, q)
      /\ Cardinality(UsedDirectories(m1)) = Cardinality(UsedDirectories(m)) + 1
  BY NewDirectoryInv
<1> HIDE DEF m1
<1>4. d \in AllDirectories /\ m.page_directory_used \in [Directories -> BOOLEAN]
  BY <1>3 DEF AllDirectories, MemoryInv, MemoryStates
<1>5. m1.page_directory_used[d]
  BY <1>3, <1>4
<1>6. m.free_page_frame_count \in Nat
  BY FrameCountAssumption DEF MemoryInv, MemoryStates
<1>7. /\ MemoryInv(m2)
      /\ m2.free_page_frame_count = m1.free_page_frame_count - 1
      /\ m2.page_directory_used = m1.page_directory_used
      /\ UserEntry(m2, d, request.buf) # NotPresent
      /\ \A e \in AllDirectories, q \in Pages :
           e # d \/ q # request.buf => UserEntry(m2, e, q) = UserEntry(m1, e, q)
  <2>1. FreeFrames(m1) # {}
    BY <1>3, <1>6, FrameLeft
  <2> QED
    BY <1>2, <1>3, <1>4, <1>5, <2>1, AllocateInv
<1> HIDE DEF m2
<1>8. /\ MemoryInv(n)
      /\ n.free_page_frame_count = m2.free_page_frame_count - 1
      /\ n.page_directory_used = m2.page_directory_used
      /\ UserEntry(n, d, StackPage) # NotPresent
      /\ \A e \in AllDirectories, q \in Pages :
           e # d \/ q # StackPage => UserEntry(n, e, q) = UserEntry(m2, e, q)
  <2>1. FreeFrames(m2) # {}
    BY <1>3, <1>6, <1>7, FrameLeft
  <2> QED
    BY <1>1, <1>2, <1>4, <1>5, <1>7, <2>1, AllocateInv
<1>9. /\ n.free_page_frame_count = m.free_page_frame_count - 2
      /\ n.page_directory_used = [m.page_directory_used EXCEPT ![d] = TRUE]
  BY <1>3, <1>6, <1>7, <1>8
<1>10. /\ UserEntry(n, d, KernelPage) = 0
       /\ \A p \in {request.buf, StackPage} : UserEntry(n, d, p) # NotPresent
       /\ \A e \in AllDirectories, q \in Pages :
            e # d => UserEntry(n, e, q) = UserEntry(m, e, q)
  BY <1>2, <1>3, <1>4, <1>7, <1>8
<1>11. UsedDirectories(n) = UsedDirectories(m1)
  BY <1>7, <1>8 DEF UsedDirectories
<1> QED
  BY <1>3, <1>8, <1>9, <1>10, <1>11

-----------------------------------------------------------------------------
(* Initial states, and the actions that touch little *)

LEMMA InitialMemoryInv == MemoryInv(InitialMemory) /\ UsedDirectories(InitialMemory) = {}
<1> DEFINE m == InitialMemory
<1>1. /\ 0 \in Frames
      /\ 0 \in Entries
      /\ PAGE_FRAME_MAX_COUNT - 1 \in 0 .. PAGE_FRAME_MAX_COUNT - 1
      /\ KernelPage \in Pages
      /\ KernelPage \notin UserPages
      /\ UserPages \subseteq Pages
      /\ KernelDirectory \notin Directories
  BY FrameCountAssumption, UINT32Assumption, DirectoryCountAssumption
     DEF Frames, Entries, Pages, UserPages, KernelPage, CodePage, StackPage,
         KernelDirectory, Directories
<1>2. /\ EmptyTable \in [Pages -> Entries]
      /\ KernelTable \in [Pages -> Entries]
      /\ KernelTable[KernelPage] = 0
      /\ \A p \in UserPages : EmptyTable[p] = NotPresent /\ KernelTable[p] = NotPresent
  BY <1>1 DEF EmptyTable, KernelTable, Entries
<1>3. m \in MemoryStates
  BY <1>1, <1>2 DEF InitialMemory, MemoryStates
<1>4. \A d \in AllDirectories, p \in UserPages : UserEntry(m, d, p) = NotPresent
  BY <1>2 DEF UserEntry, InitialMemory
<1>5. MappedAreMarked(m) /\ MappedOnce(m)
  BY <1>4 DEF MappedAreMarked, MappedOnce
<1>6. DirectoriesInitialised(m)
  BY <1>1, <1>2 DEF DirectoriesInitialised, InitialMemory, AllDirectories
<1>7. FramesCounted(m)
  <2>1. FreeFrames(m) = Frames \ {0}
    BY DEF FreeFrames, InitialMemory
  <2>2. /\ IsFiniteSet(Frames)
        /\ Cardinality(Frames) = PAGE_FRAME_MAX_COUNT
    <3>1. /\ 0 \in Int
          /\ PAGE_FRAME_MAX_COUNT - 1 \in Int
          /\ ~(0 > PAGE_FRAME_MAX_COUNT - 1)
          /\ PAGE_FRAME_MAX_COUNT - 1 - 0 + 1 = PAGE_FRAME_MAX_COUNT
      BY FrameCountAssumption
    <3> QED
      BY <3>1, FS_Interval DEF Frames
  <2>3. Cardinality(FreeFrames(m)) = PAGE_FRAME_MAX_COUNT - 1
    BY <1>1, <2>1, <2>2, FS_RemoveElement
  <2> QED
    BY <1>1, <2>3 DEF FramesCounted, InitialMemory
<1>8. UsedDirectories(m) = {}
  BY DEF UsedDirectories, InitialMemory
<1> QED
  BY <1>3, <1>5, <1>6, <1>7, <1>8 DEF MemoryInv

LEMMA InitInv == Init => KernelInv
<1> SUFFICES ASSUME Init
             PROVE  KernelInv
  OBVIOUS
<1> USE DEF Init
<1>1. \A i \in Slots :
        /\ process_list[i] = EmptyPCB
        /\ ~Live(i)
        /\ process_list[i].pid = 0
        /\ process_list[i].state = NO_PROCESS
        /\ process_list[i].ctx = NullContext
  BY DEF EmptyPCB, Live
<1>2. EmptyPCB \in PCBs
  BY DEF EmptyPCB, PCBs, ProcessStates, NullContext, Contexts, UserPages
<1>3. MemoryInv(memory) /\ DirectoriesOfBirths
  BY InitialMemoryInv, FS_EmptySet DEF DirectoriesOfBirths
<1>4. TypeOK
  <2>1. memory \in MemoryStates
    BY <1>3 DEF MemoryInv
  <2>2. process_list \in [Slots -> PCBs]
    BY <1>2
  <2>3. 0 \in 0 .. UINT32 - 1
    BY ProcessCountAssumption, UINT32Assumption
  <2>4. cpu \in [owner : Serials \cup {Nobody}, step : Nat]
    BY DEF Idle
  <2>5. progress \in [Serials -> Nat]
    OBVIOUS
  <2> QED
    BY <2>1, <2>2, <2>3, <2>4, <2>5 DEF TypeOK, AllDirectories, Modes
<1>5. FramesLeft
  BY DEF FramesLeft, InitialMemory
<1>6. UnbornHaveNoProgress
  BY FrameCountAssumption DEF UnbornHaveNoProgress, Serials
<1>7. RunningSlots(process_list) = {}
  BY <1>1 DEF RunningSlots, RUNNING, NO_PROCESS
<1> QED
  BY <1>1, <1>3, <1>4, <1>5, <1>6, <1>7
     DEF KernelInv, NothingBornBeforeShell, LiveDirectories, PCBsInPlace,
         BornOnce, RunningIsLive, RunningOwnsCPU, OwnerNotReady,
         ContextIntegrity

\* A reset leads to an initial state.
LEMMA ResetInv == Reset => KernelInv'
<1>1. Reset => Init'
  BY DEF Reset, Init
<1>2. Init' => KernelInv'
  BY InitInv, PTL
<1> QED
  BY <1>1, <1>2

LEMMA StutterInv == KernelInv /\ UNCHANGED vars => KernelInv'
BY DEF vars, KernelInv, TypeOK, FramesLeft, NothingBornBeforeShell,
       DirectoriesOfBirths, LiveDirectories, PCBsInPlace, BornOnce,
       RunningIsLive, RunningOwnsCPU, OwnerNotReady, ContextIntegrity,
       UnbornHaveNoProgress, Live, MappedFrame

\* At most a fault is new.
LEMMA FaultInv ==
  ASSUME KernelInv,
         mode \in {"user", "fault"}, mode' \in {mode, "fault"},
         UNCHANGED <<memory, cr3, process_list, active_process_count, cpu,
                     births, progress>>
  PROVE  KernelInv'
BY DEF KernelInv, TypeOK, Modes, Booting, FramesLeft, NothingBornBeforeShell,
       DirectoriesOfBirths, LiveDirectories, PCBsInPlace, BornOnce,
       RunningIsLive, RunningOwnsCPU, OwnerNotReady, ContextIntegrity,
       UnbornHaveNoProgress, Live, MappedFrame

LEMMA UserStepInv == KernelInv /\ UserStep => KernelInv'
<1> SUFFICES ASSUME KernelInv, UserStep
             PROVE  KernelInv'
  OBVIOUS
<1> USE DEF UserStep
<1>1. cpu.owner \in Serials /\ cpu.step \in Nat /\ progress \in [Serials -> Nat]
  BY DEF KernelInv, TypeOK
<1>2. /\ cpu'.owner = cpu.owner
      /\ cpu'.step = cpu.step + 1
      /\ cpu' \in [owner : Serials \cup {Nobody}, step : Nat]
  BY <1>1 DEF KernelInv, TypeOK
<1>3. /\ progress'[cpu.owner] = progress[cpu.owner] + 1
      /\ \A s \in Serials : s # cpu.owner => progress'[s] = progress[s]
      /\ progress' \in [Serials -> Nat]
  BY <1>1
<1>4. TypeOK'
  BY <1>2, <1>3 DEF KernelInv, TypeOK
<1>5. ContextIntegrity'
  <2>1. \A i \in Slots : Live(i) /\ process_list[i].state = READY =>
          /\ process_list[i].born # cpu.owner
          /\ process_list[i].born \in Serials
    BY DEF KernelInv, OwnerNotReady, READY, RUNNING, TypeOK, PCBs, Live
  <2>2. cpu'.step = progress'[cpu'.owner]
    BY <1>2, <1>3 DEF KernelInv, ContextIntegrity
  <2> QED
    BY <1>3, <2>1, <2>2 DEF KernelInv, ContextIntegrity, Live
<1>6. UnbornHaveNoProgress'
  <2>1. cpu.owner < births
    BY DEF KernelInv, OwnerNotReady
  <2>2. births \in Nat /\ Serials \subseteq Nat
    BY SlotFacts DEF KernelInv, TypeOK
  <2> QED
    BY <1>1, <1>3, <2>1, <2>2 DEF KernelInv, UnbornHaveNoProgress
<1>7. OwnerNotReady' /\ RunningOwnsCPU'
  BY <1>2 DEF KernelInv, OwnerNotReady, RunningOwnsCPU, RunningSlots
<1> QED
  BY <1>4, <1>5, <1>6, <1>7
     DEF KernelInv, FramesLeft, NothingBornBeforeShell, DirectoriesOfBirths,
         LiveDirectories, PCBsInPlace, BornOnce, RunningIsLive, RunningSlots,
         Live, MappedFrame, Booting

LEMMA SetupAllocateInv == KernelInv /\ SetupAllocate => KernelInv'
<1> SUFFICES ASSUME KernelInv, SetupAllocate
             PROVE  KernelInv'
  OBVIOUS
<1> USE DEF SetupAllocate
<1>1. /\ memory.free_page_frame_count = PAGE_FRAME_MAX_COUNT - 1
      /\ births = 0
      /\ MemoryInv(memory)
  BY DEF KernelInv, FramesLeft, NothingBornBeforeShell
<1>2. FreeFrames(memory) # {}
  BY <1>1, FrameLeft, FrameCountAssumption
<1>3. KernelDirectory \in AllDirectories /\ KernelDirectory \notin Directories
      /\ CodePage \in UserPages
  BY DirectoryCountAssumption
     DEF AllDirectories, KernelDirectory, Directories, UserPages
<1>4. /\ MemoryInv(memory')
      /\ memory'.free_page_frame_count = memory.free_page_frame_count - 1
      /\ memory'.page_directory_used = memory.page_directory_used
      /\ \A e \in AllDirectories, q \in Pages :
           e # KernelDirectory \/ q # CodePage =>
             UserEntry(memory', e, q) = UserEntry(memory, e, q)
  BY <1>1, <1>2, <1>3, AllocateInv
<1>5. \A i \in Slots : ~Live(i)
  BY <1>1 DEF KernelInv, PCBsInPlace, Live, TypeOK, PCBs, Serials, Nobody
<1>6. TypeOK'
  BY <1>4 DEF KernelInv, TypeOK, MemoryInv, Modes
<1>7. FramesLeft'
  BY <1>1, <1>4, FrameCountAssumption DEF FramesLeft
<1>8. DirectoriesOfBirths'
  BY <1>4 DEF KernelInv, DirectoriesOfBirths, UsedDirectories
<1>9. RunningIsLive' /\ RunningOwnsCPU' /\ OwnerNotReady'
  BY DEF KernelInv, RunningIsLive, RunningOwnsCPU, OwnerNotReady, RunningSlots,
         Booting
<1>10. LiveDirectories' /\ ContextIntegrity'
  BY <1>5 DEF LiveDirectories, ContextIntegrity, Live
<1> QED
  BY <1>1, <1>4, <1>6, <1>7, <1>8, <1>9, <1>10
     DEF KernelInv, NothingBornBeforeShell, PCBsInPlace, BornOnce,
         UnbornHaveNoProgress, Live

-----------------------------------------------------------------------------
(* Process creation *)

\* What is known when the checks let a request pass: two frames and a
\* directory are there.
LEMMA CreationHasResources ==
  ASSUME KernelInv, mode # "setup",
         NEW request, request.buf \in Pages,
         request.buffer_size \in Nat,
         CreateReturnCode(memory, active_process_count, request)
           = PROCESS_CREATE_SUCCESS
  PROVE  /\ active_process_count \in Slots
         /\ request.buf \in UserPages
         /\ memory.free_page_frame_count >= 2
         /\ births + 1 \in Serials
         /\ NewPageDirectory(memory) # NULL
         /\ NewPageDirectory(memory) \in UnusedDirectories(memory)
<1>1. /\ memory.free_page_frame_count \in Nat
      /\ active_process_count \in Nat
      /\ births \in Nat
  BY UINT32Assumption, FrameCountAssumption DEF KernelInv, TypeOK, MemoryStates
<1>2. /\ active_process_count \in Slots
      /\ request.buf \in UserPages
      /\ memory.free_page_frame_count >= 1
  BY <1>1, PassedChecks
<1>3. memory.free_page_frame_count = PAGE_FRAME_MAX_COUNT - 2 - 2 * births
  BY <1>1, FrameCountAssumption DEF KernelInv, FramesLeft, NothingBornBeforeShell
<1>4. /\ memory.free_page_frame_count >= 2
      /\ births + 1 \in Serials
      /\ births < PAGING_DIRECTORY_TABLE_MAX_COUNT
  BY <1>1, <1>2, <1>3, FrameCountAssumption, DirectoryCountAssumption DEF Serials
<1>5. Cardinality(UsedDirectories(memory)) < PAGING_DIRECTORY_TABLE_MAX_COUNT
  BY <1>1, <1>4, FrameSetsFinite, DirectoryCountAssumption
     DEF KernelInv, DirectoriesOfBirths
<1> QED
  BY <1>2, <1>4, <1>5, UnusedDirectoryExists

LEMMA CreateAcceptedInv ==
  ASSUME KernelInv,
         NEW request, request.buf \in Pages,
         request.buffer_size \in Nat,
         CreateAccepted(request),
         \/ mode = "create_shell" /\ mode' = "start_scheduler"
         \/ mode = "user" /\ mode' = "user"
  PROVE  KernelInv'
<1> DEFINE d == NewPageDirectory(memory)
<1> USE DEF CreateAccepted
<1>0. PICK p : p = active_process_count
  OBVIOUS
<1>1. /\ p \in Slots
      /\ request.buf \in UserPages
      /\ memory.free_page_frame_count >= 2
      /\ births + 1 \in Serials
      /\ d # NULL
      /\ d \in UnusedDirectories(memory)
  BY <1>0, CreationHasResources
<1>2. /\ MemoryInv(memory')
      /\ d \in Directories
      /\ ~memory.page_directory_used[d]
      /\ memory'.free_page_frame_count = memory.free_page_frame_count - 2
      /\ memory'.page_directory_used
           = [memory.page_directory_used EXCEPT ![d] = TRUE]
      /\ UserEntry(memory', d, KernelPage) = 0
      /\ \A q \in {request.buf, StackPage} : UserEntry(memory', d, q) # NotPresent
      /\ \A e \in AllDirectories, q \in Pages :
           e # d => UserEntry(memory', e, q) = UserEntry(memory, e, q)
      /\ Cardinality(UsedDirectories(memory'))
           = Cardinality(UsedDirectories(memory)) + 1
  BY <1>1, CreateMemoryInv DEF KernelInv
<1>3. /\ process_list'[p] = [pid |-> p, state |-> READY, born |-> births,
                             code |-> request.buf,
                             ctx |-> [owner |-> births, step |-> 0, pd |-> d]]
      /\ \A i \in Slots : i # p => process_list'[i] = process_list[i]
      /\ DOMAIN process_list' = Slots
  BY <1>0, <1>1 DEF KernelInv, TypeOK, CreatePCB
<1> HIDE DEF d
<1>4. /\ births \in Nat /\ births \in Serials /\ births # Nobody
      /\ Serials \subseteq Nat
      /\ p \in Nat
      /\ d \in AllDirectories
      /\ memory.free_page_frame_count \in Nat
      /\ memory.page_directory_used \in [Directories -> BOOLEAN]
      /\ Slots \subseteq Nat
  BY <1>1, <1>2, SlotFacts, FrameCountAssumption
     DEF KernelInv, TypeOK, UnbornHaveNoProgress, AllDirectories, MemoryStates
<1>5. TypeOK'
  <2>1. process_list' \in [Slots -> PCBs]
    <3>1. process_list'[p] \in PCBs
      BY <1>1, <1>3, <1>4 DEF PCBs, Contexts, ProcessStates
    <3> QED
      BY <1>1, <1>3, <3>1 DEF KernelInv, TypeOK
  <2>2. p + 1 \in 0 .. UINT32 - 1
    BY <1>1, <1>4, SlotFacts, ProcessCountAssumption, UINT32Assumption
  <2>3. births' \in Nat /\ mode' \in Modes
    BY <1>4 DEF Modes
  <2> QED
    BY <1>0, <1>2, <2>1, <2>2, <2>3 DEF KernelInv, TypeOK, MemoryInv
<1>6. /\ Live(p)'
      /\ \A i \in Slots : i # p => (Live(i)' <=> Live(i))
  <2>1. process_list'[p].born = births
    BY <1>3
  <2>2. \A i \in Slots : i # p => process_list'[i].born = process_list[i].born
    BY <1>3
  <2> QED
    BY <1>4, <2>1, <2>2 DEF Live
<1>7. \A i \in Slots : Live(i) => /\ process_list[i].ctx.pd # d
                                  /\ process_list[i].born < births
  BY <1>2 DEF KernelInv, LiveDirectories, PCBsInPlace
<1>8. FramesLeft' /\ NothingBornBeforeShell' /\ DirectoriesOfBirths'
  <2>1. memory.free_page_frame_count = PAGE_FRAME_MAX_COUNT - 2 - 2 * births
    BY <1>4, FrameCountAssumption
       DEF KernelInv, FramesLeft, NothingBornBeforeShell
  <2>2. FramesLeft' /\ NothingBornBeforeShell'
    BY <1>2, <1>4, <2>1, FrameCountAssumption
       DEF FramesLeft, NothingBornBeforeShell
  <2>3. DirectoriesOfBirths'
    BY <1>2, <1>4, FrameSetsFinite DEF KernelInv, DirectoriesOfBirths
  <2> QED
    BY <2>2, <2>3
<1>9. LiveDirectories'
  <2> SUFFICES ASSUME NEW i \in Slots, Live(i)'
               PROVE  LET e == process_list'[i].ctx.pd IN
                      /\ e \in Directories
                      /\ memory'.page_directory_used[e]
                      /\ MapsKernel(memory', e)
                      /\ \A q \in {process_list'[i].code, StackPage} :
                           MappedFrame(memory', e, q) # NotPresent
                      /\ \A j \in Slots :
                           Live(j)' /\ process_list'[j].ctx.pd = e => j = i
    BY DEF LiveDirectories
  <2>1. /\ UserPages \subseteq Pages
        /\ KernelPage \in Pages
        /\ StackPage \in Pages
        /\ process_list[i].code \in Pages
    BY DEF Pages, UserPages, KernelInv, TypeOK, PCBs
  <2>2. CASE i = p
    <3>1. process_list'[i].ctx.pd = d /\ process_list'[i].code = request.buf
      BY <1>3, <2>2
    <3>2. \A j \in Slots : Live(j)' /\ process_list'[j].ctx.pd = d => j = p
      BY <1>3, <1>6, <1>7
    <3> QED
      BY <1>2, <1>4, <2>2, <3>1, <3>2 DEF MapsKernel, MappedFrame, UserEntry
  <2>3. CASE i # p
    <3> DEFINE e == process_list[i].ctx.pd
    <3>1. /\ process_list'[i].ctx.pd = e
          /\ process_list'[i].code = process_list[i].code
          /\ Live(i)
          /\ e # d
          /\ e \in Directories
          /\ e \in AllDirectories
          /\ memory.page_directory_used[e]
          /\ memory.page_directory_list[e][KernelPage] = 0
          /\ \A q \in {process_list[i].code, StackPage} :
               UserEntry(memory, e, q) # NotPresent
          /\ \A j \in Slots :
               Live(j) /\ process_list[j].ctx.pd = e => j = i
      BY <1>3, <1>6, <1>7, <2>3
         DEF KernelInv, LiveDirectories, MapsKernel, MappedFrame, UserEntry,
             AllDirectories
    <3> HIDE DEF e
    <3>2. /\ memory'.page_directory_used[e]
          /\ memory'.page_directory_list[e][KernelPage] = 0
          /\ \A q \in {process_list[i].code, StackPage} :
               UserEntry(memory', e, q) # NotPresent
      BY <1>2, <1>4, <2>1, <3>1 DEF UserEntry
    <3>3. \A j \in Slots : Live(j)' /\ process_list'[j].ctx.pd = e => j = i
      BY <1>3, <1>6, <3>1
    <3> QED
      BY <3>1, <3>2, <3>3 DEF MapsKernel, MappedFrame, UserEntry
  <2> QED
    BY <2>2, <2>3
<1>10. PCBsInPlace' /\ BornOnce'
  <2>1. PCBsInPlace'
    <3> SUFFICES ASSUME NEW i \in Slots
                 PROVE  IF Live(i)'
                        THEN /\ process_list'[i].pid = i
                             /\ process_list'[i].state \in {READY, RUNNING}
                             /\ process_list'[i].born < births'
                             /\ process_list'[i].ctx.owner = process_list'[i].born
                        ELSE /\ process_list'[i].pid = 0
                             /\ process_list'[i].ctx = NullContext
      BY DEF PCBsInPlace
    <3>1. CASE i = p
      BY <1>3, <1>4, <1>6, <3>1
    <3>2. CASE i # p
      <4>1. process_list'[i] = process_list[i] /\ (Live(i)' <=> Live(i))
        BY <1>3, <1>6, <3>2
      <4>2. Live(i) => process_list[i].born \in Nat
        BY <1>4 DEF KernelInv, TypeOK, PCBs, Live
      <4> QED
        BY <1>4, <1>7, <4>1, <4>2 DEF KernelInv, PCBsInPlace
    <3> QED
      BY <3>1, <3>2
  <2>2. BornOnce'
    BY <1>3, <1>4, <1>6, <1>7, SlotFacts DEF KernelInv, BornOnce, Live, Nobody
  <2> QED
    BY <2>1, <2>2
<1>11. RunningSlots(process_list') \subseteq RunningSlots(process_list)
  BY <1>3 DEF RunningSlots, READY, RUNNING
<1>12. RunningIsLive' /\ RunningOwnsCPU'
  <2>1. \A i \in RunningSlots(process_list') :
          i \in Slots /\ i # p /\ process_list'[i] = process_list[i]
    BY <1>3 DEF RunningSlots, READY, RUNNING
  <2>2. RunningIsLive'
    BY <1>6, <1>11, <2>1 DEF KernelInv, RunningIsLive, Booting
  <2>3. RunningOwnsCPU'
    BY <1>11, <2>1, ZenonT(60) DEF KernelInv, RunningOwnsCPU
  <2> QED
    BY <2>2, <2>3
<1>13. OwnerNotReady'
  <2> SUFFICES ASSUME mode' = "user"
               PROVE  /\ cpu'.owner # Nobody
                      /\ cpu'.owner < births'
                      /\ \A i \in Slots : process_list'[i].born = cpu'.owner =>
                           process_list'[i].state = RUNNING
    BY DEF OwnerNotReady
  <2>1. /\ cpu.owner # Nobody
        /\ cpu.owner < births
        /\ \A i \in Slots : process_list[i].born = cpu.owner =>
             process_list[i].state = RUNNING
    BY DEF KernelInv, OwnerNotReady
  <2>2. cpu.owner \in Nat
    BY <1>4, <2>1 DEF KernelInv, TypeOK
  <2> QED
    BY <1>3, <1>4, <2>1, <2>2
<1>14. ContextIntegrity'
  <2>1. progress[births] = 0
    BY <1>4 DEF KernelInv, UnbornHaveNoProgress
  <2> QED
    BY <1>3, <1>6, <2>1 DEF KernelInv, ContextIntegrity
<1>15. UnbornHaveNoProgress'
  <2>1. births' = births + 1 /\ progress' = progress
    OBVIOUS
  <2>2. \A s \in Serials : s \in Nat /\ (s >= births => progress[s] = 0)
    BY <1>4 DEF KernelInv, UnbornHaveNoProgress
  <2> QED
    BY ONLY <1>1, <1>4, <2>1, <2>2 DEF UnbornHaveNoProgress
<1> QED
  BY <1>2, <1>5, <1>8, <1>9, <1>10, <1>12, <1>13, <1>14, <1>15 DEF KernelInv

-----------------------------------------------------------------------------
(* Process destruction *)

(***************************************************************************)
(* The control block process_destroy finds by pid is the one it clears by  *)
(* index: it frees the directory of the process in that slot, or none      *)
(* (process.c:156-170).                                                    *)
(***************************************************************************)
LEMMA DestroyFindsSlot ==
  ASSUME KernelInv, NEW pid \in Slots
  PROVE  IF Live(pid)
         THEN DestroyDirectory(process_list, pid) = process_list[pid].ctx.pd
         ELSE DestroyDirectory(process_list, pid) = NULL
<1> DEFINE S == SlotsWithPid(process_list, pid)
<1>1. /\ S \subseteq Nat
      /\ \A i \in S : i \in Slots /\ process_list[i].pid = pid
      /\ \A i \in Slots : process_list[i].pid = pid => i \in S
  BY SlotFacts DEF SlotsWithPid
<1>2. \A i \in Slots : Live(i) => process_list[i].pid = i
  BY DEF KernelInv, PCBsInPlace
<1>3. \A i \in Slots : ~Live(i) => /\ process_list[i].pid = 0
                                   /\ process_list[i].ctx.pd = NULL
  BY DEF KernelInv, PCBsInPlace, NullContext
<1>4. S # {} => Min(S) \in S /\ \A i \in S : Min(S) <= i
  BY <1>1, MinProperty
<1> HIDE DEF S
<1>5. S # {} => Min(S) = pid
  <2> SUFFICES ASSUME S # {}
               PROVE  Min(S) = pid
    OBVIOUS
  <2>1. CASE pid = 0
    <3>1. process_list[0].pid = 0
      BY <1>2, <1>3, SlotFacts
    <3>2. 0 \in S
      BY <1>1, <2>1, <3>1, SlotFacts
    <3> QED
      BY <1>1, <1>4, <2>1, <3>2
  <2>2. CASE pid # 0
    BY <1>1, <1>2, <1>3, <1>4, <2>2
  <2> QED
    BY <2>1, <2>2
<1>6. S = {} => ~Live(pid)
  BY <1>1, <1>2
<1>7. DestroyDirectory(process_list, pid) =
        IF S # {} THEN process_list[Min(S)].ctx.pd ELSE NULL
  BY DEF DestroyDirectory, S
<1> QED
  BY <1>3, <1>5, <1>6, <1>7

LEMMA DestroyInv ==
  ASSUME KernelInv, NEW pid \in 0 .. PROCESS_COUNT_MAX,
         SyscallProcessDestroy(pid)
  PROVE  KernelInv'
<1> USE DEF SyscallProcessDestroy
<1>1. CASE pid >= PROCESS_COUNT_MAX
  BY <1>1, FaultInv
<1>2. CASE ~(pid >= PROCESS_COUNT_MAX)
  <2> DEFINE d == DestroyDirectory(process_list, pid)
  <2>1. pid \in Slots /\ pid \in Nat
    BY <1>2, SlotFacts, ProcessCountAssumption
  <2>2. IF Live(pid) THEN d = process_list[pid].ctx.pd ELSE d = NULL
    BY <2>1, DestroyFindsSlot
  <2>3. /\ MemoryInv(memory')
        /\ memory'.free_page_frame_count = memory.free_page_frame_count
        /\ Cardinality(UsedDirectories(memory'))
             <= Cardinality(UsedDirectories(memory))
        /\ \A e \in AllDirectories : e # d =>
             memory'.page_directory_list[e] = memory.page_directory_list[e]
        /\ \A e \in Directories : e # d =>
             memory'.page_directory_used[e] = memory.page_directory_used[e]
    BY <1>2, FreeDirectoryInv DEF KernelInv, DestroyMemory
  <2> HIDE DEF d
  <2>4. /\ process_list'[pid] = EmptyPCB
        /\ \A i \in Slots : i # pid => process_list'[i] = process_list[i]
    BY <1>2, <2>1 DEF KernelInv, TypeOK, DestroyPCBs
  <2>5. /\ ~Live(pid)'
        /\ \A i \in Slots : Live(i)' => /\ Live(i)
                                        /\ i # pid
                                        /\ process_list'[i] = process_list[i]
        /\ \A i \in Slots : i # pid => (Live(i)' <=> Live(i))
    BY <2>4 DEF Live, EmptyPCB
  <2>6. TypeOK'
    <3>1. EmptyPCB \in PCBs
      BY DEF EmptyPCB, PCBs, ProcessStates, NullContext, Contexts, UserPages
    <3>2. process_list' \in [Slots -> PCBs]
      BY <1>2, <3>1 DEF KernelInv, TypeOK, DestroyPCBs
    <3>3. active_process_count' \in 0 .. UINT32 - 1
      BY <1>2, UINT32Assumption, ProcessCountAssumption DEF KernelInv, TypeOK, Dec32
    <3> QED
      BY <1>2, <2>3, <3>2, <3>3 DEF KernelInv, TypeOK, MemoryInv
  <2>7. FramesLeft' /\ NothingBornBeforeShell' /\ UnbornHaveNoProgress'
    BY <2>3 DEF KernelInv, FramesLeft, NothingBornBeforeShell,
                UnbornHaveNoProgress
  <2>8. DirectoriesOfBirths'
    BY <2>3, FrameSetsFinite DEF KernelInv, DirectoriesOfBirths, TypeOK
  <2>9. LiveDirectories'
    <3> SUFFICES ASSUME NEW i \in Slots, Live(i)'
                 PROVE  LET e == process_list'[i].ctx.pd IN
                        /\ e \in Directories
                        /\ memory'.page_directory_used[e]
                        /\ MapsKernel(memory', e)
                        /\ \A q \in {process_list'[i].code, StackPage} :
                             MappedFrame(memory', e, q) # NotPresent
                        /\ \A j \in Slots :
                             Live(j)' /\ process_list'[j].ctx.pd = e => j = i
      BY DEF LiveDirectories
    <3> DEFINE e == process_list[i].ctx.pd
    <3>1. /\ process_list'[i].ctx.pd = e
          /\ process_list'[i].code = process_list[i].code
          /\ Live(i)
          /\ i # pid
      BY <2>5
    <3>2. /\ e \in Directories
          /\ e \in AllDirectories
          /\ memory.page_directory_used[e]
          /\ MapsKernel(memory, e)
          /\ \A q \in {process_list[i].code, StackPage} :
               MappedFrame(memory, e, q) # NotPresent
          /\ \A j \in Slots :
               Live(j) /\ process_list[j].ctx.pd = e => j = i
      BY <3>1 DEF KernelInv, LiveDirectories, AllDirectories
    <3> HIDE DEF e
    <3>3. e # d
      BY <2>1, <2>2, <3>1, <3>2, DirectoryCountAssumption DEF Directories, NULL
    <3>4. /\ memory'.page_directory_list[e] = memory.page_directory_list[e]
          /\ memory'.page_directory_used[e] = memory.page_directory_used[e]
      BY <2>3, <3>2, <3>3
    <3>5. \A j \in Slots : Live(j)' /\ process_list'[j].ctx.pd = e => j = i
      BY <2>5, <3>2
    <3> QED
      BY <3>1, <3>2, <3>4, <3>5 DEF MapsKernel, MappedFrame
  <2>10. PCBsInPlace' /\ BornOnce'
    <3>1. PCBsInPlace'
      BY <2>4, <2>5 DEF KernelInv, PCBsInPlace, EmptyPCB, Live
    <3>2. BornOnce'
      BY <2>4, <2>5 DEF KernelInv, BornOnce, Live, EmptyPCB
    <3> QED
      BY <3>1, <3>2
  <2>11. \A i \in RunningSlots(process_list') :
           /\ i \in RunningSlots(process_list)
           /\ i # pid
           /\ process_list'[i] = process_list[i]
    BY <2>4 DEF RunningSlots, EmptyPCB, NO_PROCESS, RUNNING
  <2>12. RunningIsLive' /\ RunningOwnsCPU'
    <3>1. RunningSlots(process_list') \subseteq RunningSlots(process_list)
      BY <2>11
    <3>2. RunningIsLive'
      BY <2>5, <2>11, <3>1 DEF KernelInv, RunningIsLive, RunningSlots
    <3>3. RunningOwnsCPU'
      BY <2>11, <3>1 DEF KernelInv, RunningOwnsCPU
    <3> QED
      BY <3>2, <3>3
  <2>13. OwnerNotReady'
    BY <2>4 DEF KernelInv, OwnerNotReady, EmptyPCB
  <2>14. ContextIntegrity'
    BY <2>5 DEF KernelInv, ContextIntegrity
  <2> QED
    BY <2>3, <2>6, <2>7, <2>8, <2>9, <2>10, <2>12, <2>13, <2>14 DEF KernelInv
<1> QED
  BY <1>1, <1>2

-----------------------------------------------------------------------------
(* The scheduler *)

SavedList == SaveContext(process_list, InterruptedContext)

(***************************************************************************)
(* Saving touches the context of the RUNNING block only, and stores there  *)
(* what that process is and how far it has come (scheduler.c:31-39).       *)
(***************************************************************************)
LEMMA SaveEffect ==
  ASSUME KernelInv, mode \in {"start_scheduler", "user"}
  PROVE  /\ SavedList \in [Slots -> PCBs]
         /\ \A i \in Slots :
              /\ SavedList[i].pid = process_list[i].pid
              /\ SavedList[i].state = process_list[i].state
              /\ SavedList[i].born = process_list[i].born
              /\ SavedList[i].code = process_list[i].code
              /\ SavedList[i].ctx.pd = process_list[i].ctx.pd
              /\ Live(i) =>
                   /\ SavedList[i].ctx.owner = process_list[i].born
                   /\ SavedList[i].ctx.step = progress[process_list[i].born]
              /\ ~Live(i) => SavedList[i].ctx = NullContext
         /\ \A i \in RunningSlots(process_list) : i = SwitchFrom(SavedList)
<1> DEFINE R == RunningSlots(process_list)
<1>1. process_list \in [Slots -> PCBs] /\ InterruptedContext \in Contexts
  BY DEF KernelInv, TypeOK, InterruptedContext, Contexts
<1>2. R \subseteq Slots /\ \A i \in R : process_list[i].state = RUNNING
  BY DEF RunningSlots
<1>3. \A i \in Slots : Live(i) /\ i \notin R => process_list[i].state = READY
  BY DEF KernelInv, PCBsInPlace, RunningSlots
<1>4. CASE R = {}
  <2>1. SavedList = process_list
    BY <1>4 DEF SavedList, SaveContext, process_get_current_running_pcb_pointer
  <2> QED
    BY <1>1, <1>3, <1>4, <2>1
       DEF KernelInv, ContextIntegrity, PCBsInPlace
<1>5. CASE R # {}
  <2>1. PICK r \in R : TRUE
    BY <1>5
  <2>2. mode = "user"
    BY <2>1 DEF KernelInv, RunningIsLive, Booting
  <2>3. /\ R = {r}
        /\ r \in Slots
        /\ r \in Nat
        /\ Live(r)
        /\ process_list[r].born = cpu.owner
        /\ process_list[r].ctx.pd = cr3
        /\ cpu.step = progress[cpu.owner]
    BY <1>2, <2>1, <2>2, SlotFacts
       DEF KernelInv, RunningOwnsCPU, RunningIsLive, ContextIntegrity, Live
  <2>4. Min(R) = r
    BY <2>3, MinProperty
  <2>5. process_get_current_running_pcb_pointer(process_list) = r /\ r # NULL
    BY <1>5, <2>3, <2>4 DEF process_get_current_running_pcb_pointer, NULL
  <2>6. SavedList = [process_list EXCEPT ![r].ctx = InterruptedContext]
    BY <2>5 DEF SavedList, SaveContext
  <2>7. /\ SavedList \in [Slots -> PCBs]
        /\ \A i \in Slots : i # r => SavedList[i] = process_list[i]
        /\ SavedList[r].pid = process_list[r].pid
        /\ SavedList[r].state = process_list[r].state
        /\ SavedList[r].born = process_list[r].born
        /\ SavedList[r].code = process_list[r].code
        /\ SavedList[r].ctx = InterruptedContext
    BY <1>1, <2>3, <2>6 DEF PCBs
  <2>8. /\ InterruptedContext.owner = cpu.owner
        /\ InterruptedContext.step = cpu.step
        /\ InterruptedContext.pd = cr3
    BY DEF InterruptedContext
  <2>9. RunningSlots(SavedList) = R
    BY <2>7 DEF RunningSlots
  <2>10. SwitchFrom(SavedList) = r
    BY <2>4, <2>5, <2>9, <1>5
       DEF SwitchFrom, process_get_current_running_pcb_pointer
  <2>11. \A i \in Slots : i # r /\ Live(i) => process_list[i].state = READY
    BY <1>3, <2>3
  <2> QED
    BY <2>3, <2>7, <2>8, <2>10, <2>11
       DEF KernelInv, ContextIntegrity, PCBsInPlace
<1> QED
  BY <1>4, <1>5

(***************************************************************************)
(* The switch makes one block the only RUNNING one, gives its context to   *)
(* the CPU, and otherwise changes nothing but states (scheduler.c:44-73).  *)
(***************************************************************************)
LEMMA SwitchEffect ==
  ASSUME KernelInv, mode \in {"start_scheduler", "user"}, Switch(SavedList)
  PROVE  \E next \in Slots :
           /\ cr3' = SavedList[next].ctx.pd
           /\ cpu' = [owner |-> SavedList[next].ctx.owner,
                      step |-> SavedList[next].ctx.step]
           /\ mode' = IF MapsKernel(memory, SavedList[next].ctx.pd)
                      THEN "user" ELSE "fault"
           /\ UNCHANGED <<memory, active_process_count, births, progress>>
           /\ process_list' \in [Slots -> PCBs]
           /\ \A i \in Slots :
                /\ process_list'[i].pid = process_list[i].pid
                /\ process_list'[i].born = process_list[i].born
                /\ process_list'[i].code = process_list[i].code
                /\ process_list'[i].ctx = SavedList[i].ctx
                /\ Live(i) => process_list'[i].state \in {READY, RUNNING}
           /\ process_list'[next].state = RUNNING
           /\ RunningSlots(process_list') = {next}
<1>1. PICK cur \in Slots, next \in Slots :
        /\ cur = SwitchFrom(SavedList)
        /\ next = SwitchTo(SavedList, cur)
        /\ process_list' = SwitchStates(SavedList, cur, next)
        /\ cr3' = SavedList[next].ctx.pd
        /\ cpu' = [owner |-> SavedList[next].ctx.owner,
                   step |-> SavedList[next].ctx.step]
        /\ mode' = IF MapsKernel(memory, SavedList[next].ctx.pd)
                   THEN "user" ELSE "fault"
        /\ UNCHANGED <<memory, active_process_count, births, progress>>
  BY DEF Switch
<1>2. /\ SavedList \in [Slots -> PCBs]
      /\ \A i \in Slots :
           /\ SavedList[i].pid = process_list[i].pid
           /\ SavedList[i].state = process_list[i].state
           /\ SavedList[i].born = process_list[i].born
           /\ SavedList[i].code = process_list[i].code
           /\ SavedList[i].ctx.pd = process_list[i].ctx.pd
           /\ Live(i) =>
                /\ SavedList[i].ctx.owner = process_list[i].born
                /\ SavedList[i].ctx.step = progress[process_list[i].born]
           /\ ~Live(i) => SavedList[i].ctx = NullContext
      /\ \A i \in RunningSlots(process_list) : i = cur
  BY <1>1, SaveEffect
<1> HIDE DEF SavedList
<1>3. \A i \in Slots :
        process_list'[i] = IF i = next THEN [SavedList[i] EXCEPT !.state = RUNNING]
                           ELSE IF i = cur THEN [SavedList[i] EXCEPT !.state = READY]
                           ELSE SavedList[i]
  BY <1>1 DEF SwitchStates
<1>4. \A i \in Slots :
        /\ process_list'[i] \in PCBs
        /\ process_list'[i].pid = process_list[i].pid
        /\ process_list'[i].born = process_list[i].born
        /\ process_list'[i].code = process_list[i].code
        /\ process_list'[i].ctx = SavedList[i].ctx
        /\ process_list'[i].state =
             IF i = next THEN RUNNING
             ELSE IF i = cur THEN READY ELSE process_list[i].state
  <2>1. ASSUME NEW x \in PCBs, NEW st \in ProcessStates
        PROVE  /\ [x EXCEPT !.state = st] \in PCBs
               /\ [x EXCEPT !.state = st].pid = x.pid
               /\ [x EXCEPT !.state = st].born = x.born
               /\ [x EXCEPT !.state = st].code = x.code
               /\ [x EXCEPT !.state = st].ctx = x.ctx
               /\ [x EXCEPT !.state = st].state = st
    BY DEF PCBs
  <2>2. RUNNING \in ProcessStates /\ READY \in ProcessStates
    BY DEF ProcessStates
  <2>3. \A i \in Slots : SavedList[i] \in PCBs
    BY <1>2
  <2> SUFFICES ASSUME NEW i \in Slots
               PROVE  /\ process_list'[i] \in PCBs
                      /\ process_list'[i].pid = process_list[i].pid
                      /\ process_list'[i].born = process_list[i].born
                      /\ process_list'[i].code = process_list[i].code
                      /\ process_list'[i].ctx = SavedList[i].ctx
                      /\ process_list'[i].state =
                           IF i = next THEN RUNNING
                           ELSE IF i = cur THEN READY ELSE process_list[i].state
    OBVIOUS
  <2>4. CASE i = next
    <3>1. process_list'[i] = [SavedList[i] EXCEPT !.state = RUNNING]
      BY <1>3, <2>4
    <3> QED
      BY <1>2, <2>1, <2>2, <2>3, <2>4, <3>1
  <2>5. CASE i # next /\ i = cur
    <3>1. process_list'[i] = [SavedList[i] EXCEPT !.state = READY]
      BY <1>3, <2>5
    <3> QED
      BY <1>2, <2>1, <2>2, <2>3, <2>5, <3>1
  <2>6. CASE i # next /\ i # cur
    BY <1>2, <1>3, <2>3, <2>6
  <2> QED
    BY <2>4, <2>5, <2>6
<1>5. \A i \in Slots : Live(i) => process_list'[i].state \in {READY, RUNNING}
  BY <1>4 DEF KernelInv, PCBsInPlace
<1>6. RunningSlots(process_list') = {next}
  <2>1. \A i \in Slots : i # next => process_list'[i].state # RUNNING
    BY <1>2, <1>4 DEF RunningSlots, READY, RUNNING
  <2>2. process_list'[next].state = RUNNING
    BY <1>4
  <2> QED
    BY <2>1, <2>2 DEF RunningSlots
<1>7. process_list' \in [Slots -> PCBs]
  <2>1. process_list' = [i \in Slots |-> process_list'[i]]
    BY <1>1 DEF SwitchStates
  <2> QED
    BY <1>4, <2>1
<1>8. process_list'[next].state = RUNNING
  BY <1>4
<1> QED
  BY <1>1, <1>4, <1>5, <1>6, <1>7, <1>8

LEMMA SwitchInv ==
  ASSUME KernelInv, mode \in {"start_scheduler", "user"}, Switch(SavedList)
  PROVE  KernelInv'
<1>1. PICK next \in Slots :
        /\ cr3' = SavedList[next].ctx.pd
        /\ cpu' = [owner |-> SavedList[next].ctx.owner,
                   step |-> SavedList[next].ctx.step]
        /\ mode' = IF MapsKernel(memory, SavedList[next].ctx.pd)
                   THEN "user" ELSE "fault"
        /\ UNCHANGED <<memory, active_process_count, births, progress>>
        /\ process_list' \in [Slots -> PCBs]
        /\ \A i \in Slots :
             /\ process_list'[i].pid = process_list[i].pid
             /\ process_list'[i].born = process_list[i].born
             /\ process_list'[i].code = process_list[i].code
             /\ process_list'[i].ctx = SavedList[i].ctx
             /\ Live(i) => process_list'[i].state \in {READY, RUNNING}
        /\ process_list'[next].state = RUNNING
        /\ RunningSlots(process_list') = {next}
  BY SwitchEffect
<1>2. /\ SavedList \in [Slots -> PCBs]
      /\ \A i \in Slots :
           /\ SavedList[i].pid = process_list[i].pid
           /\ SavedList[i].state = process_list[i].state
           /\ SavedList[i].born = process_list[i].born
           /\ SavedList[i].ctx.pd = process_list[i].ctx.pd
           /\ Live(i) =>
                /\ SavedList[i].ctx.owner = process_list[i].born
                /\ SavedList[i].ctx.step = progress[process_list[i].born]
           /\ ~Live(i) => SavedList[i].ctx = NullContext
  BY SaveEffect
<1> HIDE DEF SavedList
<1>3. \A i \in Slots : Live(i)' <=> Live(i)
  BY <1>1 DEF Live
<1>4. TypeOK'
  <2>1. SavedList[next].ctx \in Contexts
    BY <1>2 DEF PCBs
  <2>2. /\ cr3' \in AllDirectories \cup {NULL}
        /\ cpu' \in [owner : Serials \cup {Nobody}, step : Nat]
    BY <1>1, <2>1 DEF Contexts
  <2>3. mode' \in Modes
    BY <1>1 DEF Modes
  <2> QED
    BY <1>1, <2>2, <2>3 DEF KernelInv, TypeOK
<1>5. mode' = "user" => Live(next)
  BY <1>1, <1>2, DirectoryCountAssumption
     DEF MapsKernel, NullContext, NULL, AllDirectories, Directories,
         KernelDirectory
<1>6. mode' \in {"user", "fault"}
  BY <1>1
<1>7. /\ FramesLeft' /\ NothingBornBeforeShell' /\ DirectoriesOfBirths'
       /\ UnbornHaveNoProgress' /\ MemoryInv(memory')
  BY <1>1, <1>6 DEF KernelInv, FramesLeft, NothingBornBeforeShell,
                    DirectoriesOfBirths, UnbornHaveNoProgress
<1>8. \A i \in Slots : process_list'[i].ctx.pd = process_list[i].ctx.pd
  BY <1>1, <1>2
<1>9. LiveDirectories'
  BY <1>1, <1>3, <1>8 DEF KernelInv, LiveDirectories, MappedFrame
<1>10. PCBsInPlace' /\ BornOnce'
  <2>1. \A i \in Slots : Live(i) => process_list'[i].state \in {READY, RUNNING}
    BY <1>1 DEF KernelInv, PCBsInPlace
  <2>2. PCBsInPlace'
    BY <1>1, <1>2, <1>3, <2>1 DEF KernelInv, PCBsInPlace
  <2>3. BornOnce'
    BY <1>1, <1>3 DEF KernelInv, BornOnce
  <2> QED
    BY <2>2, <2>3
<1>11. RunningIsLive' /\ RunningOwnsCPU'
  <2>1. RunningIsLive'
    BY <1>3, <1>1, <1>5, <1>6 DEF RunningIsLive, Booting
  <2>2. RunningOwnsCPU'
    BY <1>1, <1>2, <1>5 DEF RunningOwnsCPU
  <2> QED
    BY <2>1, <2>2
<1>12. OwnerNotReady'
  <2> SUFFICES ASSUME mode' = "user"
               PROVE  /\ cpu'.owner # Nobody
                      /\ cpu'.owner < births'
                      /\ \A i \in Slots : process_list'[i].born = cpu'.owner =>
                           process_list'[i].state = RUNNING
    BY DEF OwnerNotReady
  <2>1. Live(next) /\ cpu'.owner = process_list[next].born
    BY <1>1, <1>2, <1>5
  <2>2. \A i \in Slots : process_list[i].born = process_list[next].born => i = next
    BY <2>1 DEF KernelInv, BornOnce
  <2> QED
    BY <1>1, <2>1, <2>2 DEF KernelInv, PCBsInPlace, Live
<1>13. ContextIntegrity'
  <2>1. \A i \in Slots : Live(i) =>
          /\ process_list'[i].ctx.owner = process_list'[i].born
          /\ process_list'[i].ctx.step = progress[process_list'[i].born]
    BY <1>1, <1>2
  <2>2. mode' = "user" => cpu'.step = progress[cpu'.owner]
    BY <1>1, <1>2, <1>5
  <2> QED
    BY <1>1, <1>3, <2>1, <2>2 DEF ContextIntegrity
<1> QED
  BY <1>4, <1>7, <1>9, <1>10, <1>11, <1>12, <1>13 DEF KernelInv

LEMMA TimerInterruptInv == KernelInv /\ TimerInterrupt => KernelInv'
BY SwitchInv DEF TimerInterrupt, SavedList

LEMMA SetupSwitchInv == KernelInv /\ SetupSwitch => KernelInv'
<1> SUFFICES ASSUME KernelInv, SetupSwitch
             PROVE  KernelInv'
  OBVIOUS
<1>1. RunningSlots(process_list) = {}
  BY DEF KernelInv, RunningIsLive, SetupSwitch, Booting
<1>2. SavedList = process_list
  BY <1>1 DEF SavedList, SaveContext, process_get_current_running_pcb_pointer
<1> QED
  BY <1>2, SwitchInv DEF SetupSwitch

\* System call 15, with a request any process may have made.
LEMMA CreateSyscallInv ==
  ASSUME KernelInv,
         NEW request, request.buf \in Pages,
         request.buffer_size \in Nat,
         SyscallCreateProcess(request)
  PROVE  KernelInv'
<1>1. mode = "user"
  BY DEF SyscallCreateProcess
<1>2. CASE CreateRefused(request) /\ UNCHANGED mode
  BY <1>1, <1>2, FaultInv DEF CreateRefused
<1>3. CASE CreateAccepted(request) /\ UNCHANGED mode
  BY <1>1, <1>3, CreateAcceptedInv
<1>4. CASE CreateFaulted(request)
  BY <1>1, <1>4, FaultInv DEF CreateFaulted
<1> QED
  BY <1>2, <1>3, <1>4 DEF SyscallCreateProcess

-----------------------------------------------------------------------------
(* Theorems *)

(***************************************************************************)
(* Every action of the kernel, with whatever process system calls the user *)
(* processes make, preserves the invariant.                                *)
(***************************************************************************)
LEMMA NextInv == KernelInv /\ [Next]_vars => KernelInv'
<1> SUFFICES ASSUME KernelInv, [Next]_vars
             PROVE  KernelInv'
  OBVIOUS
<1>1. ShellRequest.buf \in Pages /\ ShellRequest.buffer_size \in Nat
  BY DEF ShellRequest, Pages, UserPages
<1>2. CASE SetupCreateShell
  BY <1>1, <1>2, CreateAcceptedInv DEF SetupCreateShell
<1>3. ASSUME NEW request \in Requests, SyscallCreateProcess(request)
      PROVE  KernelInv'
  <2>1. request.buf \in Pages /\ request.buffer_size \in Nat
    BY BufferSizesAssumption DEF Requests
  <2> QED
    BY <1>3, <2>1, CreateSyscallInv
<1>4. ASSUME NEW pid \in 0 .. PROCESS_COUNT_MAX, SyscallProcessDestroy(pid)
      PROVE  KernelInv'
  BY <1>4, DestroyInv
<1>5. CASE TranslationMiss
  BY <1>5, FaultInv DEF TranslationMiss
<1> QED
  BY <1>2, <1>3, <1>4, <1>5, SetupAllocateInv, SetupSwitchInv, UserStepInv,
     TimerInterruptInv, ResetInv, StutterInv
     DEF Next, Boot, ProcessSyscall, Hardware

THEOREM KernelInvariant == Spec => []KernelInv
BY InitInv, NextInv, PTL DEF Spec

(***************************************************************************)
(* Type correctness: in particular free_page_frame_count stays below the   *)
(* number of frames, so that it never wraps (paging.c:82-106), whatever    *)
(* active_process_count, which may wrap (process.c:173), lets through.     *)
(***************************************************************************)
THEOREM TypeCorrect == Spec => []TypeOK
<1>1. KernelInv => TypeOK
  BY DEF KernelInv
<1> QED
  BY <1>1, KernelInvariant, PTL

(***************************************************************************)
(* No frame is mapped at two places, no wild frame is ever mapped, and     *)
(* frame 0 stays the kernel's (paging.c:70-106), although the check for    *)
(* memory asks for one frame where two are taken (process.c:65).           *)
(***************************************************************************)
THEOREM FramesAreExclusive == Spec => []FramesExclusive
<1>1. KernelInv => FramesExclusive
  <2> SUFFICES ASSUME KernelInv
               PROVE  FramesExclusive
    OBVIOUS
  <2>1. MappedAreMarked(memory) /\ MappedOnce(memory)
    BY DEF KernelInv, MemoryInv
  <2> QED
    BY <2>1 DEF FramesExclusive, MappedAreMarked, MappedOnce, MappedFrame,
                UserEntry
<1> QED
  BY <1>1, KernelInvariant, PTL

(***************************************************************************)
(* Frames are counted right, and each process created takes two for good.  *)
(***************************************************************************)
THEOREM FramesAreAccounted == Spec => []FramesAccounted
<1>1. KernelInv => FramesAccounted
  BY DEF KernelInv, MemoryInv, FramesCounted, FramesLeft, FramesAccounted
<1> QED
  BY <1>1, KernelInvariant, PTL

(***************************************************************************)
(* Every live process has a directory of its own that is in use and maps   *)
(* its code, its stack and the kernel: a context switch to it cannot fault (scheduler.c:71).       *)
(***************************************************************************)
THEOREM LiveProcessesHaveDirectories == Spec => []LiveDirectories
<1>1. KernelInv => LiveDirectories
  BY DEF KernelInv
<1> QED
  BY <1>1, KernelInvariant, PTL

(***************************************************************************)
(* Creation never meets the NULL of paging_create_new_page_directory it    *)
(* does not check for (process.c:76-83).                                   *)
(***************************************************************************)
THEOREM DirectoriesSuffice == Spec => []DirectoryPoolSuffices
<1>1. KernelInv => DirectoryPoolSuffices
  <2> SUFFICES ASSUME KernelInv, NEW request \in Requests,
                      CreateReturnCode(memory, active_process_count, request)
                        = PROCESS_CREATE_SUCCESS
               PROVE  NewPageDirectory(memory) # NULL
    BY DEF DirectoryPoolSuffices
  <2>1. request.buf \in Pages /\ request.buffer_size \in Nat
    BY BufferSizesAssumption DEF Requests
  <2>2. CASE mode # "setup"
    BY <2>1, <2>2, CreationHasResources
  <2>3. CASE mode = "setup"
    <3>1. Cardinality(UsedDirectories(memory)) <= 0
      BY <2>3 DEF KernelInv, NothingBornBeforeShell, DirectoriesOfBirths
    <3> QED
      BY <3>1, FrameSetsFinite, FrameCountAssumption, DirectoryCountAssumption,
         UnusedDirectoryExists
  <2> QED
    BY <2>2, <2>3
<1> QED
  BY <1>1, KernelInvariant, PTL

(***************************************************************************)
(* The RUNNING block is the one of the process on the CPU, and CR3 holds   *)
(* its directory (scheduler.c:32, interrupt.c:219).                        *)
(***************************************************************************)
THEOREM RunningProcessOwnsCPU == Spec => []RunningOwnsCPU
<1>1. KernelInv => RunningOwnsCPU
  BY DEF KernelInv
<1> QED
  BY <1>1, KernelInvariant, PTL

(***************************************************************************)
(* Preemption is transparent: a process is resumed with its own context,   *)
(* at the step where it was interrupted.                                   *)
(***************************************************************************)
THEOREM ContextsAreKept == Spec => []ContextIntegrity
<1>1. KernelInv => ContextIntegrity
  BY DEF KernelInv
<1> QED
  BY <1>1, KernelInvariant, PTL
=============================================================================
