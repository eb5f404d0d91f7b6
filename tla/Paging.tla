------------------------------- MODULE Paging -------------------------------
(***************************************************************************)
(* Physical frame and page directory bookkeeping (src/src/paging.c).       *)
(*                                                                         *)
(* The two static managers of paging.c and the page directories they hand  *)
(* out are one record, so that an operation of paging.c is an operator     *)
(* from record to record and a handler that calls several of them is their *)
(* composition.  A virtual address is its page directory index             *)
(* (address >> 22); only three indices exist: the page programs are linked *)
(* at, which stands for every user page but the stack's, the page of the   *)
(* stack, and the kernel's.                                                *)
(***************************************************************************)
EXTENDS Integers, FiniteSets, FiniteSetsExt

CONSTANTS PAGE_FRAME_MAX_COUNT,              \* 32 in paging.h
          PAGING_DIRECTORY_TABLE_MAX_COUNT,  \* 32 in paging.h
          UINT32                             \* 2^32, the range of uint32_t

(***************************************************************************)
(* 128 MiB of 4 MiB frames is an even number of frames.  Every process     *)
(* takes two and the kernel keeps two, so the directory pool has to be at  *)
(* least as large as the number of processes the frames suffice for.       *)
(***************************************************************************)
ASSUME FrameCountAssumption ==
  /\ PAGE_FRAME_MAX_COUNT \in Nat
  /\ PAGE_FRAME_MAX_COUNT >= 4
  /\ PAGE_FRAME_MAX_COUNT % 2 = 0

ASSUME DirectoryCountAssumption ==
  /\ PAGING_DIRECTORY_TABLE_MAX_COUNT \in Nat
  /\ 2 * PAGING_DIRECTORY_TABLE_MAX_COUNT >= PAGE_FRAME_MAX_COUNT - 2

ASSUME UINT32Assumption == UINT32 \in Nat /\ UINT32 > PAGE_FRAME_MAX_COUNT

PAGE_FRAME_SIZE == 4194304

\* Mutant: x-- without the wrap of a uint32_t.
Dec32Signed(x) == x - 1

\* x-- on a uint32_t
Dec32(x) == IF x = 0 THEN UINT32 - 1 ELSE x - 1

Frames == 0 .. PAGE_FRAME_MAX_COUNT - 1

\* Indices of page_directory_list[]; the kernel's own static directory comes
\* after them, and NULL is the null pointer.
Directories == 0 .. PAGING_DIRECTORY_TABLE_MAX_COUNT - 1
KernelDirectory == PAGING_DIRECTORY_TABLE_MAX_COUNT
AllDirectories == Directories \cup {KernelDirectory}
NULL == -1

CodePage == 0       \* programs are linked at address 0
StackPage == 767    \* 0xBFFFFFFC >> 22
KernelPage == 768   \* 0xC0000000 >> 22
UserPages == {CodePage, StackPage}
Pages == UserPages \cup {KernelPage}

NotPresent == -1    \* an entry whose present bit is clear
WildFrame == 1023   \* lower_address of frame index -1: (-1 << 22 >> 22) & 0x3FF

Entries == Frames \cup {NotPresent, WildFrame}

EmptyTable == [p \in Pages |-> NotPresent]
KernelTable == [EmptyTable EXCEPT ![KernelPage] = 0]

MemoryStates ==
  [page_frame_map        : [Frames -> BOOLEAN],
   free_page_frame_count : 0 .. PAGE_FRAME_MAX_COUNT - 1,
   page_directory_used   : [Directories -> BOOLEAN],
   page_directory_list   : [AllDirectories -> [Pages -> Entries]]]

\* The static initialisers, after the loader has removed the identity entry
\* of the kernel directory.
InitialMemory ==
  [page_frame_map        |-> [f \in Frames |-> f = 0],
   free_page_frame_count |-> PAGE_FRAME_MAX_COUNT - 1,
   page_directory_used   |-> [d \in Directories |-> FALSE],
   page_directory_list   |-> [d \in AllDirectories |->
                                IF d = KernelDirectory THEN KernelTable
                                                       ELSE EmptyTable]]

-----------------------------------------------------------------------------
FreeFrames(m) == {f \in Frames : ~m.page_frame_map[f]}
UnusedDirectories(m) == {d \in Directories : ~m.page_directory_used[d]}

\* ceil_div(): exact for the sizes below 16 MiB a float represents exactly.
ceil_div(a, b) == (a + b - 1) \div b

\* Mutant: no check.
paging_allocate_uncheck(m, amount) == TRUE

\* paging_allocate_check(): "amount" is a number of bytes.
paging_allocate_check(m, amount) ==
  m.free_page_frame_count >= ceil_div(amount, PAGE_FRAME_SIZE)

update_page_directory_entry(m, d, page, frame) ==
  [m EXCEPT !.page_directory_list[d][page] = frame]

\* Mutant: the frame is mapped and counted but not marked.
AllocateUnmarked(m, d, page) ==
  update_page_directory_entry(
    [m EXCEPT !.free_page_frame_count = Dec32(@)], d, page,
    IF FreeFrames(m) = {} THEN WildFrame ELSE Min(FreeFrames(m)))

\* Mutant: the frame is marked and mapped but not counted.
AllocateUncounted(m, d, page) ==
  LET idx == IF FreeFrames(m) # {} THEN Min(FreeFrames(m)) ELSE -1
  IN  update_page_directory_entry(
        [m EXCEPT !.page_frame_map = [f \in Frames |-> @[f] \/ f = idx]],
        d, page, IF idx = -1 THEN WildFrame ELSE idx)

\* The first free frame is marked and mapped.  With none left the code goes on
\* with index -1: it marks the byte before the map, maps the wild frame and
\* still counts one frame less.
paging_allocate_user_page_frame(m, d, page) ==
  LET free  == FreeFrames(m)
      idx   == IF free # {} THEN Min(free) ELSE -1
      taken == [m EXCEPT
                 !.page_frame_map = [f \in Frames |-> @[f] \/ f = idx],
                 !.free_page_frame_count = Dec32(@)]
  IN  update_page_directory_entry(taken, d, page,
                                  IF idx = -1 THEN WildFrame ELSE idx)

\* The pointer paging_create_new_page_directory() returns ...
NewPageDirectory(m) ==
  IF UnusedDirectories(m) # {} THEN Min(UnusedDirectories(m)) ELSE NULL

\* Mutant: the directory is not marked as used.
CreateUnmarkedDirectory(m) ==
  update_page_directory_entry(m, NewPageDirectory(m), KernelPage, 0)

\* ... and what it does to the directory it found.
paging_create_new_page_directory(m) ==
  LET d == NewPageDirectory(m)
  IN  update_page_directory_entry(
        [m EXCEPT !.page_directory_used[d] = TRUE],
        d, KernelPage, 0)

\* Clears and releases the directory; the frames its entries map stay marked.
\* A pointer that is no element of page_directory_list[] changes nothing.
paging_free_page_directory(m, d) ==
  IF d \in Directories
  THEN [m EXCEPT !.page_directory_used[d] = FALSE,
                 !.page_directory_list[d] = EmptyTable]
  ELSE m

\* paging_use_page_directory() leaves the CPU able to fetch its next
\* instruction only if the directory maps the kernel.
MapsKernel(m, d) ==
  /\ d \in AllDirectories
  /\ m.page_directory_list[d][KernelPage] = 0
=============================================================================
