------------------------- MODULE UserProgramsProofs -------------------------
(***************************************************************************)
(* The invariants of module UserPrograms: what the shell's own checks add  *)
(* to the invariant of the kernel.  UserInv is the inductive invariant.    *)
(***************************************************************************)
EXTENDS UserPrograms, KernelProofs

FlagOK ==
  /\ clock_is_running \in {0, 1}
  /\ shell_at \in ShellPlaces
  /\ mode \in Booting => clock_is_running = 0 /\ shell_at = "prompt"
  /\ shell_at = "created" => clock_is_running = 0

\* The shell is the only process of slot 0, the clock of slot 1, and no other
\* slot is ever filled.
OnlyTwo == \A i \in Slots : Live(i) => i \in {0, 1}

ShellFirst == Live(0) => process_list[0].born = Shell

ClockLives == 1 \in Slots /\ Live(1)

\* A clock is known to the flag, or will be as soon as the shell goes on.
ClockKnown ==
  /\ ClockLives => /\ process_list[1].born # Shell
                   /\ clock_is_running = 1 \/ shell_at = "created"
  /\ shell_at = "destroyed" => ~ClockLives

(***************************************************************************)
(* The counter is the index of the next free slot as long as the shell     *)
(* lives, or no process can be created any more.  An exec that failed sets *)
(* the flag without a clock; the kill it then lets through counts down for *)
(* nothing, but whatever made the exec fail makes the next one fail too.   *)
(* Between a system call and the flag the flag is out of date.             *)
(***************************************************************************)
FlagFollows ==
  \/ PROCESS_COUNT_MAX = 1
  \/ shell_at = "prompt" /\ clock_is_running = 0
  \/ shell_at = "destroyed"

ClockCounted ==
  mode \in {"start_scheduler", "user"} /\ Live(0) =>
    \/ memory.free_page_frame_count = 0
    \/ ClockLives /\ active_process_count = 2
    \/ /\ ~ClockLives
       /\ active_process_count = 1
       /\ FlagFollows

\* A process that destroyed itself runs on in a directory nobody else has.
OrphanAlone ==
  mode = "user" /\ RunningSlots(process_list) = {} =>
    \A i \in Slots : Live(i) => process_list[i].ctx.pd # cr3

ShellInv ==
  /\ FlagOK
  /\ OnlyTwo
  /\ ShellFirst
  /\ ClockKnown
  /\ ClockCounted
  /\ OrphanAlone

UserInv == KernelInv /\ ShellInv

-----------------------------------------------------------------------------
(***************************************************************************)
(* Before the shell is created no block is live.                           *)
(***************************************************************************)
LEMMA NobodyBeforeShell ==
  ASSUME KernelInv, mode \in {"setup", "create_shell"}
  PROVE  \A i \in Slots : ~Live(i)
<1>1. births = 0
  BY DEF KernelInv, NothingBornBeforeShell
<1>2. \A i \in Slots : process_list[i].born \in Serials \cup {Nobody}
  BY DEF KernelInv, TypeOK, PCBs
<1>3. \A i \in Slots : Live(i) => process_list[i].born \in Nat
  BY <1>2, SlotFacts DEF Live
<1>4. \A i \in Slots : Live(i) => process_list[i].born < 0
  BY <1>1 DEF KernelInv, PCBsInPlace
<1> QED
  BY <1>3, <1>4

(***************************************************************************)
(* Whoever reads a command is the shell, in slot 0, and the only process   *)
(* that is RUNNING (user-shell.c:838-860, 1250-1262).                      *)
(***************************************************************************)
LEMMA ShellHolds ==
  ASSUME UserInv, ShellReadsCommand
  PROVE  /\ mode = "user"
         /\ 0 \in Slots
         /\ Live(0)
         /\ RunningSlots(process_list) = {0}
         /\ process_list[0].state = RUNNING
         /\ process_list[0].ctx.pd = cr3
<1>1. PICK i \in RunningSlots(process_list) : process_list[i].born = Shell
  BY DEF ShellReadsCommand
<1>2. mode = "user" /\ i \in Slots /\ 0 \in Slots
  BY SlotFacts DEF ShellReadsCommand, ShellRuns, RunningSlots
<1>3. Live(i)
  BY <1>1, <1>2 DEF Live, Shell, Nobody
<1>4. i # 1
  <2> SUFFICES ASSUME i = 1
               PROVE  FALSE
    OBVIOUS
  <2> QED
    BY <1>1, <1>2, <1>3 DEF UserInv, ShellInv, ClockKnown, ClockLives
<1>5. i = 0
  BY <1>2, <1>3, <1>4 DEF UserInv, ShellInv, OnlyTwo
<1>6. /\ RunningSlots(process_list) = {i}
      /\ process_list[i].ctx.pd = cr3
  BY <1>1, <1>2 DEF UserInv, KernelInv, RunningOwnsCPU
<1> QED
  BY <1>1, <1>2, <1>3, <1>5, <1>6 DEF RunningSlots

(***************************************************************************)
(* The request of exec clock is refused for two reasons only: the table is *)
(* full, or no frame is left (process.c:50-69).                            *)
(***************************************************************************)
LEMMA ClockRefused ==
  ASSUME NEW m, NEW active \in Nat, m.free_page_frame_count \in Nat,
         CreateReturnCode(m, active, ClockRequest) # PROCESS_CREATE_SUCCESS
  PROVE  active >= PROCESS_COUNT_MAX \/ m.free_page_frame_count = 0
<1>1. ~(ClockRequest.buf >= KernelPage)
  BY DEF ClockRequest, CodePage, KernelPage
<1>2. FrameCountNeeded(ClockRequest) = 2
  BY DEF FrameCountNeeded, ClockRequest, ceil_div, PAGE_FRAME_SIZE
<1>3. ~(FrameCountNeeded(ClockRequest) > PROCESS_PAGE_FRAME_COUNT_MAX)
  BY <1>2 DEF PROCESS_PAGE_FRAME_COUNT_MAX
<1>4. ceil_div(2, PAGE_FRAME_SIZE) = 1
  BY DEF ceil_div, PAGE_FRAME_SIZE
<1>5. m.free_page_frame_count >= 1 => paging_allocate_check(m, 2)
  BY <1>4 DEF paging_allocate_check
<1> QED
  BY <1>1, <1>2, <1>3, <1>5, ProcessCountAssumption DEF CreateReturnCode

\* ClockRequest is a request process creation knows how to read.
LEMMA ClockRequestTyped ==
  ClockRequest.buf \in Pages /\ ClockRequest.buffer_size \in Nat
BY DEF ClockRequest, Pages, UserPages

-----------------------------------------------------------------------------
(* Initial state and steps *)

LEMMA UserInitInv == UserInit => UserInv
<1> SUFFICES ASSUME UserInit
             PROVE  UserInv
  OBVIOUS
<1>1. KernelInv
  BY InitInv DEF UserInit
<1>2. mode = "setup" /\ clock_is_running = 0 /\ shell_at = "prompt"
  BY DEF UserInit, Init
<1>3. \A i \in Slots : ~Live(i)
  BY <1>1, <1>2, NobodyBeforeShell
<1>4. FlagOK /\ ClockCounted /\ OrphanAlone
  BY <1>2 DEF FlagOK, ShellPlaces, ClockCounted, OrphanAlone
<1>5. OnlyTwo /\ ShellFirst /\ ClockKnown
  BY <1>2, <1>3, SlotFacts DEF OnlyTwo, ShellFirst, ClockKnown, ClockLives
<1> QED
  BY <1>1, <1>4, <1>5 DEF UserInv, ShellInv

(***************************************************************************)
(* A step that leaves the process table, the counter and CR3 alone, and    *)
(* gives no frame back, keeps the shell's invariant.                       *)
(***************************************************************************)
LEMMA QuietKeepsShellInv ==
  ASSUME ShellInv,
         mode \in {"setup", "user", "fault"},
         mode' \in {mode, "create_shell", "fault"},
         mode = "user" => mode' \in {mode, "fault"},
         mode' = "create_shell" => mode = "setup",
         UNCHANGED <<cr3, process_list, active_process_count, shellVars>>,
         memory' = memory \/ mode = "setup"
  PROVE  ShellInv'
<1>1. \A i \in Slots : Live(i)' <=> Live(i)
  BY DEF Live
<1>2. 0 \in Slots
  BY SlotFacts
<1>3. FlagOK'
  BY DEF ShellInv, FlagOK, Booting, shellVars
<1>4. OnlyTwo' /\ ShellFirst' /\ ClockKnown'
  BY <1>1, <1>2 DEF ShellInv, OnlyTwo, ShellFirst, ClockKnown, ClockLives,
                    shellVars
<1>5. ClockCounted'
  BY <1>1, <1>2 DEF ShellInv, ClockCounted, FlagFollows, ClockLives, shellVars
<1>6. OrphanAlone'
  BY <1>1 DEF ShellInv, OrphanAlone
<1> QED
  BY <1>3, <1>4, <1>5, <1>6 DEF ShellInv

(***************************************************************************)
(* The shell is created in slot 0, with nobody beside it.                  *)
(***************************************************************************)
LEMMA CreateShellKeepsShellInv ==
  ASSUME KernelInv, ShellInv, SetupCreateShell, UNCHANGED shellVars
  PROVE  ShellInv'
<1> USE DEF SetupCreateShell, CreateAccepted
<1>1. /\ \A i \in Slots : ~Live(i)
      /\ births = 0
      /\ active_process_count = 0
      /\ 0 \in Slots
  BY NobodyBeforeShell, SlotFacts DEF KernelInv, NothingBornBeforeShell
<1>2. process_list \in [Slots -> PCBs]
  BY DEF KernelInv, TypeOK
<1>3. /\ process_list'[0].born = 0
      /\ \A i \in Slots : i # 0 => process_list'[i] = process_list[i]
  BY <1>1, <1>2 DEF CreatePCB
<1>4. \A i \in Slots : Live(i)' <=> i = 0
  BY <1>1, <1>3 DEF Live, Nobody
<1>5. mode' = "start_scheduler" /\ active_process_count' = 1
  BY <1>1
<1>6. /\ FlagOK'
      /\ clock_is_running' = 0
      /\ shell_at' = "prompt"
  BY <1>5 DEF ShellInv, FlagOK, Booting, shellVars
<1>7. OnlyTwo' /\ ShellFirst' /\ ~ClockLives'
  BY <1>3, <1>4 DEF OnlyTwo, ShellFirst, ClockLives, Shell
<1>8. ClockKnown'
  BY <1>7 DEF ClockKnown
<1>9. ClockCounted' /\ OrphanAlone'
  BY <1>5, <1>6, <1>7 DEF ClockCounted, FlagFollows, OrphanAlone
<1> QED
  BY <1>6, <1>7, <1>8, <1>9 DEF ShellInv

(***************************************************************************)
(* The switch moves no process to another block, and afterwards a block is *)
(* RUNNING.                                                                *)
(***************************************************************************)
LEMMA SwitchKeepsShellInv ==
  ASSUME KernelInv, ShellInv, mode \in {"start_scheduler", "user"},
         Switch(SavedList), UNCHANGED shellVars
  PROVE  ShellInv'
<1>1. PICK next \in Slots :
        /\ mode' = IF MapsKernel(memory, SavedList[next].ctx.pd)
                   THEN "user" ELSE "fault"
        /\ UNCHANGED <<memory, active_process_count, births, progress>>
        /\ \A i \in Slots : process_list'[i].born = process_list[i].born
        /\ RunningSlots(process_list') = {next}
  BY SwitchEffect
<1>2. /\ \A i \in Slots : Live(i)' <=> Live(i)
      /\ mode' \in {"user", "fault"}
      /\ 0 \in Slots
  BY <1>1, SlotFacts DEF Live
<1>3. FlagOK'
  BY <1>2 DEF ShellInv, FlagOK, Booting, shellVars
<1>4. OnlyTwo' /\ ShellFirst' /\ ClockKnown'
  BY <1>1, <1>2 DEF ShellInv, OnlyTwo, ShellFirst, ClockKnown, ClockLives,
                    shellVars
<1>5. ClockCounted'
  BY <1>1, <1>2 DEF ShellInv, ClockCounted, FlagFollows, ClockLives, shellVars
<1>6. OrphanAlone'
  BY <1>1 DEF OrphanAlone
<1> QED
  BY <1>3, <1>4, <1>5, <1>6 DEF ShellInv

(***************************************************************************)
(* The system call of exec clock.  If it is refused, then it will be       *)
(* refused again; if it is accepted, slot 1 was free                       *)
(* (user-shell.c:1256-1259).                                               *)
(***************************************************************************)
LEMMA ExecKeepsShellInv ==
  ASSUME UserInv, exec
  PROVE  ShellInv'
<1>1. /\ ShellReadsCommand
      /\ shell_at = "prompt" /\ shell_at' = "created"
      /\ clock_is_running = 0 /\ clock_is_running' = 0
      /\ SyscallCreateProcess(ClockRequest)
  BY DEF exec, ShellReadsCommand
<1>2. /\ mode = "user" /\ 0 \in Slots /\ Live(0)
      /\ RunningSlots(process_list) = {0}
      /\ process_list[0].state = RUNNING
  BY <1>1, ShellHolds
<1>3. ~ClockLives
  BY <1>1 DEF UserInv, ShellInv, ClockKnown
<1>4. memory.free_page_frame_count = 0 \/ active_process_count = 1
  BY <1>1, <1>2, <1>3 DEF UserInv, ShellInv, ClockCounted
<1>5. /\ memory.free_page_frame_count \in Nat
      /\ active_process_count \in Nat
      /\ process_list \in [Slots -> PCBs]
  BY UINT32Assumption DEF UserInv, KernelInv, TypeOK, MemoryStates
<1>6. mode' \in {"user", "fault"} => FlagOK'
  BY <1>1 DEF FlagOK, Booting, ShellPlaces
<1>7. CASE CreateRefused(ClockRequest) /\ UNCHANGED mode
  <2>1. UNCHANGED <<memory, cr3, process_list, active_process_count>>
    BY <1>7 DEF CreateRefused
  <2>2. active_process_count >= PROCESS_COUNT_MAX \/ memory.free_page_frame_count = 0
    BY <1>5, <1>7, ClockRefused DEF CreateRefused
  <2>3. memory.free_page_frame_count = 0 \/ (active_process_count = 1 /\ PROCESS_COUNT_MAX = 1)
    BY <1>4, <2>2, ProcessCountAssumption
  <2>4. \A i \in Slots : Live(i)' <=> Live(i)
    BY <2>1 DEF Live
  <2>5. ~ClockLives'
    BY <1>3, <2>4 DEF ClockLives
  <2>6. OnlyTwo' /\ ShellFirst' /\ ClockKnown'
    BY <1>1, <1>2, <2>1, <2>4, <2>5
       DEF UserInv, ShellInv, OnlyTwo, ShellFirst, ClockKnown
  <2>7. ClockCounted' /\ OrphanAlone'
    BY <1>2, <1>7, <2>1, <2>3, <2>5 DEF ClockCounted, FlagFollows, OrphanAlone
  <2> QED
    BY <1>2, <1>6, <1>7, <2>6, <2>7 DEF ShellInv
<1>8. CASE CreateAccepted(ClockRequest) /\ UNCHANGED mode
  <2>1. /\ active_process_count \in Slots
        /\ memory.free_page_frame_count >= 1
    BY <1>5, <1>8, ClockRequestTyped, PassedChecks DEF CreateAccepted
  <2>2. active_process_count = 1
    BY <1>4, <2>1
  <2>3. /\ process_list' = [process_list EXCEPT ![1] =
                              CreatePCB(memory, 1, births, ClockRequest)]
        /\ active_process_count' = 2
    BY <1>8, <2>2 DEF CreateAccepted
  <2>4. /\ process_list'[1].born = births
        /\ \A i \in Slots : i # 1 => process_list'[i] = process_list[i]
    BY <1>5, <2>1, <2>2, <2>3 DEF CreatePCB
  <2>5. births \in Nat /\ births > 0
    <3>1. /\ process_list[0].born = 0
          /\ process_list[0].born < births
      BY <1>2 DEF UserInv, KernelInv, PCBsInPlace, ShellInv, ShellFirst, Shell
    <3>2. births \in Nat
      BY DEF UserInv, KernelInv, TypeOK
    <3> QED
      BY <3>1, <3>2
  <2>6. \A i \in Slots : Live(i)' <=> (Live(i) \/ i = 1)
    BY <2>4, <2>5 DEF Live, Nobody
  <2>7. ClockLives'
    BY <2>1, <2>2, <2>6 DEF ClockLives
  <2>8. OnlyTwo' /\ ShellFirst'
    BY <1>2, <2>4, <2>6 DEF UserInv, ShellInv, OnlyTwo, ShellFirst
  <2>9. ClockKnown'
    BY <1>1, <2>4, <2>5 DEF ClockKnown, Shell
  <2>10. ClockCounted'
    BY <2>3, <2>7 DEF ClockCounted
  <2>11. OrphanAlone'
    <3>1. 0 \in RunningSlots(process_list')
      BY <1>2, <2>4 DEF RunningSlots
    <3> QED
      BY <3>1 DEF OrphanAlone
  <2> QED
    BY <1>2, <1>6, <1>8, <2>8, <2>9, <2>10, <2>11 DEF ShellInv
<1>9. CASE CreateFaulted(ClockRequest)
  <2>1. UNCHANGED <<cr3, process_list>> /\ mode' = "fault"
    BY <1>9 DEF CreateFaulted
  <2>2. \A i \in Slots : Live(i)' <=> Live(i)
    BY <2>1 DEF Live
  <2>3. OnlyTwo' /\ ShellFirst' /\ ClockKnown'
    BY <1>1, <1>2, <1>3, <2>1, <2>2
       DEF UserInv, ShellInv, OnlyTwo, ShellFirst, ClockKnown, ClockLives
  <2>4. ClockCounted' /\ OrphanAlone'
    BY <2>1 DEF ClockCounted, OrphanAlone
  <2> QED
    BY <1>6, <2>1, <2>3, <2>4 DEF ShellInv
<1> QED
  BY <1>1, <1>7, <1>8, <1>9 DEF SyscallCreateProcess

(***************************************************************************)
(* The flag catches up with the system call (user-shell.c:852-853, 1260).  *)
(* What was created is a clock, or nothing can be created any more.        *)
(***************************************************************************)
LEMMA FlagKeepsShellInv ==
  ASSUME UserInv, exec_sets_flag \/ kill_clears_flag
  PROVE  ShellInv'
<1>1. /\ mode = "user"
      /\ shell_at' = "prompt"
      /\ UNCHANGED vars
      /\ \/ shell_at = "created" /\ clock_is_running' = 1
         \/ shell_at = "destroyed" /\ clock_is_running' = 0
  BY DEF exec_sets_flag, kill_clears_flag, ShellRuns
<1>2. UNCHANGED <<memory, cr3, process_list, active_process_count, mode, cpu>>
  BY <1>1 DEF vars
<1>3. \A i \in Slots : Live(i)' <=> Live(i)
  BY <1>2 DEF Live
<1>4. 0 \in Slots
  BY SlotFacts
<1>5. FlagOK'
  BY <1>1, <1>2 DEF FlagOK, ShellPlaces, Booting
<1>6. OnlyTwo' /\ ShellFirst'
  BY <1>2, <1>3, <1>4 DEF UserInv, ShellInv, OnlyTwo, ShellFirst
<1>7. ClockKnown'
  BY <1>1, <1>2, <1>3 DEF UserInv, ShellInv, ClockKnown, ClockLives
<1>8. ClockCounted'
  BY <1>1, <1>2, <1>3, <1>4
     DEF UserInv, ShellInv, ClockCounted, FlagFollows, ClockLives
<1>9. OrphanAlone'
  BY <1>2, <1>3 DEF UserInv, ShellInv, OrphanAlone
<1> QED
  BY <1>5, <1>6, <1>7, <1>8, <1>9 DEF ShellInv

(***************************************************************************)
(* The system call of kill.  Slot 0 is emptied under the shell, which then *)
(* runs on alone in its directory; or slot 1 is (user-shell.c:832-850).    *)
(***************************************************************************)
LEMMA KillKeepsShellInv ==
  ASSUME UserInv, NEW pid \in Slots, kill(pid)
  PROVE  ShellInv'
<1>1. /\ ShellReadsCommand
      /\ pid = 0 \/ (pid = 1 /\ clock_is_running = 1)
      /\ SyscallProcessDestroy(pid)
      /\ shell_at = "prompt"
      /\ shell_at' = IF pid = 1 THEN "destroyed" ELSE "prompt"
      /\ clock_is_running' = clock_is_running
  BY DEF kill, ShellReadsCommand
<1>2. /\ mode = "user" /\ 0 \in Slots /\ Live(0)
      /\ RunningSlots(process_list) = {0}
      /\ process_list[0].state = RUNNING
      /\ process_list[0].ctx.pd = cr3
  BY <1>1, ShellHolds
<1>3. pid \in Nat /\ pid < PROCESS_COUNT_MAX
  BY SlotFacts
<1>4. /\ memory' = DestroyMemory(memory, process_list, pid)
      /\ process_list' = [process_list EXCEPT ![pid] = EmptyPCB]
      /\ active_process_count' = Dec32(active_process_count)
      /\ UNCHANGED <<cr3, mode>>
  BY <1>1, <1>3, ProcessCountAssumption DEF SyscallProcessDestroy, DestroyPCBs
<1>5. process_list \in [Slots -> PCBs]
  BY DEF UserInv, KernelInv, TypeOK
<1>6. /\ process_list'[pid] = EmptyPCB
      /\ \A i \in Slots : i # pid => process_list'[i] = process_list[i]
  BY <1>4, <1>5
<1>7. \A i \in Slots : Live(i)' <=> (Live(i) /\ i # pid)
  BY <1>6 DEF Live, EmptyPCB
<1>8. memory'.free_page_frame_count = memory.free_page_frame_count
  BY <1>4, FreeDirectoryInv DEF DestroyMemory, UserInv, KernelInv
<1>9. FlagOK' /\ OnlyTwo' /\ ShellFirst'
  BY <1>1, <1>2, <1>4, <1>6, <1>7
     DEF UserInv, ShellInv, FlagOK, ShellPlaces, Booting, OnlyTwo, ShellFirst
<1>10. CASE pid = 0
  <2>1. ClockKnown'
    BY <1>1, <1>6, <1>7, <1>10 DEF UserInv, ShellInv, ClockKnown, ClockLives
  <2>2. ClockCounted'
    BY <1>2, <1>7, <1>10 DEF ClockCounted
  <2>3. OrphanAlone'
    <3>1. \A i \in Slots : Live(i) /\ process_list[i].ctx.pd = cr3 => i = 0
      BY <1>2 DEF UserInv, KernelInv, LiveDirectories
    <3> QED
      BY <1>4, <1>6, <1>7, <1>10, <3>1 DEF OrphanAlone
  <2> QED
    BY <1>9, <2>1, <2>2, <2>3 DEF ShellInv
<1>11. CASE pid = 1
  <2>1. ~ClockLives'
    BY <1>7, <1>11 DEF ClockLives
  <2>2. ClockKnown'
    BY <2>1 DEF ClockKnown
  <2>3. \/ memory.free_page_frame_count = 0
        \/ ClockLives /\ active_process_count = 2
    BY <1>1, <1>2, <1>3, <1>11, ProcessCountAssumption
       DEF UserInv, ShellInv, ClockCounted, FlagFollows
  <2>4. memory'.free_page_frame_count = 0 \/ active_process_count' = 1
    BY <1>4, <1>8, <2>3 DEF Dec32
  <2>5. ClockCounted'
    BY <1>1, <1>11, <2>1, <2>4 DEF ClockCounted, FlagFollows
  <2>6. OrphanAlone'
    <3>1. 0 \in RunningSlots(process_list')
      BY <1>2, <1>6, <1>11 DEF RunningSlots
    <3> QED
      BY <3>1 DEF OrphanAlone
  <2> QED
    BY <1>9, <2>2, <2>5, <2>6 DEF ShellInv
<1> QED
  BY <1>1, <1>10, <1>11

LEMMA ResetKeepsUserInv == ResetShell => UserInv'
<1>1. ResetShell => UserInit'
  BY DEF ResetShell, Reset, UserInit, Init
<1>2. UserInit' => UserInv'
  BY UserInitInv, PTL
<1> QED
  BY <1>1, <1>2

(***************************************************************************)
(* Every step of the two programs and of the kernel under them.            *)
(***************************************************************************)
LEMMA UserNextInv == UserInv /\ [UserNext]_userVars => UserInv'
<1> SUFFICES ASSUME UserInv, [UserNext]_userVars
             PROVE  UserInv'
  OBVIOUS
<1>1. KernelInv /\ ShellInv
  BY DEF UserInv
<1>2. CASE SetupAllocate /\ UNCHANGED shellVars
  <2>1. KernelInv'
    BY <1>1, <1>2, SetupAllocateInv
  <2>2. ShellInv'
    BY <1>1, <1>2, QuietKeepsShellInv DEF SetupAllocate
  <2> QED
    BY <2>1, <2>2 DEF UserInv
<1>3. CASE SetupCreateShell /\ UNCHANGED shellVars
  <2>1. KernelInv'
    BY <1>1, <1>3, NextInv DEF Next, Boot
  <2>2. ShellInv'
    BY <1>1, <1>3, CreateShellKeepsShellInv
  <2> QED
    BY <2>1, <2>2 DEF UserInv
<1>4. CASE SetupSwitch /\ UNCHANGED shellVars
  <2>1. KernelInv'
    BY <1>1, <1>4, SetupSwitchInv
  <2>2. RunningSlots(process_list) = {}
    BY <1>1, <1>4 DEF KernelInv, RunningIsLive, SetupSwitch, Booting
  <2>3. SavedList = process_list
    BY <2>2 DEF SavedList, SaveContext, process_get_current_running_pcb_pointer
  <2>4. ShellInv'
    BY <1>1, <1>4, <2>3, SwitchKeepsShellInv DEF SetupSwitch
  <2> QED
    BY <2>1, <2>4 DEF UserInv
<1>5. CASE UserStep /\ UNCHANGED shellVars
  <2>1. KernelInv'
    BY <1>1, <1>5, UserStepInv
  <2>2. ShellInv'
    BY <1>1, <1>5, QuietKeepsShellInv DEF UserStep
  <2> QED
    BY <2>1, <2>2 DEF UserInv
<1>6. CASE TimerInterrupt /\ UNCHANGED shellVars
  <2>1. KernelInv'
    BY <1>1, <1>6, TimerInterruptInv
  <2>2. ShellInv'
    BY <1>1, <1>6, SwitchKeepsShellInv DEF TimerInterrupt, SavedList
  <2> QED
    BY <2>1, <2>2 DEF UserInv
<1>7. CASE TranslationMiss /\ UNCHANGED shellVars
  <2>1. KernelInv'
    BY <1>1, <1>7, FaultInv DEF TranslationMiss
  <2>2. ShellInv'
    BY <1>1, <1>7, QuietKeepsShellInv DEF TranslationMiss
  <2> QED
    BY <2>1, <2>2 DEF UserInv
<1>8. CASE exec
  <2>1. KernelInv'
    BY <1>1, <1>8, CreateSyscallInv, ClockRequestTyped DEF exec
  <2>2. ShellInv'
    BY <1>8, ExecKeepsShellInv
  <2> QED
    BY <2>1, <2>2 DEF UserInv
<1>9. ASSUME NEW pid \in Slots, kill(pid)
      PROVE  UserInv'
  <2>1. pid \in 0 .. PROCESS_COUNT_MAX
    BY ProcessCountAssumption DEF Slots
  <2>2. KernelInv'
    BY <1>1, <1>9, <2>1, DestroyInv DEF kill
  <2>3. ShellInv'
    BY <1>9, KillKeepsShellInv
  <2> QED
    BY <2>2, <2>3 DEF UserInv
<1>10. CASE ResetShell
  BY <1>10, ResetKeepsUserInv
<1>11. CASE exec_sets_flag \/ kill_clears_flag
  <2>1. UNCHANGED vars
    BY <1>11 DEF exec_sets_flag, kill_clears_flag
  <2>2. KernelInv'
    BY <1>1, <2>1, StutterInv
  <2>3. ShellInv'
    BY <1>11, FlagKeepsShellInv
  <2> QED
    BY <2>2, <2>3 DEF UserInv
<1>12. CASE UNCHANGED userVars
  <2>1. UNCHANGED vars /\ UNCHANGED shellVars
    BY <1>12 DEF userVars
  <2>2. KernelInv'
    BY <1>1, <2>1, StutterInv
  <2>3. ShellInv'
    BY <1>1, <2>1 DEF vars, shellVars, ShellInv, FlagOK, OnlyTwo, ShellFirst,
                      ClockKnown, ClockLives, ClockCounted, FlagFollows,
                      OrphanAlone, Live
  <2> QED
    BY <2>2, <2>3 DEF UserInv
<1> QED
  BY <1>2, <1>3, <1>4, <1>5, <1>6, <1>7, <1>8, <1>9, <1>10, <1>11, <1>12
     DEF UserNext, Boot

-----------------------------------------------------------------------------
(* Theorems *)

(***************************************************************************)
(* The inductive invariant: the kernel's own, which the two programs keep, *)
(* and the shell's.                                                        *)
(***************************************************************************)
THEOREM UserInvariant == UserSpec => []UserInv
BY UserInitInv, UserNextInv, PTL DEF UserSpec

(***************************************************************************)
(* When the shell takes a line and believes that no clock runs, none does, *)
(* whatever exec and kill have failed before, and wherever between their   *)
(* system calls and their flag the timer came (user-shell.c:845-853,       *)
(* 1256-1260).                                                             *)
(***************************************************************************)
THEOREM ClockStaysKillable == UserSpec => []NoUnkillableClock
<1>1. UserInv => NoUnkillableClock
  <2> SUFFICES ASSUME UserInv, mode = "user", shell_at = "prompt",
                      clock_is_running = 0, NEW i \in Slots, Live(i)
               PROVE  process_list[i].born = Shell
    BY DEF NoUnkillableClock
  <2>1. i # 1
    BY DEF UserInv, ShellInv, ClockKnown, ClockLives
  <2> QED
    BY <2>1 DEF UserInv, ShellInv, OnlyTwo, ShellFirst
<1> QED
  BY <1>1, UserInvariant, PTL

(***************************************************************************)
(* No process executes in the directory of another live one, the shell     *)
(* that has destroyed itself included (process.c:164-165,                  *)
(* interrupt.c:219).                                                       *)
(***************************************************************************)
THEOREM AddressSpacesAreOwn == UserSpec => []OwnAddressSpace
<1>1. UserInv => OwnAddressSpace
  <2> SUFFICES ASSUME UserInv, mode = "user", NEW i \in Slots,
                      Live(i), process_list[i].ctx.pd = cr3
               PROVE  process_list[i].born = cpu.owner
    BY DEF OwnAddressSpace
  <2>1. PICK r \in RunningSlots(process_list) : TRUE
    BY DEF UserInv, ShellInv, OrphanAlone
  <2>2. /\ process_list[r].born = cpu.owner
        /\ process_list[r].ctx.pd = cr3
        /\ Live(r)
        /\ r \in Slots
    BY DEF UserInv, KernelInv, RunningOwnsCPU, RunningIsLive, RunningSlots
  <2>3. i = r
    BY <2>2 DEF UserInv, KernelInv, LiveDirectories
  <2> QED
    BY <2>2, <2>3
<1> QED
  BY <1>1, UserInvariant, PTL

(***************************************************************************)
(* Creation never fills the block of a live process, although it only      *)
(* counts and never looks (process.c:72).                                  *)
(***************************************************************************)
THEOREM CreationFindsFreeSlot == UserSpec => NoLiveOverwrite
<1>1. UserInv /\ [UserNext]_userVars =>
        [\A i \in Slots :
           Live(i) /\ Live(i)' => process_list[i].born = process_list[i].born']_userVars
  <2> SUFFICES ASSUME UserInv, UserNext, NEW i \in Slots, Live(i), Live(i)'
               PROVE  process_list[i].born = process_list[i].born'
    BY DEF Live
  <2>1. KernelInv /\ ShellInv /\ process_list \in [Slots -> PCBs]
    BY DEF UserInv, KernelInv, TypeOK
  <2>2. CASE \/ SetupAllocate \/ UserStep \/ TranslationMiss
             \/ exec_sets_flag \/ kill_clears_flag
    BY <2>2 DEF SetupAllocate, UserStep, TranslationMiss, exec_sets_flag,
                kill_clears_flag, vars
  <2>3. CASE SetupCreateShell
    BY <2>1, <2>3, NobodyBeforeShell DEF SetupCreateShell
  <2>4. CASE TimerInterrupt
    <3>1. Switch(SavedList) /\ mode \in {"start_scheduler", "user"}
      BY <2>4 DEF TimerInterrupt, SavedList
    <3> QED
      BY <2>1, <3>1, SwitchEffect
  <2>5. CASE SetupSwitch
    <3>1. RunningSlots(process_list) = {}
      BY <2>1, <2>5 DEF KernelInv, RunningIsLive, SetupSwitch, Booting
    <3>2. SavedList = process_list
      BY <3>1 DEF SavedList, SaveContext, process_get_current_running_pcb_pointer
    <3>3. Switch(SavedList) /\ mode \in {"start_scheduler", "user"}
      BY <2>5, <3>2 DEF SetupSwitch
    <3> QED
      BY <2>1, <3>3, SwitchEffect
  <2>6. CASE exec
    <3>1. CASE CreateAccepted(ClockRequest)
      <4>1. /\ memory.free_page_frame_count \in Nat
            /\ active_process_count \in Nat
        BY <2>1, UINT32Assumption DEF KernelInv, TypeOK, MemoryStates
      <4>2. /\ active_process_count \in Slots
            /\ memory.free_page_frame_count >= 1
        BY <3>1, <4>1, ClockRequestTyped, PassedChecks DEF CreateAccepted
      <4>3. /\ mode = "user" /\ Live(0)
            /\ clock_is_running = 0 /\ shell_at = "prompt"
        BY <2>6, ShellHolds DEF exec, ShellReadsCommand
      <4>4. ~ClockLives
        BY <2>1, <4>3 DEF ShellInv, ClockKnown
      <4>5. active_process_count = 1
        BY <2>1, <4>1, <4>2, <4>3, <4>4 DEF ShellInv, ClockCounted
      <4>6. i # 1
        BY <4>4 DEF ClockLives
      <4> QED
        BY <2>1, <3>1, <4>5, <4>6 DEF CreateAccepted
    <3>2. CASE ~CreateAccepted(ClockRequest)
      <4>1. UNCHANGED process_list
        BY <2>6, <3>2 DEF exec, SyscallCreateProcess, CreateRefused, CreateFaulted
      <4> QED
        BY <4>1
    <3> QED
      BY <3>1, <3>2
  <2>7. ASSUME NEW pid \in Slots, kill(pid)
        PROVE  process_list[i].born = process_list[i].born'
    <3>1. \/ UNCHANGED process_list
          \/ process_list' = [process_list EXCEPT ![pid] = EmptyPCB]
      BY <2>7 DEF kill, SyscallProcessDestroy, DestroyPCBs
    <3>2. i # pid \/ process_list'[i] = process_list[i]
      BY <2>1, <3>1 DEF Live, EmptyPCB
    <3> QED
      BY <2>1, <3>1, <3>2
  <2>8. CASE ResetShell
    BY <2>8 DEF ResetShell, Reset, Live, EmptyPCB
  <2> QED
    BY <2>2, <2>3, <2>4, <2>5, <2>6, <2>7, <2>8 DEF UserNext, Boot
<1> QED
  BY <1>1, UserInvariant, PTL DEF NoLiveOverwrite, UserSpec

=============================================================================
