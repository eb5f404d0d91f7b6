------------------------------- MODULE Kernel -------------------------------
(***************************************************************************)
(* The kernel as its user processes see it: boot (kernel.c), the timer     *)
(* interrupt and the two process system calls (interrupt.c), over paging,  *)
(* process table and scheduler.                                            *)
(*                                                                         *)
(* All IDT entries are interrupt gates, so a handler runs to its end       *)
(* without being interrupted and is one action.  A process is interrupted  *)
(* between any two of its instructions.  Here any process may make any     *)
(* process system call; module UserPrograms restricts the calls to those   *)
(* of the programs the repository ships.                                   *)
(***************************************************************************)
EXTENDS Scheduler

CONSTANTS BufferSizes,   \* values of request.buffer_size
          MaxStep        \* bound on the user steps of one process

ASSUME BufferSizesAssumption == BufferSizes \subseteq Nat
ASSUME MaxStepAssumption == MaxStep \in Nat

VARIABLES
  memory,                \* page manager, directory manager, page directories
  cr3,                   \* the loaded page directory
  process_list,          \* _process_list[]
  active_process_count,  \* process_manager_state.active_process_count
  mode,                  \* where the CPU is: a phase of boot, user code, fault
  cpu,                   \* the user context on the CPU: owner and step
  births,                \* history: processes created since power-on
  progress               \* history: steps each process has really made

vars == <<memory, cr3, process_list, active_process_count, mode, cpu, births,
          progress>>

Modes == {"setup", "create_shell", "start_scheduler", "user", "fault"}

Idle == [owner |-> Nobody, step |-> 0]

\* struct FAT32DriverRequest, as far as process creation reads it
Requests == [buf : Pages, buffer_size : BufferSizes]

ShellRequest == [buf |-> CodePage, buffer_size |-> 1048576]

-----------------------------------------------------------------------------
(* Power-on, and what a triple fault leads back to. *)

Init ==
  /\ memory = InitialMemory
  /\ cr3 = KernelDirectory
  /\ process_list = [i \in Slots |-> EmptyPCB]
  /\ active_process_count = 0
  /\ mode = "setup"
  /\ cpu = Idle
  /\ births = 0
  /\ progress = [s \in Serials |-> 0]

Reset ==
  /\ mode = "fault"
  /\ memory' = InitialMemory
  /\ cr3' = KernelDirectory
  /\ process_list' = [i \in Slots |-> EmptyPCB]
  /\ active_process_count' = 0
  /\ mode' = "setup"
  /\ cpu' = Idle
  /\ births' = 0
  /\ progress' = [s \in Serials |-> 0]

-----------------------------------------------------------------------------
(* Process creation, used at boot and by system call 15. *)

\* One of the checks fails: nothing changes.
CreateRefused(request) ==
  /\ CreateReturnCode(memory, active_process_count, request) # PROCESS_CREATE_SUCCESS
  /\ UNCHANGED <<memory, cr3, process_list, active_process_count, cpu, births,
                 progress>>

\* CR3 is loaded with the new directory to read the executable, then with the
\* old one again.  Either load faults if the directory does not map the kernel:
\* there was no free directory, or the caller's own has been released.
CreateFaults(request) ==
  \/ NewPageDirectory(memory) = NULL
  \/ ~MapsKernel(CreateMemory(memory, request), cr3)

\* The outcome of read(request) changes nothing: the code does not look at it.
CreateAccepted(request) ==
  /\ CreateReturnCode(memory, active_process_count, request) = PROCESS_CREATE_SUCCESS
  /\ ~CreateFaults(request)
  /\ memory' = CreateMemory(memory, request)
  /\ process_list' = [process_list EXCEPT ![active_process_count] =
                        CreatePCB(memory, active_process_count, births,
                                  request)]
  /\ active_process_count' = active_process_count + 1
  /\ births' = births + 1
  /\ UNCHANGED <<cr3, cpu, progress>>

CreateFaulted(request) ==
  /\ CreateReturnCode(memory, active_process_count, request) = PROCESS_CREATE_SUCCESS
  /\ CreateFaults(request)
  /\ mode' = "fault"
  /\ UNCHANGED <<memory, cr3, process_list, active_process_count, cpu, births,
                 progress>>

-----------------------------------------------------------------------------
(* The scheduler's switch, used at boot and by the timer interrupt. *)

Switch(pl) ==
  \E cur, next \in Slots :
    /\ cur = SwitchFrom(pl)
    /\ next = SwitchTo(pl, cur)
    /\ process_list' = SwitchStates(pl, cur, next)
    /\ cr3' = pl[next].ctx.pd
    /\ cpu' = [owner |-> pl[next].ctx.owner, step |-> pl[next].ctx.step]
    /\ mode' = IF MapsKernel(memory, pl[next].ctx.pd) THEN "user" ELSE "fault"
    /\ UNCHANGED <<memory, active_process_count, births, progress>>

-----------------------------------------------------------------------------
(* kernel_setup(): one user frame for the kernel's directory, the shell, the *)
(* timer, the switch.  Nothing else runs yet, so its parts are actions.      *)

SetupAllocate ==
  /\ mode = "setup"
  /\ memory' = paging_allocate_user_page_frame(memory, KernelDirectory, CodePage)
  /\ mode' = "create_shell"
  /\ UNCHANGED <<cr3, process_list, active_process_count, cpu, births, progress>>

SetupCreateShell ==
  /\ mode = "create_shell"
  /\ CreateAccepted(ShellRequest)
  /\ mode' = "start_scheduler"

SetupSwitch ==
  /\ mode = "start_scheduler"
  /\ Switch(process_list)

-----------------------------------------------------------------------------
(* Timer interrupt: main_interrupt_handler(), case PIC1_OFFSET + IRQ_TIMER *)

InterruptedContext == [owner |-> cpu.owner, step |-> cpu.step, pd |-> cr3]

TimerInterrupt ==
  /\ mode = "user"
  /\ Switch(SaveContext(process_list, InterruptedContext))

-----------------------------------------------------------------------------
(* System calls of the process on the CPU *)

\* syscall 15: the return code is dropped by the dispatcher
SyscallCreateProcess(request) ==
  /\ mode = "user"
  /\ \/ CreateRefused(request) /\ UNCHANGED mode
     \/ CreateAccepted(request) /\ UNCHANGED mode
     \/ CreateFaulted(request)

\* syscall 9.  list_of_process[] is never set, so a pid in range always passes.
SyscallProcessDestroy(pid) ==
  /\ mode = "user"
  /\ IF pid >= PROCESS_COUNT_MAX
     THEN UNCHANGED <<memory, process_list, active_process_count>>
     ELSE /\ memory' = DestroyMemory(memory, process_list, pid)
          /\ process_list' = DestroyPCBs(process_list, pid)
          /\ active_process_count' = Dec32(active_process_count)
  /\ UNCHANGED <<cr3, mode, cpu, births, progress>>

\* The process on the CPU executes on.
UserStep ==
  /\ mode = "user"
  /\ cpu.owner # Nobody
  /\ cpu.step < MaxStep
  /\ cpu' = [cpu EXCEPT !.step = @ + 1]
  /\ progress' = [progress EXCEPT ![cpu.owner] = @ + 1]
  /\ UNCHANGED <<memory, cr3, process_list, active_process_count, mode, births>>

\* A process whose directory has been released lives on cached translations;
\* the first miss finds no kernel to handle it and the CPU shuts down.
TranslationMiss ==
  /\ mode = "user"
  /\ ~MapsKernel(memory, cr3)
  /\ mode' = "fault"
  /\ UNCHANGED <<memory, cr3, process_list, active_process_count, cpu, births,
                 progress>>

-----------------------------------------------------------------------------
Boot == SetupAllocate \/ SetupCreateShell \/ SetupSwitch

ProcessSyscall ==
  \/ \E request \in Requests : SyscallCreateProcess(request)
  \/ \E pid \in 0 .. PROCESS_COUNT_MAX : SyscallProcessDestroy(pid)

Hardware == TimerInterrupt \/ TranslationMiss \/ Reset

Next == Boot \/ ProcessSyscall \/ UserStep \/ Hardware

Spec == Init /\ [][Next]_vars

-----------------------------------------------------------------------------
(* Properties *)

TypeOK ==
  /\ memory \in MemoryStates
  /\ cr3 \in AllDirectories \cup {NULL}
  /\ process_list \in [Slots -> PCBs]
  /\ active_process_count \in 0 .. UINT32 - 1
  /\ mode \in Modes
  /\ cpu \in [owner : Serials \cup {Nobody}, step : Nat]
  /\ births \in Nat
  /\ progress \in [Serials -> Nat]

\* A control block holds a process from its creation until it is destroyed.
Live(i) == process_list[i].born # Nobody

MappedFrame(m, d, p) == m.page_directory_list[d][p]

(***************************************************************************)
(* No frame is mapped for user code at two places, in two directories or   *)
(* twice in one; a mapped frame is a real one, marked as used, and never   *)
(* the kernel's frame 0.  Allocation checks for memory with a wrong unit   *)
(* (process.c:65) and goes on with index -1 when no frame is left          *)
(* (paging.c:82-94), and frames of dead processes keep their mark; this is *)
(* what has to hold nevertheless.                                          *)
(***************************************************************************)
FramesExclusive ==
  \A d \in AllDirectories, p \in UserPages :
    LET f == MappedFrame(memory, d, p) IN
    f # NotPresent =>
      /\ f \in Frames \ {0}
      /\ memory.page_frame_map[f]
      /\ \A e \in AllDirectories, q \in UserPages :
           MappedFrame(memory, e, q) = f => e = d /\ q = p

(***************************************************************************)
(* free_page_frame_count is the number of unmarked frames, and every       *)
(* process ever created costs two of them for good: process_destroy never  *)
(* gives a frame back (process.c:164-165, paging.c:173-196).               *)
(***************************************************************************)
FramesAccounted ==
  /\ memory.free_page_frame_count = Cardinality(FreeFrames(memory))
  /\ mode \in {"start_scheduler", "user", "fault"} =>
       memory.free_page_frame_count = PAGE_FRAME_MAX_COUNT - 2 - 2 * births

(***************************************************************************)
(* Every live process has a directory of its own, in use, that maps the    *)
(* page it was loaded at, its stack and the kernel: the directory a        *)
(* context switch to it will load (scheduler.c:71) is there.  A program    *)
(* loaded where the stack goes has one page for both: the second frame     *)
(* replaces the first (process.c:86-87), and the executable is read after. *)
(***************************************************************************)
LiveDirectories ==
  \A i \in Slots : Live(i) =>
    LET d == process_list[i].ctx.pd IN
    /\ d \in Directories
    /\ memory.page_directory_used[d]
    /\ MapsKernel(memory, d)
    /\ \A p \in {process_list[i].code, StackPage} :
         MappedFrame(memory, d, p) # NotPresent
    /\ \A j \in Slots : Live(j) /\ process_list[j].ctx.pd = d => j = i

(***************************************************************************)
(* process_create_user_process does not look at the NULL that              *)
(* paging_create_new_page_directory may return (process.c:76-83): whenever *)
(* its checks let a request pass, a directory is free.                     *)
(***************************************************************************)
DirectoryPoolSuffices ==
  \A request \in Requests :
    CreateReturnCode(memory, active_process_count, request) = PROCESS_CREATE_SUCCESS
      => NewPageDirectory(memory) # NULL

(***************************************************************************)
(* While user code runs at most one block is RUNNING, it is the block of   *)
(* the process on the CPU, and CR3 holds its directory: the timer handler  *)
(* takes the first RUNNING block for the interrupted process               *)
(* (scheduler.c:32, process.c:26-35) and the current CR3 for its directory *)
(* (interrupt.c:219).                                                      *)
(***************************************************************************)
RunningOwnsCPU ==
  mode = "user" =>
    \A i \in RunningSlots(process_list) :
      /\ RunningSlots(process_list) = {i}
      /\ process_list[i].born = cpu.owner
      /\ process_list[i].ctx.pd = cr3

(***************************************************************************)
(* Preemption is transparent: the context saved in the block of a READY    *)
(* process is its own and the one it had when it was interrupted, whatever *)
(* was created, destroyed or scheduled since; and the process on the CPU   *)
(* goes on from where it stopped.                                          *)
(***************************************************************************)
ContextIntegrity ==
  /\ \A i \in Slots : Live(i) =>
       /\ process_list[i].ctx.owner = process_list[i].born
       /\ process_list[i].state = READY =>
            process_list[i].ctx.step = progress[process_list[i].born]
  /\ mode = "user" /\ cpu.owner # Nobody => cpu.step = progress[cpu.owner]

(***************************************************************************)
(* Round robin starves nobody: a READY process runs, unless it is          *)
(* destroyed or the machine resets (scheduler.c:62-67).                    *)
(***************************************************************************)
ReadyRuns ==
  \A i \in Slots :
    (mode = "user" /\ process_list[i].state = READY)
      ~> (process_list[i].state # READY \/ mode = "fault")

=============================================================================
