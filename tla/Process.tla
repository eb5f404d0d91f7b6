------------------------------- MODULE Process -------------------------------
(***************************************************************************)
(* The process table (src/src/process.c): creation and destruction of user *)
(* processes as operators on the table and on the memory record.           *)
(*                                                                         *)
(* A register context is abstracted to whose it is, how far that process   *)
(* had come, and the page directory it runs in.  "born" and "code" are     *)
(* history variables: the serial number of the process a control block was *)
(* filled for, which neither pid nor index tell once slots are used again, *)
(* and the page that process was loaded at, its first eip.                 *)
(***************************************************************************)
EXTENDS Paging

CONSTANT PROCESS_COUNT_MAX  \* 16 in process.h

ASSUME ProcessCountAssumption ==
  /\ PROCESS_COUNT_MAX \in Nat \ {0}
  /\ PROCESS_COUNT_MAX < UINT32

PROCESS_PAGE_FRAME_COUNT_MAX == 8

PROCESS_CREATE_SUCCESS == 0
PROCESS_CREATE_FAIL_MAX_PROCESS_EXCEEDED == 1
PROCESS_CREATE_FAIL_INVALID_ENTRYPOINT == 2
PROCESS_CREATE_FAIL_NOT_ENOUGH_MEMORY == 3

NO_PROCESS == "NO_PROCESS"
READY == "PROCESS_STATE_READY"
RUNNING == "PROCESS_STATE_RUNNING"
ProcessStates == {NO_PROCESS, READY, RUNNING}

Slots == 0 .. PROCESS_COUNT_MAX - 1

Nobody == -1
Serials == 0 .. PAGE_FRAME_MAX_COUNT

Contexts == [owner : Serials \cup {Nobody},
             step  : Nat,
             pd    : AllDirectories \cup {NULL}]

\* struct ProcessControlBlock
PCBs == [pid   : Nat,
         state : ProcessStates,
         born  : Serials \cup {Nobody},
         code  : UserPages,
         ctx   : Contexts]

NullContext == [owner |-> Nobody, step |-> 0, pd |-> NULL]
EmptyPCB == [pid |-> 0, state |-> NO_PROCESS, born |-> Nobody,
             code |-> CodePage, ctx |-> NullContext]

RunningSlots(pl) == {i \in Slots : pl[i].state = RUNNING}

\* process_get_current_running_pcb_pointer(): first RUNNING slot, or NULL
process_get_current_running_pcb_pointer(pl) ==
  IF RunningSlots(pl) # {} THEN Min(RunningSlots(pl)) ELSE NULL

-----------------------------------------------------------------------------
(* process_create_user_process *)

FrameCountNeeded(request) ==
  ceil_div(request.buffer_size + PAGE_FRAME_SIZE, PAGE_FRAME_SIZE)

\* The checks of lines 50-69, in their order.  paging_allocate_check() is
\* given the number of frames where it expects bytes.
CreateReturnCode(m, active, request) ==
  IF active >= PROCESS_COUNT_MAX
  THEN PROCESS_CREATE_FAIL_MAX_PROCESS_EXCEEDED
  ELSE IF request.buf >= KernelPage
  THEN PROCESS_CREATE_FAIL_INVALID_ENTRYPOINT
  ELSE IF \/ ~paging_allocate_check(m, FrameCountNeeded(request))
          \/ FrameCountNeeded(request) > PROCESS_PAGE_FRAME_COUNT_MAX
  THEN PROCESS_CREATE_FAIL_NOT_ENOUGH_MEMORY
  ELSE PROCESS_CREATE_SUCCESS

\* Memory after a successful call: a directory, a code frame, a stack frame.
CreateMemory(m, request) ==
  LET d  == NewPageDirectory(m)
      m1 == paging_create_new_page_directory(m)
      m2 == paging_allocate_user_page_frame(m1, d, request.buf)
  IN  paging_allocate_user_page_frame(m2, d, StackPage)

\* The new control block goes to slot number active_process_count, whatever
\* that slot holds.
CreatePCB(m, active, serial, request) ==
  [pid   |-> active,
   state |-> READY,
   born  |-> serial,
   code  |-> request.buf,
   ctx   |-> [owner |-> serial, step |-> 0, pd |-> NewPageDirectory(m)]]

-----------------------------------------------------------------------------
(* process_destroy *)

SlotsWithPid(pl, pid) == {i \in Slots : pl[i].pid = pid}

\* The page directory of the first control block with this pid.  With no such
\* block the code reads it through a null pointer, out of the caller's own
\* code page: a value that is no page directory.
DestroyDirectory(pl, pid) ==
  IF SlotsWithPid(pl, pid) # {}
  THEN pl[Min(SlotsWithPid(pl, pid))].ctx.pd
  ELSE NULL

DestroyMemory(m, pl, pid) ==
  paging_free_page_directory(m, DestroyDirectory(pl, pid))

\* The slot with the number of the pid is cleared, whether or not it was the
\* one found.
DestroyPCBs(pl, pid) == [pl EXCEPT ![pid] = EmptyPCB]
=============================================================================
