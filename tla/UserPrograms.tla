---------------------------- MODULE UserPrograms ----------------------------
(***************************************************************************)
(* The kernel under the two programs the repository ships: the shell       *)
(* (user-shell.c), whose commands exec and kill make the process system    *)
(* calls, and the clock (user-clock.c), which makes none of them.          *)
(***************************************************************************)
EXTENDS Kernel

VARIABLES
  clock_is_running,   \* user-shell.c's flag, in the shell's own memory
  shell_at            \* where in its code the shell is

shellVars == <<clock_is_running, shell_at>>

userVars == <<vars, shellVars>>

Shell == 0   \* the first process created

\* Waiting for a line, or past the system call of exec or kill with the flag
\* still to be written.  The timer may take the CPU away at any of them.
ShellPlaces == {"prompt", "created", "destroyed"}

ShellRuns == mode = "user" /\ cpu.owner = Shell

\* A command is a line typed at the keyboard, so a shell that has destroyed
\* itself does not live to read another one: the timer fires long before.
ShellReadsCommand ==
  /\ ShellRuns
  /\ shell_at = "prompt"
  /\ \E i \in RunningSlots(process_list) : process_list[i].born = Shell

ClockRequest == [buf |-> CodePage, buffer_size |-> 1048576]

\* Mutant: the flag is not looked at.
ExecUnguarded ==
  /\ ShellReadsCommand
  /\ SyscallCreateProcess(ClockRequest)
  /\ shell_at' = "created"
  /\ UNCHANGED clock_is_running

\* exec clock, as far as the system call
exec ==
  /\ ShellReadsCommand
  /\ clock_is_running = 0
  /\ SyscallCreateProcess(ClockRequest)
  /\ shell_at' = "created"
  /\ UNCHANGED clock_is_running

\* ... and the flag, which is set whatever the system call did.
exec_sets_flag ==
  /\ ShellRuns
  /\ shell_at = "created"
  /\ clock_is_running' = 1
  /\ shell_at' = "prompt"
  /\ UNCHANGED vars

\* Mutant: the flag is cleared whatever was killed.
KillClearsFlag(pid) ==
  /\ ShellReadsCommand
  /\ pid = 0 \/ (pid = 1 /\ clock_is_running = 1)
  /\ SyscallProcessDestroy(pid)
  /\ shell_at' = "destroyed"
  /\ UNCHANGED clock_is_running

\* kill <pid>, as far as the system call: pid 0 always, pid 1 only while the
\* flag is set
kill(pid) ==
  /\ ShellReadsCommand
  /\ pid = 0 \/ (pid = 1 /\ clock_is_running = 1)
  /\ SyscallProcessDestroy(pid)
  /\ shell_at' = IF pid = 1 THEN "destroyed" ELSE "prompt"
  /\ UNCHANGED clock_is_running

\* ... and the flag, for pid 1.
kill_clears_flag ==
  /\ ShellRuns
  /\ shell_at = "destroyed"
  /\ clock_is_running' = 0
  /\ shell_at' = "prompt"
  /\ UNCHANGED vars

\* A reset loads a fresh copy of the shell.
ResetShell == Reset /\ clock_is_running' = 0 /\ shell_at' = "prompt"

UserInit == Init /\ clock_is_running = 0 /\ shell_at = "prompt"

UserNext ==
  \/ (Boot \/ UserStep \/ TimerInterrupt \/ TranslationMiss)
       /\ UNCHANGED shellVars
  \/ exec
  \/ exec_sets_flag
  \/ \E pid \in Slots : kill(pid)
  \/ kill_clears_flag
  \/ ResetShell

UserSpec == UserInit /\ [][UserNext]_userVars

\* The timer fires at 1 kHz as long as the machine runs, boot goes on by
\* itself, and a triple fault resets the machine.
UserFairness ==
  /\ WF_userVars(Boot /\ UNCHANGED shellVars)
  /\ WF_userVars(TimerInterrupt /\ UNCHANGED shellVars)
  /\ WF_userVars(ResetShell)

UserFairSpec == UserSpec /\ UserFairness

-----------------------------------------------------------------------------
(* Properties *)

(***************************************************************************)
(* Creation never lands on a live control block.  The slot it fills is     *)
(* number active_process_count (process.c:72), which is a free slot only   *)
(* as long as processes die in the reverse order of their creation; the    *)
(* shell's own checks (user-shell.c:845, 1256) are what ensures it.        *)
(***************************************************************************)
NoLiveOverwrite ==
  [][\A i \in Slots :
       Live(i) /\ Live(i)' => process_list[i].born = process_list[i].born']_userVars

(***************************************************************************)
(* When the shell takes the next line and believes that no clock runs,     *)
(* none does: no history of exec and kill, failed ones included, leaves a  *)
(* clock that the shell can no longer kill (user-shell.c:845-853,          *)
(* 1256-1260).  A clock may run before the flag says so, when the timer    *)
(* comes between 1259 and 1260, but the shell reads no command there.      *)
(***************************************************************************)
NoUnkillableClock ==
  mode = "user" /\ shell_at = "prompt" /\ clock_is_running = 0 =>
    \A i \in Slots : Live(i) => process_list[i].born = Shell

(***************************************************************************)
(* A process never executes in a directory that belongs to another live    *)
(* process, although directories are cleared and handed out again while    *)
(* CR3 may still hold one (process.c:164-165, interrupt.c:219).            *)
(***************************************************************************)
OwnAddressSpace ==
  mode = "user" =>
    \A i \in Slots :
      Live(i) /\ process_list[i].ctx.pd = cr3 => process_list[i].born = cpu.owner

(***************************************************************************)
(* The shell gets the CPU again and again, clock or not, until it kills    *)
(* itself and the machine resets (scheduler.c:44-73).                      *)
(***************************************************************************)
ShellResponds ==
  (mode = "user") ~> (mode = "fault" \/ (mode = "user" /\ cpu.owner = Shell))
=============================================================================
