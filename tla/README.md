# jatos in TLA+

jatos is a small 32-bit operating system for x86: a kernel with paging,
processes, a round-robin scheduler, a FAT32-like file system, a keyboard and a
text screen, and two user programs, a shell and a clock. This directory models
it in TLA+, checks the models with TLC on small instances and proves invariants of
every modelled part with TLAPS for every size.

All paths below are relative to `src/src/`.

## 1. The system and its parts

| Part | State | Operations | Interacts with |
|---|---|---|---|
| Boot: `kernel-entrypoint.s`, `kernel.c` | the kernel's static page directory | one frame for the kernel, format or mount, create the shell, start the timer, first switch | calls everything else once |
| Frames and page directories: `paging.c` | frame map, free counter, directory pool, page directories | allocate a frame, check for memory, create / release / load a directory | called by boot and by the process table |
| Process table: `process.c` | `_process_list[16]`, active process count | create, destroy, find the running block | uses paging and the file system; called by boot and system calls |
| Scheduler: `scheduler.c`, `ctx_switch.s` | none of its own | save a context, switch to the next READY block | works on the process table, loads CR3 |
| Interrupts: `interrupt.c`, `idt.c`, `intsetup.s` | TSS, PIC and PIT set-up | timer, keyboard, 17 system calls | the only way into the kernel; every IDT entry is an interrupt gate |
| File system: `fat32.c` | FAT in memory, directory buffer | format, mount, read, read directory, write, delete | system calls 0-3, process creation; writes the disk cluster by cluster |
| Disk: `disk.c` | the disk | read and write blocks, polled | called by the file system and by system call 14 |
| Console: `keyboard.c`, `framebuffer.c` | one-character key buffer, key state, cursor, screen | keyboard interrupt, get character, put, clear | shell by system calls 4-8, 13 and 16 |
| Real-time clock: `cmos.c` | device registers | set up, read the time | clock program by system calls 11 and 12 |
| Shell: `user-shell.c` | line buffer, path stack, current clusters, `clock_is_running` | `cd ls mkdir cat cp rm mv find`, `exec kill ps clear` | all system calls; runs in user mode, preempted at any instant |
| Clock: `user-clock.c`, `crt0.s` | last time shown | read the time, draw it | runs beside the shell |
| Image inserter: `external-inserter.c` | a disk image in memory | write a file into it | host program over the same `fat32.c` |
| Descriptor tables, port access, string library | constants | plain instructions | used by all |

### What makes it hard

- **Preemption.** The timer may fire between any two instructions of a user
  program; the handler finds out whose registers it has by looking for the first
  RUNNING block. Handlers themselves cannot be interrupted (interrupt gates).
- **Slots and counts.** A new process is put in slot number
  `active_process_count`, and its pid is that number. That is a free slot only as
  long as processes die in reverse order; nothing in the kernel ensures it.
- **Memory that is never given back.** Destroying a process releases its page
  directory but not its two frames. The check for memory is given frames where it
  expects bytes, so it asks for one frame where two are taken.
- **Self-destruction.** A process that destroys itself goes on running in a page
  directory that has been cleared.
- **Order of disk writes.** A file is an entry, a chain and data, written by
  separate writes; the power may go between any two. FAT and directory are each
  both in memory and on the disk.
- **A driver without checks.** `write` looks neither for the name nor, when it
  makes a folder, for room in the directory; `delete` does not look whether a
  folder is empty.
- **Assembly.** Stubs, frame, control block and the switch pass registers through
  four layouts, in an order that matters (`ecx` is both the base of the loads and
  one of the registers loaded).
- **Callers that mix up directories.** The shell keeps two clusters and two arrays
  for where it is; each command takes another of them. Names are compared over
  eight bytes of which some were never written.
- **One-character key buffer** shared by an interrupt handler and a polling
  shell; **two cursors**, one in memory and one in VGA registers; **a clock read
  register by register** while it ticks.

### What makes each part correct

- Paging: no frame mapped twice, the counter exact, no index outside the map.
- Processes: every live process has a directory of its own that maps its code,
  stack and the kernel; a live block is never filled again; a released one stays
  released.
- Scheduler: at most one block RUNNING, that of the process on the CPU; contexts
  are saved to and restored from their owner; no READY process waits for ever.
- Shell and clock: the flag agrees with what runs; the shell always gets the CPU
  back.
- File system: chains complete, disjoint and without leaks; memory and disk agree
  between calls; what is read is what was written; a power loss costs at most
  what the call in progress was about.
- Console: no key twice; the line on the screen is the line the shell has.
- Real-time clock: a time shown was the time of the device at one instant.
- Shell commands: a command works on the entry the prompt shows, does what it says
  and nothing else, and tells the user the truth.
- Interrupts: every entry leaves stack, registers and interrupt controller as it
  found them; a process cannot tell that it was interrupted.

## 2. Modules

| Module | Models | State |
|---|---|---|
| `Paging` | `paging.c` | none: operators on a `memory` record |
| `Process` | `process.c` | none: operators on the process table |
| `Scheduler` | `scheduler.c` | none: operators on the process table |
| `Kernel` | boot, timer interrupt, system calls 9 and 15 over the three above | `memory`, `cr3`, `process_list`, `active_process_count`, `mode`, `cpu`, and the histories `births`, `progress` |
| `UserPrograms` | shell's `exec` and `kill`, the clock, over `Kernel` | adds `clock_is_running`, `shell_at` |
| `KernelProofs`, `UserProgramsProofs` | proofs about `Paging` and `Kernel`, and on top of them about `UserPrograms` | |
| `FAT32` | `fat32.c` and the disk | `disk`, `fat`, `pending`, `power`, `result` |
| `FileStore` | what a file system promises | `store`, `answer` |
| `FAT32Store` | `FAT32` beside `FileStore` | adds `store` and `answer` as histories |
| `Shell` | the shell's file commands over `FAT32` | adds `DEPTH`, `DIR_PATH`, `DIR_CLUSTERS`, the two current clusters, and the histories `report`, `steady` |
| `Interrupts` | `gdt.c`, `idt.c`, `intsetup.s`, `interrupt.c`, `ctx_switch.s`, the order of `kernel_setup` | `cpu`, `iflag`, `stack`, `context`, `running`, `active_process_count`, `pic` |
| `Processors` | what entry and switch promise | `file`, `alive`, `current` |
| `Console` | `keyboard.c`, `framebuffer.c`, the shell's input loop | `screen`, `cursor`, `vga`, `keyboard_state`, the two key flags, `line`, `keyboard_input`, `calls`, `pc`, and the histories `calm`, `fresh`, `hasty` |
| `Clock` | `cmos.c`, the clock program, the device | `now`, `flag`, `accesses`, `updates`, `pc`, `time`, `time_array`, `shown`, and the history `seen` |
| `FAT32Proofs`, `FAT32TreeProofs`, `ShellProofs` | proofs about `FAT32`; on top of them about the tree on the disk (`FAT32`, `FAT32Store`), and about `Shell` | |
| `InterruptsProofs`, `ConsoleProofs`, `ClockProofs` | proofs about `Interrupts` (with `Processors`), `Console`, `Clock` | |
| `MCKernel`, `MCUserPrograms`, `MCFAT32`, `MCFAT32Store`, `MCShell`, `MCInterrupts`, `MCConsole`, `MCClock` | constants for TLC | |

Who uses whom: `Process` and `Scheduler` are operators over `Paging`; `Kernel` composes
the three; `UserPrograms` restricts it to the shipped programs. `Shell` and
`FAT32Store` extend `FAT32`. `Interrupts` stands beside `Kernel`: what is one atomic
handler and one context value there is a sequence of steps over single registers
here. Each is checked on its own, and what they share is stated twice: `OwnProcessor`
says that entry, frame, control block and switch together keep a process's
registers, `OneFrame` that no handler is interrupted, and both are what `Kernel`
builds on. The link between the two modules is not itself a checked refinement.

### Kernel

`paging.c` keeps two static managers and a pool of directories; in the model they
are one record, `memory`, and each C function is an operator from record to
record with the same name, so a handler that calls several is their composition.
A virtual address is its page directory index; three of them stand for all: the
programs' code (0), the stack every process is given (767) and the kernel (768). A
request names any of them as the place of the code, as the system call does: at 767
code and stack share one entry, the second frame taken replaces the first in it, and
at 768 creation is refused. A frame index of -1, which the
code would compute with no frame left, is kept: the write to `page_frame_map[-1]`
falls outside the map and the entry becomes `WildFrame` (1023).

A register context is reduced to whose it is, how many steps that process has
made, and the page directory. `progress` counts steps as they are really made, so
that a context that was lost, duplicated or given to another process shows up as a
difference between the two. `born` numbers processes from power-on, because pid
and slot do not identify a process once slots are used again.

`mode` is the phase of `kernel_setup`, or user code, or a fault. A switch to a
directory that does not map the kernel is a triple fault, and `Reset` is what
follows it. A process whose directory was cleared under it may go on
(cached translations, `UserStep`) or fault at any time (`TranslationMiss`).

Handlers are atomic since `idt.c` makes every entry an interrupt gate (`OneFrame` in
`Interrupts`).
`CreateAccepted` is the whole of a successful `process_create_user_process`: CR3
is switched and switched back within it; either load may fault, which is
`CreateFaulted`.

In `Kernel` any process may make any process system call with any argument; this
is the widest environment the invariants are shown in. In `UserPrograms` only
what the shipped programs do is possible. There `exec` and `kill` end with their
system call, and the flag is written by a step of its own (`exec_sets_flag`,
`kill_clears_flag`, with `shell_at` for the place in between): the timer may come
between the two, so that a clock may run before the flag says so. Two properties hold only there: that no
live block is overwritten (`NoLiveOverwrite`) and that no process runs in
another's directory (`OwnAddressSpace`). The kernel relies on its programs for
both.

### FAT32

A call runs with interrupts off, so it is one action that computes the new FAT in
memory, its outcome, and the list `pending` of cluster writes in the order of the
code; `write_clusters` then puts them on the disk one at a time, and the next call
begins when none is left. So every state between two writes exists, and that is
where `OthersUntouched`, `FolderCreationAtomic` and `Crash` look. The content of a
cluster is a value: blank, signature, a FAT, a directory table, or part `k` of
version `v` of a file. The numbers of clusters, of table entries, and through
them the bytes of a cluster (always four times `CLUSTER_MAP_SIZE`, as in
`fat32.h`) are parameters.

A request names its directory by cluster. The callers modelled get that cluster
as the shell does, by entering one folder after the other from the root
(`DirectoryCluster`). `Calls` are those of a careful caller: it does what the
driver omits (looks whether the name is there, whether clusters and entries are
left, whether a folder is empty, and uses no name in a folder that is the folder's
own, which a lookup would find in entry 0). `AnyCalls` also deletes full folders.
`Written(d, writes)` is a disk once some writes are made; `FinalDisk` is the disk
once the pending ones are.
`delete` is modelled with an extension in the request, as all callers have it.

`FileStore` knows a tree of folders and files, no clusters and no power.
`FAT32Store` shows that `FAT32` implements it: the tree is the one on the disk
after the pending writes, the answer is what a successful read returned. The two
mappings are computed once per step and kept in variables, which is the refinement
mapping `store <- Tree(FinalDisk)`, `answer <- Answer(result)` written so that TLC
does not recompute it for every disjunct.

### Shell

The only program that makes file system calls is the shell, and it waits for each, so
a command is one step that ends with writes pending on the disk; they are made one
by one as in `FAT32`, and the next command begins when none is left. The disk the
machine starts with is the one the image inserter leaves: formatted, with files put
into the root (`Inserted`).

`ls`, `mkdir`, `rm`, `cp` and `mv` get the current directory by name from
`CURRENT_DIR_PARENT_CLUSTER_NUMBER`; `cd` and `cat` go through `DIR_CLUSTERS`; `cp`,
`rm` and `mv` then act on the parent's cluster or the current one, each as in the
code. `EnterFolder` writes the arrays on the way down even when a later component is
missing. `OnStack` and `UninitialisedBytes` are the outcomes of the bytes `cp` and `mv`
never write: a name may be followed by remains of the stack, which make it one that
nobody types (`Garbled`) or a longer name (`Longer`), perhaps that of another entry,
and a return code of which one byte is written may be read as non-zero.
`print_terminal_text` is the prompt after a command. `mvRename` and `mvMove` are the two branches of `mv`, with and without a leading `/`.

Every command may be given at any place with any name. A session is followed up to
and including the first command that is not *sensible* (`steady` becomes false); what
is sensible stands beside each command and is what the code needs for it to work:
for `mkdir`, a fresh name and a directory that is not full; for `rm`, `cp` and `mv`,
standing in the root, which is where the parent's cluster and the current one are
the same; for `rm`, neither the root itself nor a folder that holds something; for
`cp` and `mv`, a fresh name at the destination, for `cp` one with nothing of the stack
behind it; for `mv` along a path, a file as the source, a path that leads to a folder,
and a free entry in that folder. One condition is out of the user's hands: what the
stack has behind the source's name, or behind the first name of `mv`'s path, must not
make it the name of another entry (`NoOther`); remains that match nothing are no
harm, and the command then fails and says so. The properties about the
tree are about sensible commands, with any number of `ls`, `cd`, `cat` and `find`
between them; `RmRemoves` shows what the restriction to the root excludes, and
`CpCopiesNamed` what `NoOther` does.

The assumptions on the constants say what the makefile's images have and TLC evaluates
on every run: paths are all sequences of names that the arrays have room for
(`DeepPathsAssumption`), remains of the stack may make a name one that is none
(`GarbledAssumption`) or another (`LongerAssumption`), and a file is put into an image that has clusters and an entry
left for it and no file of its name (`ImageAssumption`).

### Interrupts

A word is a triple whose last part names what it is. The registers of a process all
hold different words, and an instruction of the process (`UserStep`) changes all of
them, so that one register lost, stale or taken for another is seen. `stack` is the
kernel stack from the top; `context` the control blocks' copies; `pic` the master's
request, mask and in-service registers. `Enter` is what the processor does at a
gate, `Stub` is `intsetup.s` down to the call, `main_interrupt_handler` the dispatch
with the effect each handler has on frame, controller and process table, `Return` the
way back, `ContextSwitch` the stack and the loads of `ctx_switch.s` in their order
(`Loads`). Devices may ask at any instant, programs may execute any of
`SoftwareVectors` or raise any of `Exceptions`; a vector whose gate has privilege 0
ends in a general protection fault. Most system calls return. Two do not, and have a
place of their own: a call given a pointer that is not mapped (`unmapped_access`) faults
in the kernel, so that a second frame is pushed further down the same stack, handled,
taken off, and pushed again, for ever (`SyscallPageFault`); and a write of a file too
large for the disk goes round its search for clusters (`ClusterSearch`). Both keep the
processor with interrupts off. `kernel_setup` is seven steps between which keys
arrive, since interrupts are enabled before the first process is there.

`Processors` knows of no kernel: every process has a register file which only its own
instructions change. `RegisterFile` is the refinement mapping: it looks for the
registers of a process in the processor, in the frame, or in the control block,
depending on where the kernel is; of two frames it is the outer one.

### Clock

The device counts by itself. Some register accesses before it changes its registers
it raises its flag; `LEAD` is how many, and as long passes from an update to the next
flag. The kernel reads with interrupts off, so while it reads only the device moves,
and only after `LEAD` accesses; between system calls time passes freely. `now` is the
device's time, `seen` what it was when the flag was last found clear. The digits go
through `bcd_to_binary`, `LocalHour` and the program's division, and are drawn one
system call at a time.

### Console

The keyboard interrupt may come between any two system calls of the shell. It
writes the key into a buffer of one character and echoes it at the cursor of the
VGA registers (`vga`); the shell polls the buffer, collects `line`, and prints with
`puts`, which uses a cursor in memory (`cursor`) and then sets the registers to it.
`calls` holds the system calls the shell is about to make, so that an interrupt
can come between them. A command prints any strings and may clear the screen. A
position is `row * COLS + col`, as in the registers: wrapping at column 80 is then
adding one, and `Position` gives a column of 80 the cell it is written to.

Keys may be pressed at any instant. One pressed while the shell is busy may be
lost or echoed in the middle of output: the buffer has no room for it. What
`EchoMatchesLine` says is that this does not last: a line all of whose keys were
pressed while the shell waited (`calm`) stands on the screen as the shell has it,
whatever happened to earlier lines. It depends on `puts("")` after a backspace on an
empty line, which takes back the cursor the interrupt has moved.

## 3. Runs

| Run | Instance | Question |
|---|---|---|
| `MCKernel_safety` | 10 frames, 4 directories, 3 slots, one step per process, code on any page | Do memory, process table and CPU agree whatever system calls are made? |
| `MCUserPrograms_safety` | 14 frames, 6 directories, 3 slots, one step | With the timer at any instant, also between call and flag, do exec and kill keep what the kernel relies on, failures included; does the shell get the CPU back, and every READY process its turn? |
| `MCFAT32Store_safety` | 7 FAT entries, 3 table entries, 4 paths in 2 levels, files of one and two clusters, 2 versions | Is allocation sound, and does the driver implement a file store? |
| `MCShell_safety` | 8 FAT entries, 4 table entries, 2 names of which one begins with the other, directories 2 levels deep, one file in the image | Does each file command do what it says, wherever the user is, and tell the truth? |
| `MCInterrupts_safety` | 3 processes, calls of vectors 32, 48, 49 and 64, exceptions 6 and 14 | Is an interrupt invisible to the process it interrupts, and does every process run while system calls return? |
| `MCConsole_safety` | screen of 3 by 3 and a row below it, lines of up to 4 characters, a key pressed at a wrong time | Is the line on the screen the line the shell has? |
| `MCClock_safety` | 288 start times, 2 seconds that pass, `LEAD` 3, BCD | Is what is shown the time of one instant? |
| `MCFAT32_delete`, `_read`, `_crash` | as `MCFAT32Store_safety` | Three statements of comments in `fat32.c` that the code does not keep |
| `MCShell_rm` | as `MCShell_safety` | What `README.md` says of `rm` |
| `MCShell_cp` | as `MCShell_safety`, a third name, the longer name in the image | What `README.md` says of `cp` |

Why the bounds are enough.

- *Kernel.* Two frames go for good with each process, so the frame count bounds the
  number of processes between two resets, and the runs use them up: creation is
  refused for lack of memory, of slots and for the entry point, and the pool of
  directories is as small as its assumption allows, so that a request that finds no
  directory would be one step away. `UINT32` is scaled down to just above the frame
  count, so that a counter that goes below zero reaches its wrap; in the code both
  would be 2^32. `MaxStep` lets a context be saved at
  two different points.
- *File system.* Four clusters are free after formatting: enough for a folder with a
  file of two clusters beside another file, few enough that every sequence of
  creations and deletions must reuse and scatter them. The two buffer sizes make
  `read` stop short of a file of two clusters and read all of it.
- *Shell.* Five clusters are free before the image's file of two takes its own: enough
  for two levels of folders into which the file is moved, or for a folder beside a
  copy of it, and for renaming and removing all of them.
  A third level is reached by no command that is not already
  taken at the second: each uses the current directory and the one above. A table
  has room for three names, of which moved files use up some. Deadlock is not checked
  here, since a session ends with the first command that is not sensible.
- *Interrupts.* Three processes are the fewest for which "the next" differs from "the
  other". The vectors are one of a hardware gate, the system call's, an unused one
  and an absent one; the exceptions one without and one with an error code.
- *Clock.* All hours, and the minutes and seconds about every carry and every
  change of tens. Two updates let a reading be stale by one and catch up.
- *Console.* On the screen of three rows, `puts` clears when it would enter the last,
  as it does with 25; a prompt of two characters and a line of two wrap, and output
  is longer than a row. `MaxHasty` bounds the keys pressed while the shell is busy;
  one is enough to spoil a line and to be left over for the next.

What the passing runs say beyond the invariants' names: `StoreRefined` covers every
history of creations and deletions with the power going off between calls, and
`OthersUntouched` and `FolderCreationAtomic` every state between two writes to the
disk, hence a power loss at any of them. `AsTold` compares the whole tree before a
command with the whole tree after its last write. `MoveNeverLoses` looks between the
two tables a move writes.

The violation runs and what they show:

- `MCFAT32_delete`: a folder that holds an entry is deleted. Folder and file are
  told apart by the extension in the request, and the shell always passes `txt`.
- `MCFAT32_read`: the limit is counted in units of 512 bytes where clusters have
  2048, so `read` fills up to four times the clusters the buffer has room for and
  reports success.
- `MCFAT32_crash`: the signature is written first, so a format cut short by a
  power loss counts as done at every later boot.
- `MCShell_rm`: below the root, `rm` finds the name in the current directory and
  deletes it in the one above.
- `MCShell_cp`: with a file `ab` and no `a`, `cp a` with the letter `b` left behind the
  name on the stack copies `ab` and reports no failure.

Seen in the code and kept in the models, without a run of their own: the seconds of
the clock are converted from BCD twice (`cmos.c:31` and 43), so that 58 is shown as 40;
`process_destroy` reports success for any pid below 16, process or not, and lowers
the count each time; after `kill 0` the next timer interrupt takes block 0 for the
current one and makes the released block READY; creation succeeds when the executable
could not be read; a line typed at the bottom of the screen goes on in video memory
below it, since only `puts` knows the last row; a file that is moved keeps its entry,
without a name, in the table it came from, so that the place is not used again.

### Fairness

`UserPrograms`. `WF(TimerInterrupt)`: the PIT raises IRQ 0 at 1 kHz and user code runs with
interrupts enabled (`eflags` of a new process has the interrupt flag).
`WF(Boot)`: the boot code waits for nothing. `WF(Reset)`: a triple fault resets
the machine. No fairness is assumed of user steps or of commands.

`ShellReadsCommand` asks that the shell's block is RUNNING: a shell that has just
destroyed itself has less than a millisecond before the timer takes the CPU away,
and a command takes at least a keypress. Without this assumption a shell could
type `exec clock` after `kill 0`.

`Interrupts`. `WF(KernelStep)`: the processor does not rest in the kernel.
`WF(HardwareInterrupt)`: a request that can be delivered is, before the next
instruction. `WF(Tick)`: the timer goes on. `SF(kernel_setup)`: keys interrupt the
boot code again and again only if they never stop; the boot code is far longer than
one key is from the next, so it goes on in between. `KeyPress` has the same
assumption in its guard: no key while the handler of the last one runs, since a key
takes milliseconds and the handler microseconds. Nothing is assumed of programs: they
may make the two calls that never return. `WF(KernelStep)` then makes the kernel go
round, and `EveryProcessRuns` says that this is the only way for a process to wait for
ever (`NeverReturns`).

`Clock`. `WF(ClockStep)`: the scheduler gives the program its turns
(`ShellResponds` and `ReadyRuns` are what is shown of it), and the kernel, reading with
interrupts off, does not stop. `WF(Update)`: an update that was announced happens. No
fairness is assumed of the next second.

The file system, the shell and the console have safety properties only.

## 4. Proofs

Every theorem holds for all values of the constants that satisfy the named
assumptions of the module. Each module's theorems follow from one inductive invariant;
one lemma per action shows that the action keeps it, and most invariants were first
checked by TLC on the instance of the module's run.

### The kernel: `KernelProofs`

For `Spec` of `Kernel`:

| Theorem | Property |
|---|---|
| `KernelInvariant` | the inductive invariant `KernelInv` |
| `TypeCorrect` | `TypeOK` (the free counter stays below the number of frames) |
| `FramesAreExclusive` | `FramesExclusive` |
| `FramesAreAccounted` | `FramesAccounted` |
| `LiveProcessesHaveDirectories` | `LiveDirectories` |
| `DirectoriesSuffice` | `DirectoryPoolSuffices` |
| `RunningProcessOwnsCPU` | `RunningOwnsCPU` |
| `ContextsAreKept` | `ContextIntegrity` |

The argument of `KernelInv`:

- *Memory* (`MemoryInv`): the counter is the number of unmarked
  frames, mapped frames are marked and mapped once, an unused directory maps
  nothing. One lemma per operation of `paging.c` shows that it is kept.
- *Parity* (`FramesLeft`): the number of free frames is
  `PAGE_FRAME_MAX_COUNT - 2 - 2 * births`. The check for memory sees only that one
  frame is left; that a second one is follows because the number is even. Without
  this conjunct allocation could run out in the middle, so no invariant
  about frames would be inductive.
- *Births* (`DirectoriesOfBirths`): used directories are at most the births. With
  the above, a request that passes the checks finds a free directory.
- *Table* (`PCBsInPlace`, `BornOnce`, `RunningIsLive`, `OwnerNotReady`): a live
  block has its index for a pid, so that destroying pid `p` finds block `p`; the
  process on the CPU has no READY block, so saving to the RUNNING block cannot
  overwrite a saved context.

Assumptions: an even number of frames, at least four (`FrameCountAssumption`); a
pool of directories for as many processes as the frames suffice for
(`DirectoryCountAssumption`; 32 and 32 in the code); `PROCESS_COUNT_MAX < UINT32`;
`UINT32` above the number of frames. The first two are facts of `paging.h` the code
relies on without saying so: with an odd number of frames, creation would run out
half way.

### The shipped programs: `UserProgramsProofs`

For `UserSpec`: `ClockStaysKillable` (`NoUnkillableClock`), `AddressSpacesAreOwn`
(`OwnAddressSpace`), `CreationFindsFreeSlot` (the action property `NoLiveOverwrite`).

A step of the programs is a step of the kernel, so `KernelInv` is kept. `UserInv`
adds what the kernel alone does not have: only slots 0 and 1 are ever filled, 0 by
the shell (`OnlyTwo`, `ShellFirst`); a clock in slot 1 is known to the flag
(`ClockKnown`), unless the shell is still between `exec`'s system call and the flag; with
no clock and nothing to hinder the next one, the flag is clear or about to be
(`FlagFollows`); the process count is the index of the next free slot while the shell
lives, or nothing can be created any more (`ClockCounted`); the directory an
orphan runs on in is nobody else's (`OrphanAlone`). The difficult case is an `exec`
that failed: it sets the flag without a clock, and the `kill` this permits lowers
the count for nothing. What made the first one fail (no memory, or no slot) never goes
away, so the wrong count is never used.

### Interrupt entry and switch: `InterruptsProofs`

For `InterruptsSpec`, for any number of processes: `InterruptsTypeCorrect`,
`FrameIsWhole` (`OneFrame`), `SelectorsAreLoadable` (`SelectorsFit`), `DevicesAreServed`
(`ServedOnRequest`), and the refinement `ProcessorOfItsOwn`: `InterruptsSpec`
implements `Processors` under the mapping `RegisterFile`.

`InterruptsInv` says for every place the kernel can be at (user code, boot, stub,
handler, each load of the switch) what the stack holds from the top, which
selectors are loaded, what is in service; of a system call that does not return, that
the call's frame is whole below that of the page fault, whichever part of the latter is
there (`InNested`, `FaultAbove`). For the refinement, each step but
`UserStep`, the creation of the first process and the end of a switch leaves every
process's registers as they are, wherever they have been moved: from the processor
to the frame, from the frame to the block, and back register by register in the
order of `ctx_switch.s`, with `ecx` among the last.

Assumption: vectors 21 and 29, which a later generation of processors gives an
error code that `intsetup.s` does not expect, are not among the exceptions.

### Console: `ConsoleProofs`

For `Spec` of `Console`, for any size of screen and of line buffer:
`ConsoleTypeCorrect`, `TheLineIsOnTheScreen` (`EchoMatchesLine`), `KeysAreTakenOnce`
(`EachKeyOnce`). `ConsoleTypeCorrect` bounds the cursor in memory by the screen; that
the VGA cursor stays within the rows below it, and the line within its buffer, comes
from the guard of `KeyPress`, which stands for the lines a user may type: the code
checks neither.

The invariant says of a calm line that the cells from the cursor in memory up to that
of the VGA registers hold the line with the key applied that was echoed and is still
on its way (`CalmEcho`); that a new line begins after a last string of the prompt
(`Prompting`); and that the keys on their way still find room (`RoomInLine`). `puts` is a recursion over its string; that it returns, and what the
screen is after it, is proved by well-founded induction over the number of characters.

Assumptions: sizes of the screen with at least a row below the last that `puts`
uses (`SizeAssumption`); the keys that have characters are other keys than enter,
backspace and the modifiers (`KeysAssumption`); the prompt is made of strings, at
least one, and so is what commands print (`PrintedAssumption`).

### Real-time clock: `ClockProofs`

For `Spec` of `Clock`, for every set of start times and any number of updates:
`ClockTypeCorrect`, `OneInstantIsRead` (`ReadsOneInstant`), and `LocalTimeIsShown`
(`ShowsLocalTime`) for a device that counts in BCD (`~BinaryMode`). A device in
binary mode would need no conversion, but the code converts hours without asking.

`TimeLeft` relates the place in `read_cmos` to the accesses since the flag rose: at
the hour register at most two, so that with `LEAD >= 3` the device cannot have
changed under the kernel.

### File system: `FAT32Proofs`

For `Spec` of `FAT32`, for any number of clusters, entries, names and files:
`FATTypeCorrect` (`TypeOK`: no write and no chain leaves the clusters of the disk) and
`MemoryIsOnTheDisk` (`FATMirrored`). The run checks both under `StoreSpec`, which adds
two observing variables to `Spec` and no behaviour.

`FATInv` holds while writes are pending, too: the disk is typed, and once the
pending writes are made cluster 1 will hold the FAT in memory (`FATArrives`); when the
power is off, a disk with a signature has a FAT (`Formatted`). That a chain stays
within the clusters, that an allocation has as many clusters as asked for, and that
`DirectoryCluster` returns a cluster that is no part of the FAT area needs induction
over data: it is done with the library's `WFMin`, on the set of numbers for which
the statement fails, and for recursive functions their existence is proved first.

Assumption: no file is called `root` or has an empty name (`NamesAssumption`); `delete`
and every lookup would take an empty name for an entry that is not used.

### The tree on the disk: `FAT32TreeProofs`

For `Spec` of `FAT32`: `ChainsAreSound` (`ChainsSound`), `OtherPathsAreSafe`
(`OthersUntouched`), `FoldersComeWhole` (`FolderCreationAtomic`). For `StoreSpec` of
`FAT32Store`: `DriverIsAFileStore` (`StoreRefined`), the refinement of `FileStore`. Any
number of clusters, table entries, names, paths, files and versions.

None of the four is inductive. What is, `DiskInv`, has three parts:

- `FATInv`, above.
- `TreeInv`: the disk as it will be once the pending writes are made (with the power
  off, the disk) is `Sound` for some function `at` from the paths of folders to their
  clusters. `Sound` says that every entry with a name is at a path of its own, that the
  folders are the entries of size 0 and the root, and that an entry without a name is
  empty or one that a move left in the root (`Shaped`, `Live`, `Vacant`); that folders'
  clusters hold tables whose row 0 is in use and has size 0 (`OwnRow`), and attributes
  agree with sizes (`Seated`); that each entry has a complete chain of the length it needs, apart from
  all others, and nothing else is allocated (`Allotted`). An empty disk instead has
  nothing where the root directory will be (`Plain`).
- `Steady`: after any number of the pending writes (`Begun`), all paths but one read
  as they will in the end, and a folder that will be there is there or absent. It is
  about every one of them and not only about the present disk, because a write
  moves from one to the next.

On a sound disk following a path, as the driver's callers do, leads to the cluster
that `at` gives and nowhere else (`FolderClusters`), so that what is at a path is what the one
entry there stands for (`NodeFacts`); this is the induction over data of these proofs,
with the chain that is the longest walk along a map (`ChainIs`).

A creation and a deletion are one relation, `Grown`, read forwards and backwards: two
trees that differ in one row, whose entry is a file or an empty folder, and two maps
that differ in its chain. `Shaped` and `Allotted` are carried over it in both
directions. The instants in between need the order of the writes: before the folder's table
is written the disk has the old entries and other clusters than theirs have changed
(`CreationBefore`, `RemovalBefore`); afterwards it has the new ones
(`CreationAfter`, `RemovalAfter`), whether or not the FAT is there yet. A folder's table is
written last and so comes whole; a file's is written first and does not, which is
why `FolderCreationAtomic` speaks of folders only. `Does` sums up a call: the sound disk
it leaves, on which the other folders keep their clusters and rows 0 (`KeepsPlace`), the
one path it changes, and every instant between.

An entry counts as one if it has a name (`Live`), since that is what the code looks at
and what `mv` clears. The driver alone never leaves an entry in use without a name:
`TidyInvariant`. The lemmas on single calls do without that and hold on the trees that
the shell's `mv` leaves, too; `ChainsSound`, which is about entries in use, needs it.

The refinement then follows action by action: a careful write is `Create`, a delete
`Delete`, a read that returns 0 is `Read`, refused calls and the loss of power are
`Forget`, formatting, mounting and the writes themselves change nothing that is seen.

Assumption besides the above: the FAT has fewer entries than the number that marks
entry 0 (`MarksAssumption`; 512 against 268435440), so that no link is taken for an end.

### Shell: `ShellProofs`

For `ShellSpec`, for any number of clusters, table entries and names, any depth, any
files in the image and sessions of any length: `ShellTypeCorrect`, `CursorsAgree`
(`CursorConsistent`), `SessionIsOnTheDisk` (as long as the session is sensible,
`FATMirrored`), `PromptIsTrue` (`WhereIAm`), `AnswersAreTrue` (`AnswersTrue`),
`CommandsDoAsTold` (`AsTold`), `MovesLoseNothing` (`MoveNeverLoses`) and
`SessionsKeepTheTree` (`SteadyIsSound`). These are all properties of its run but
`FindsNearest`. Of `ShellTypeCorrect`, what the code is responsible for is that the
arrays hold directories down to `DEPTH`; that `DEPTH` stays within them is the guard
of `cd`, where `user-shell.c:477` counts up without a check. `CommandsDoAsTold` is about
sensible commands: of `cp` and `mv` with a short name, those for which what the stack
holds behind it does not spell another entry (`NoOther`); `MCShell_cp` shows what
happens otherwise.

`ShellInv` is about the numbers. `CursorInv` says that the arrays are filled down to
`DEPTH` and empty below, and that the two numbers are their last two clusters; `cd`
walks down a recursion whose every step keeps that or fails with the original position
intact (`OnTheWay`). While the session is sensible, memory and disk are in step, also
after a call that failed and after `mv`'s writes past the driver (`InStep`).

`CommandInv` adds what the other five need and none of them is by itself:

- `SessionInv`: once the pending writes are made the disk is a `Scene` for some
  function `at` from the paths of folders to their clusters, and the user is
  `OnTrail`: every beginning of the path in `DIR_PATH` is a folder of that tree whose
  cluster is the one in `DIR_CLUSTERS`. A scene is a sound tree in the sense of
  `FAT32TreeProofs` in which no entry has the name of its folder's row 0 (`OwnNames`:
  a lookup would find that row first), the root's row 0 is the root's (`RootRow`: the
  shell enters the root by name) and every path reads whole (`Whole`).
- `NothingLost`: at every instant of the writes that `mv` has pending, the file is at
  one of its two places.
- `Truthful`: what `ls` or `cat` told last is still so; both are told with no write
  pending.

Each command is an effect computed in one step from several calls, so that the
argument has one lemma per command about what its effect leaves (`Fulfils`: a
scene with the user on its trail, and the tree that `Told` says) and one that carries
it over the step (`ChangeTold`). `mkdir`, `rm` and `cp` are the driver's calls, and
`CallScene` takes over what `Does` says of those. The places the user has passed
survive because other folders keep their clusters, which is what `KeepsPlace` is for.

`mv` is not made of calls. Renaming in the root exchanges two names in every path
(`Swap`): a renamed folder takes all that is below it along, by one write of one table.
The other form writes the entry into the destination's table (`Placing`) and then
clears its name in the root's (`Removal`); in between two entries have one chain,
and the tree is not sound. So the disk before and the disk after are both compared
with the one in between, whose rows are those of either and one more (`Grown` of
`FAT32TreeProofs`, without its chains); from this follows that one entry is at another
path and that what it stands for went with it (`MoveRelocates`, `MoveCarries`).

That the machine starts in a scene is proved for `Image`, by the recursion over
`Inserted` that defines it (`ImageScene`).

### Only model-checked

- Liveness (`ReadyRuns`, `ShellResponds`, `EveryProcessRuns`, `ReadsAgain`): needs
  `ENABLED`.
- `FindsNearest` of the shell: the queue of `find` is a fold over a sequence of
  records, and that it visits folders by depth and misses none is an induction over
  what the fold has computed so far, for which the provers have no theorem to apply.
- The properties of the violation runs, which the code does not have.

## 5. Not modelled, and why

- `ceil_div` rounds through a `float`, and sizes near 4 GiB wrap; the modelled
  request sizes are those for which it is exact.
- `paging_free_user_page_frame`, `set_cmos_reg` and helpers that nothing calls.
- The folder branch of `delete`: it reads a cluster over a pointer and follows it;
  the behaviour is undefined and no caller gets there.
- In the file system modules, `write` with fewer free clusters than the file needs:
  `Shell` and `FAT32` create only while clusters are left. That the scan then never
  ends, with interrupts off, is in `Interrupts` (`ClusterSearch`); what it may read
  behind the FAT is not modelled.
- In the file system, names equal to that of the folder they are in, which
  match its entry 0, and what follows a crash in the middle of `write`: the driver
  has no recovery to model.
- In the shell, what follows a command that is not sensible; the text of command
  lines and their splitting at blanks and slashes; extensions, which every caller
  fills in alike; directories below `MaxDepth` and lines of 256 characters or more,
  for which the code has arrays and no checks: what lies behind them is a matter of
  the linker.
- The content of directory entries beyond name, use, cluster and size.
- In the interrupt entry, bases and limits of segments (all flat), the slave
  controller (every line of it stays masked), system call 10 (`ps` only prints), and
  processes that end, which `Kernel` models.
- The polled transfer of a disk block, and a block torn by a power loss.
- Port access and the string library: plain instructions, modelled by what they do
  where they are used. `crt0.s` calls `main`, which never returns.
- Colours, and `maxCol` and `maxRow` (nothing depends on them).
- A real-time clock set to 12-hour mode: the bit for the afternoon would go into the
  hour as 128, but nothing in `src/` sets that mode.
- Arguments and host files of the image inserter; its effect is `Inserted`.

## 6. Plan

1. Done: every module of section 2, with its run; the proofs of section 4.
2. Next: a refinement between `Interrupts` and `Kernel`, with process creation and
   destruction on both sides.
