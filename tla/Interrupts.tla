----------------------------- MODULE Interrupts -----------------------------
(***************************************************************************)
(* The way into the kernel and out of it, register by register: the        *)
(* descriptor tables (gdt.c, idt.c), the interrupt controller, the entry   *)
(* stubs (intsetup.s), main_interrupt_handler (interrupt.c) and the switch *)
(* to another process (scheduler.c, ctx_switch.s).                         *)
(*                                                                         *)
(* A machine word is a triple whose last part names what it is; the values *)
(* of a process's registers are all different and change with each of its  *)
(* instructions, so that a register lost, stale or taken for another shows.*)
(* What the system calls do is in the modules of their components.         *)
(***************************************************************************)
EXTENDS Integers, Sequences

CONSTANTS
  PROCESS_COUNT_MAX,   \* slots of the process table
  SoftwareVectors,     \* the n of the "int n" instructions a program executes
  Exceptions           \* the exceptions its other instructions raise

\* Exceptions 21 and 29 belong to features of the processor (shadow stacks,
\* encrypted guests) that the kernel does not switch on.
ASSUME InterruptsAssumption ==
  /\ PROCESS_COUNT_MAX \in Nat \ {0}
  /\ SoftwareVectors \subseteq 0 .. 255
  /\ Exceptions \subseteq (0 .. 31) \ {21, 29}

VARIABLES
  cpu,          \* the registers
  iflag,        \* the interrupt flag
  stack,        \* the kernel's stack, its top first
  context,      \* the context of each control block
  running,      \* the RUNNING slot, or Nobody
  active_process_count,
  pic           \* the interrupt controller: requested, masked, in service

vars == <<cpu, iflag, stack, context, running, active_process_count, pic>>

Processes == 0 .. PROCESS_COUNT_MAX - 1
Kernel == -1
Nobody == -1

-----------------------------------------------------------------------------
(* Words and registers *)

Number(n) == <<n, 0, "number">>
Selector(index, rpl) == <<index, rpl, "selector">>
Code(place, n) == <<Kernel, n, place>>       \* an address in the kernel's code
Privilege(selector) == selector[2]

General == {"edi", "esi", "ebp", "esp", "ebx", "edx", "ecx", "eax"}
DataSegments == {"gs", "fs", "es", "ds"}
Registers == General \cup DataSegments \cup {"eip", "eflags"}

\* struct CPURegister, and the layouts of the structures it is the head of.
CPURegister == <<"edi", "esi", "ebp", "esp", "ebx", "edx", "ecx", "eax", "gs", "fs", "es", "ds">>
InterruptFrame == CPURegister \o <<"int_number", "error_code", "eip", "cs", "eflags">>
ContextLayout == CPURegister \o <<"eip", "eflags">>

PIC1_OFFSET == 32
IRQ_TIMER == 0
IRQ_KEYBOARD == 1
SYSCALL == 48
GENERAL_PROTECTION == 13
PAGE_FAULT == 14

\* The descriptors, by index: null, kernel code and data, user code and data, TSS.
Descriptor(type, dpl) == [type |-> type, dpl |-> dpl]

\* Mutant: the data descriptor of user programs is the kernel's.
KernelDataTwice ==
  <<Descriptor("null", 0), Descriptor("code", 0), Descriptor("data", 0),
    Descriptor("code", 3), Descriptor("data", 0), Descriptor("tss", 0)>>

global_descriptor_table ==
  <<Descriptor("null", 0), Descriptor("code", 0), Descriptor("data", 0),
    Descriptor("code", 3), Descriptor("data", 3), Descriptor("tss", 0)>>

DescriptorOf(selector) == global_descriptor_table[selector[1] + 1]

KernelCode == Selector(1, 0)
KernelData == Selector(2, 0)
UserCode == Selector(3, 3)
UserData == Selector(4, 3)

\* Mutant: user code may call every gate.
OpenGates == [v \in 0 .. 63 |-> [dpl |-> 3, masks |-> TRUE]]

\* The gates initialize_idt sets, interrupt gates all; the others are absent.
interrupt_descriptor_table ==
  [v \in 0 .. 63 |-> [dpl |-> IF v \in 48 .. 63 THEN 3 ELSE 0, masks |-> TRUE]]

\* The registers process_create_user_process prepares.
Fresh(p) ==
  [r \in Registers |->
     CASE r \in DataSegments     -> UserData
       [] r \in {"ebp", "esp"}   -> <<p, 0, "top">>
       [] r = "eip"              -> <<p, 0, "entry">>
       [] r = "eflags"           -> <<p, 0, "eflags">>
       [] OTHER                  -> Number(0)]

\* An instruction of a process: all it can change takes one of two values.
Executed(regs) ==
  [r \in Registers |->
     IF r \in DataSegments THEN regs[r]
     ELSE <<regs["eip"][1], 1 - regs["eip"][2], r>>]

-----------------------------------------------------------------------------
(* The interrupt controller *)

\* Unmasked requests that no service in progress holds back.
Deliverable ==
  IF ~iflag THEN {}
  ELSE {irq \in pic.requested \ pic.masked : \A s \in pic.serving : irq < s}

Highest(irqs) == CHOOSE irq \in irqs : \A other \in irqs : irq <= other

\* A non-specific end of interrupt.
Acknowledged(p) ==
  IF p.serving = {} THEN p ELSE [p EXCEPT !.serving = @ \ {Highest(@)}]

InKernel == Privilege(cpu["cs"]) = 0
At(place) == InKernel /\ cpu["eip"][3] = place
UserMode == ~InKernel

\* Mutant: the acknowledgement follows the switch, which does not return.
Unreached(p) == p

\* pic_ack()
pic_ack(p) == Acknowledged(p)

-----------------------------------------------------------------------------
(* Into the kernel *)

\* The flags register with the interrupt flag in it.
Flags == IF iflag THEN cpu["eflags"] ELSE <<Kernel, 0, "masked">>

\* The processor goes through gate v: to the stack of the TSS from user mode,
\* further down the same stack in the kernel.
Enter(v, error) ==
  LET inner == <<cpu["eip"], cpu["cs"], Flags>>
      outer == <<cpu["eip"], cpu["cs"], Flags, cpu["esp"], cpu["ss"]>> IN
  /\ stack' = error \o (IF UserMode THEN outer ELSE inner \o stack)
  /\ cpu' = [cpu EXCEPT !["cs"] = KernelCode,
                        !["ss"] = IF UserMode THEN KernelData ELSE @,
                        !["esp"] = <<Kernel, 0, "esp">>,
                        !["eip"] = Code("stub", v)]
  /\ iflag' = (iflag /\ ~interrupt_descriptor_table[v].masks)
  /\ UNCHANGED <<context, running, active_process_count>>

Request(irq) ==
  /\ irq \notin pic.requested
  /\ pic' = [pic EXCEPT !.requested = @ \cup {irq}]
  /\ UNCHANGED <<cpu, iflag, stack, context, running, active_process_count>>

Tick == Request(IRQ_TIMER)

\* Keys are slower than the handler of a key.
KeyPress ==
  /\ InKernel /\ ~At("kernel_setup") => cpu["eip"][2] # PIC1_OFFSET + IRQ_KEYBOARD
  /\ Request(IRQ_KEYBOARD)

\* Between two instructions, before anything else.
HardwareInterrupt ==
  /\ Deliverable # {}
  /\ LET irq == Highest(Deliverable) IN
     /\ pic' = [pic EXCEPT !.requested = @ \ {irq}, !.serving = @ \cup {irq}]
     /\ Enter(PIC1_OFFSET + irq, <<>>)

UserStep ==
  /\ UserMode /\ Deliverable = {}
  /\ cpu' = LET after == Executed([r \in Registers |-> cpu[r]])
            IN  [r \in DOMAIN cpu |-> IF r \in Registers THEN after[r] ELSE cpu[r]]
  /\ UNCHANGED <<iflag, stack, context, running, active_process_count, pic>>

Callable(v) ==
  v \in DOMAIN interrupt_descriptor_table
    /\ interrupt_descriptor_table[v].dpl >= Privilege(cpu["cs"])

SoftwareInterrupt(v) ==
  /\ UserMode /\ Deliverable = {}
  /\ IF Callable(v) THEN Enter(v, <<>>)
     ELSE Enter(GENERAL_PROTECTION, <<Number(8 * v + 2)>>)
  /\ UNCHANGED pic

\* The exceptions for which the processor pushes an error code.
ProcessorErrorCodes == {8, 10, 11, 12, 13, 14, 17, 21, 29, 30}

\* An instruction of a program raises an exception; it is executed again when
\* the handler returns.
Exception(v) ==
  /\ UserMode /\ Deliverable = {}
  /\ Enter(v, IF v \in ProcessorErrorCodes THEN <<Number(0)>> ELSE <<>>)
  /\ UNCHANGED pic

\* Mutant: the page fault has the stub of the exceptions without an error code.
PageFaultWithout == {8, 10, 11, 12, 13, 17, 30}

\* The vectors whose stub leaves the error code to the processor.
ErrorCodeVectors == {8, 10, 11, 12, 13, 14, 17, 30}

\* The registers the stub pushes, pushad's included.
PushOrder ==
  <<"ds", "es", "fs", "gs", "eax", "ecx", "edx", "ebx", "esp", "ebp", "esi", "edi">>

Position(field, layout) == CHOOSE i \in DOMAIN layout : layout[i] = field

\* call_generic_handler down to the call: from user mode the esp that pushad
\* saved, the kernel's, is replaced by the one the processor pushed.
Stub ==
  /\ At("stub") /\ Deliverable = {}
  /\ LET v     == cpu["eip"][2]
         error == IF v \in ErrorCodeVectors THEN <<>> ELSE <<Number(0)>>
         saved == [i \in 1 .. 12 |-> cpu[PushOrder[13 - i]]]
         frame == saved \o <<Number(v)>> \o error \o stack
     IN  stack' = IF Privilege(cpu["ds"]) # 0
                  THEN [frame EXCEPT ![Position("esp", CPURegister)] = frame[Len(InterruptFrame) + 1]]
                  ELSE frame
  /\ cpu' = [r \in DOMAIN cpu |->
               IF r \in DataSegments THEN KernelData
               ELSE IF r = "eip" THEN Code("main_interrupt_handler", cpu["eip"][2])
               ELSE cpu[r]]
  /\ UNCHANGED <<iflag, context, running, active_process_count, pic>>

-----------------------------------------------------------------------------
(* The handler and the switch *)

Frame(field) == stack[Position(field, InterruptFrame)]

GoTo(place) ==
  cpu' = [cpu EXCEPT !["eip"] = Code(place, cpu["eip"][2])]

\* keyboard_isr acknowledges once or twice, depending on the key.
KeyboardHandler ==
  /\ \/ pic' = pic_ack(pic)
     \/ pic' = pic_ack(pic_ack(pic))
  /\ GoTo("return")
  /\ UNCHANGED <<iflag, stack, context, running, active_process_count>>

\* Mutant: one process more than there are slots.
CreateOneMore ==
  /\ active_process_count <= PROCESS_COUNT_MAX
  /\ context' = [context EXCEPT ![active_process_count] = Fresh(active_process_count)]
  /\ active_process_count' = active_process_count + 1

\* The context of a new process and its control block.
CreateProcess ==
  /\ active_process_count < PROCESS_COUNT_MAX
  /\ context' = [context EXCEPT ![active_process_count] = Fresh(active_process_count)]
  /\ active_process_count' = active_process_count + 1

\* A system call leaves the frame alone: its results are stored through
\* pointers.  One of them may be a pointer the program's directory does not
\* map; and a file that needs more clusters than are empty is written in a
\* loop that looks for them for ever.
SyscallHandler ==
  /\ \/ /\ CreateProcess \/ UNCHANGED <<context, active_process_count>>
        /\ GoTo("return")
     \/ /\ GoTo("unmapped_access") \/ GoTo("cluster_search")
        /\ UNCHANGED <<context, active_process_count>>
  /\ UNCHANGED <<iflag, stack, running, pic>>

\* The access faults, further down the same stack; no handler maps the page, so
\* the instruction is executed again and faults again.
SyscallPageFault ==
  /\ At("unmapped_access") /\ Deliverable = {}
  /\ Enter(PAGE_FAULT, <<Number(0)>>)
  /\ UNCHANGED pic

\* Round and round, with nothing changed.
ClusterSearch ==
  /\ At("cluster_search") /\ Deliverable = {}
  /\ UNCHANGED vars

\* The next READY slot in cyclic order: while no process ends, all are READY.
NextProcess ==
  LET cur == IF running = Nobody THEN 0 ELSE running
  IN  IF cur + 1 < active_process_count THEN cur + 1 ELSE 0

\* The context is saved, the interrupt acknowledged, the next process chosen;
\* no process is RUNNING while the kernel still boots.
TimerHandler ==
  /\ context' =
       IF running = Nobody THEN context
       ELSE [context EXCEPT ![running] = [r \in Registers |-> Frame(r)]]
  /\ pic' = pic_ack(pic)
  /\ running' = NextProcess
  /\ GoTo("process_context_switch")
  /\ UNCHANGED <<iflag, stack, active_process_count>>

\* Any other vector: main_interrupt_handler has no case for it.
NoHandler ==
  /\ GoTo("return")
  /\ UNCHANGED <<iflag, stack, context, running, active_process_count, pic>>

main_interrupt_handler ==
  /\ At("main_interrupt_handler") /\ Deliverable = {}
  /\ CASE Frame("int_number") = Number(PIC1_OFFSET + IRQ_KEYBOARD) -> KeyboardHandler
       [] Frame("int_number") = Number(SYSCALL)                    -> SyscallHandler
       [] Frame("int_number") = Number(PIC1_OFFSET + IRQ_TIMER)    -> TimerHandler
       [] OTHER                                                    -> NoHandler

\* iret: a return to user mode takes its stack from the frame as well.
Iret(regs, frame) ==
  LET outer == Privilege(frame[2]) > Privilege(regs["cs"]) IN
  /\ cpu' = [regs EXCEPT !["eip"] = frame[1], !["cs"] = frame[2], !["eflags"] = frame[3],
                         !["esp"] = IF outer THEN frame[4] ELSE @,
                         !["ss"] = IF outer THEN frame[5] ELSE @]
  /\ iflag' = (frame[3][3] = "eflags")
  /\ stack' = IF outer THEN <<>> ELSE SubSeq(frame, 4, Len(frame))

\* The registers the stub pops, popad's included: popad skips the saved esp.
PopOrder ==
  <<"edi", "esi", "ebp", "skipped", "ebx", "edx", "ecx", "eax", "gs", "fs", "es", "ds">>

\* call_generic_handler after the call.
Return ==
  /\ At("return") /\ Deliverable = {}
  /\ LET popped == {PopOrder[i] : i \in DOMAIN PopOrder}
         regs   == [r \in DOMAIN cpu |->
                      IF r \in popped THEN stack[Position(r, PopOrder)] ELSE cpu[r]]
     IN  Iret(regs, SubSeq(stack, Len(PopOrder) + 3, Len(stack)))
  /\ UNCHANGED <<context, running, active_process_count, pic>>

\* Mutant: ecx, the base of the loads, takes its own value among the others.
LoadsInOrderOfLayout ==
  <<<<"edi", 0>>, <<"esi", 4>>, <<"ebp", 8>>, <<"ebx", 16>>, <<"edx", 20>>, <<"ecx", 24>>,
    <<"eax", 28>>, <<"gs", 32>>, <<"fs", 36>>, <<"es", 40>>, <<"ds", 44>>>>

\* The loads of process_context_switch, with their offsets from ecx.
Loads ==
  <<<<"edi", 0>>, <<"esi", 4>>, <<"ebp", 8>>, <<"ebx", 16>>, <<"edx", 20>>, <<"eax", 28>>,
    <<"gs", 32>>, <<"fs", 36>>, <<"es", 40>>, <<"ds", 44>>, <<"ecx", 24>>>>

\* What [ecx + offset] holds while ecx points to the context.
FieldAt(ctx, offset) == ctx[ContextLayout[offset \div 4 + 1]]

\* What load number i brings: once ecx has been loaded, nothing of the context.
Loaded(ctx, i) ==
  IF \E j \in 1 .. i - 1 : Loads[j][1] = "ecx"
  THEN Code("elsewhere", 0) ELSE FieldAt(ctx, Loads[i][2])

\* process_context_switch(): the stack is prepared for iret, then the registers are loaded.
ContextSwitch ==
  /\ At("process_context_switch") /\ Deliverable = {}
  /\ LET ctx   == context[running]
         frame == <<FieldAt(ctx, 48), UserCode, FieldAt(ctx, 52), FieldAt(ctx, 12), UserData>>
         regs  == [r \in DOMAIN cpu |->
                     IF \E i \in DOMAIN Loads : Loads[i][1] = r
                     THEN Loaded(ctx, CHOOSE i \in DOMAIN Loads : Loads[i][1] = r)
                     ELSE cpu[r]]
     IN  Iret(regs, frame)
  /\ UNCHANGED <<context, running, active_process_count, pic>>

-----------------------------------------------------------------------------
(* kernel_setup *)

Call(n) == InKernel /\ cpu["eip"] = Code("kernel_setup", n) /\ Deliverable = {}
NextCall == [cpu EXCEPT !["eip"] = Code("kernel_setup", cpu["eip"][2] + 1)]

\* load_gdt(): cli, and the kernel's selectors; fs and gs keep the boot loader's.
LoadGDT ==
  /\ Call(0)
  /\ cpu' = [NextCall EXCEPT !["cs"] = KernelCode, !["ss"] = KernelData,
                             !["ds"] = KernelData, !["es"] = KernelData]
  /\ iflag' = FALSE
  /\ UNCHANGED <<stack, context, running, active_process_count, pic>>

pic_remap ==
  /\ Call(1)
  /\ pic' = [requested |-> {}, masked |-> {IRQ_TIMER, IRQ_KEYBOARD}, serving |-> {}]
  /\ cpu' = NextCall
  /\ UNCHANGED <<iflag, stack, context, running, active_process_count>>

\* initialize_idt() ends with sti.
initialize_idt ==
  /\ Call(2)
  /\ cpu' = NextCall /\ iflag' = TRUE
  /\ UNCHANGED <<stack, context, running, active_process_count, pic>>

activate_keyboard_interrupt ==
  /\ Call(3)
  /\ pic' = [pic EXCEPT !.masked = @ \ {IRQ_KEYBOARD}]
  /\ cpu' = NextCall
  /\ UNCHANGED <<iflag, stack, context, running, active_process_count>>

\* The file system and the TSS are set up, and the shell's process created.
CreateShell ==
  /\ Call(4)
  /\ CreateProcess
  /\ cpu' = NextCall
  /\ UNCHANGED <<iflag, stack, running, pic>>

\* scheduler_init(): activate_timer_interrupt() starts with cli.
scheduler_init ==
  /\ Call(5)
  /\ pic' = [pic EXCEPT !.masked = @ \ {IRQ_TIMER}]
  /\ cpu' = NextCall /\ iflag' = FALSE
  /\ UNCHANGED <<stack, context, running, active_process_count>>

\* scheduler_switch_to_next_process() with no process RUNNING.
StartScheduler ==
  /\ Call(6)
  /\ running' = NextProcess
  /\ GoTo("process_context_switch")
  /\ UNCHANGED <<iflag, stack, context, active_process_count, pic>>

kernel_setup ==
  \/ LoadGDT \/ pic_remap \/ initialize_idt \/ activate_keyboard_interrupt
  \/ CreateShell \/ scheduler_init \/ StartScheduler

\* The boot loader enters the kernel with interrupts off and flat segments.
InterruptsInit ==
  /\ cpu = [r \in General \cup DataSegments \cup {"ss", "cs", "eip", "eflags"} |->
              CASE r = "cs"                    -> KernelCode
                [] r \in DataSegments \cup {"ss"} -> KernelData
                [] r = "eip"                   -> Code("kernel_setup", 0)
                [] r = "eflags"                -> Code("eflags", 0)
                [] OTHER                       -> Code(r, 0)]
  /\ iflag = FALSE
  /\ stack = <<>>
  /\ context = [p \in Processes |-> [r \in Registers |-> Number(0)]]
  /\ running = Nobody
  /\ active_process_count = 0
  /\ pic = [requested |-> {}, masked |-> {}, serving |-> {}]

KernelStep ==
  \/ Stub \/ main_interrupt_handler \/ Return \/ ContextSwitch \/ kernel_setup
  \/ SyscallPageFault \/ ClusterSearch

Program ==
  \/ UserStep
  \/ \E v \in SoftwareVectors : SoftwareInterrupt(v)
  \/ \E v \in Exceptions : Exception(v)

InterruptsNext == Tick \/ KeyPress \/ HardwareInterrupt \/ Program \/ KernelStep

(***************************************************************************)
(* The processor never rests in the kernel (a call that does not return    *)
(* keeps it busy), takes a request before its next instruction, and the    *)
(* timer ticks on.  Boot is longer than one key is from the next: it goes  *)
(* on between them.                                                        *)
(***************************************************************************)
InterruptsFairness ==
  /\ WF_vars(KernelStep)
  /\ SF_vars(kernel_setup)
  /\ WF_vars(HardwareInterrupt)
  /\ WF_vars(Tick)

InterruptsSpec == InterruptsInit /\ [][InterruptsNext]_vars /\ InterruptsFairness

-----------------------------------------------------------------------------
(* Properties *)

Places == {"kernel_setup", "stub", "main_interrupt_handler", "return", "process_context_switch",
           "unmapped_access", "cluster_search"}
Names == Registers \cup Places \cup {"number", "selector", "entry", "top", "elsewhere", "masked"}
Words == Int \X Nat \X Names

InterruptsTypeOK ==
  /\ cpu \in [General \cup DataSegments \cup {"ss", "cs", "eip", "eflags"} -> Words]
  /\ iflag \in BOOLEAN
  /\ stack \in Seq(Words)
  /\ context \in [Processes -> [Registers -> Words]]
  /\ running \in Processes \cup {Nobody}
  /\ active_process_count \in 0 .. PROCESS_COUNT_MAX
  /\ \A part \in DOMAIN pic : pic[part] \subseteq {IRQ_TIMER, IRQ_KEYBOARD}

(***************************************************************************)
(* Whatever the vector, the C handler finds the frame it is compiled for,  *)
(* and nothing else on a stack that begins at the TSS's esp0, unless it is *)
(* called for a page fault of a system call, whose frame is then next: no  *)
(* other entry interrupts one, and every return takes off what its entry   *)
(* put on, with and without an error code, from user mode, from            *)
(* kernel_setup and from a system call (intsetup.s:5-130,                  *)
(* interrupt.h:135-139, idt.c:52-56).                                      *)
(***************************************************************************)
OneFrame ==
  LET inner == Len(InterruptFrame)
      outer == inner + 2 IN
  /\ At("kernel_setup") => stack = <<>>
  /\ At("unmapped_access") =>
       Frame("int_number") = Number(SYSCALL) /\ Len(stack) = outer
  /\ At("main_interrupt_handler") \/ At("return") =>
       /\ ~iflag
       /\ Frame("int_number")[3] = "number"
       /\ \/ Frame("cs") = UserCode /\ Len(stack) = outer
          \/ Frame("cs") = KernelCode /\ running = Nobody /\ Len(stack) = inner
          \/ /\ Frame("cs") = KernelCode /\ Frame("int_number") = Number(PAGE_FAULT)
             /\ Len(stack) = inner + outer
             /\ stack[inner + Position("int_number", InterruptFrame)] = Number(SYSCALL)

(***************************************************************************)
(* User code runs with user selectors in all segment registers, the C code *)
(* of the kernel with the kernel's, and every selector names a descriptor  *)
(* that may be loaded there (gdt.c:8-106, intsetup.s:48-53, ctx_switch.s). *)
(***************************************************************************)
SelectorsFit ==
  LET level == Privilege(cpu["cs"]) IN
  /\ DescriptorOf(cpu["cs"]) = Descriptor("code", level)
  /\ DescriptorOf(cpu["ss"]) = Descriptor("data", level)
  /\ UserMode \/ At("main_interrupt_handler") =>
       \A r \in DataSegments : DescriptorOf(cpu[r]) = Descriptor("data", level)

(***************************************************************************)
(* The handler of a device runs for a request of the device, and never for *)
(* an instruction of a program; the one end of interrupt (or two, for some *)
(* keys: keyboard.c:194-196) is for that request, and none is left open    *)
(* when a program goes on (idt.c:26-32, interrupt.c:206-231).              *)
(***************************************************************************)
ServedOnRequest ==
  /\ \A irq \in {IRQ_TIMER, IRQ_KEYBOARD} :
       At("main_interrupt_handler") /\ Frame("int_number") = Number(PIC1_OFFSET + irq)
         => pic.serving = {irq}
  /\ UserMode => pic.serving = {}

Created == 0 .. active_process_count - 1

(***************************************************************************)
(* The registers of process p: in the processor, in the frame of the entry *)
(* in progress, which is the outermost one, or in the control block.       *)
(***************************************************************************)
Pushing == At("stub") /\ Len(stack) < Len(InterruptFrame)

RegisterFile(p) ==
  CASE p \notin Created -> Fresh(p)
    [] p \in Created /\ (p # running \/ At("process_context_switch")) -> context[p]
    [] p \in Created /\ p = running /\ UserMode -> [r \in Registers |-> cpu[r]]
    [] p \in Created /\ p = running /\ Pushing ->
         LET pushed == SubSeq(stack, Len(stack) - 4, Len(stack)) IN
         [r \in Registers |->
            CASE r = "eip" -> pushed[1] [] r = "eflags" -> pushed[3] [] r = "esp" -> pushed[4]
              [] OTHER -> cpu[r]]
    [] OTHER ->
         LET outermost == Len(stack) - (Len(InterruptFrame) + 2) IN
         [r \in Registers |-> stack[outermost + Position(r, InterruptFrame)]]

Abstract ==
  INSTANCE Processors WITH
    file <- [p \in Processes |-> RegisterFile(p)], alive <- Created, current <- running

(***************************************************************************)
(* A process sees no interrupt, no system call and no other process in its *)
(* registers: between two of its instructions they stay as they are, across*)
(* the stubs, the frame, the control block and the switch.                 *)
(***************************************************************************)
OwnProcessor == Abstract!Spec

(***************************************************************************)
(* Every process gets the processor again and again, however often keys    *)
(* are pressed, until a system call does not return: each interrupt is     *)
(* acknowledged, and each return enables the next (interrupt.c:224-226).   *)
(* A call given an unmapped pointer (interrupt.c:86, 111, 121), or one that *)
(* writes a file too large for the disk (fat32.c:317), keeps the processor *)
(* for ever, with interrupts off; nothing else does.                       *)
(***************************************************************************)
NeverReturns == At("unmapped_access") \/ At("cluster_search")

EveryProcessRuns ==
  \A p \in Processes :
    p \in Created ~> ((UserMode /\ running = p) \/ NeverReturns)
=============================================================================
