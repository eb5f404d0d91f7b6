-------------------------- MODULE InterruptsProofs --------------------------
(***************************************************************************)
(* The invariants of module Interrupts by the place the kernel is at, and  *)
(* the proof that entry, switch and return give every process a processor  *)
(* of its own.  InterruptsInv is the inductive invariant.                  *)
(***************************************************************************)
EXTENDS Interrupts, SequenceTheorems, TLAPS

AllRegisters == General \cup DataSegments \cup {"ss", "cs", "eip", "eflags"}
Lines == {IRQ_TIMER, IRQ_KEYBOARD}

Typed ==
  /\ cpu \in [AllRegisters -> Words]
  /\ iflag \in BOOLEAN
  /\ stack \in Seq(Words)
  /\ context \in [Processes -> [Registers -> Words]]
  /\ running \in Processes \cup {Nobody}
  /\ active_process_count \in 0 .. PROCESS_COUNT_MAX
  /\ pic \in [requested : SUBSET Lines, masked : SUBSET Lines, serving : SUBSET Lines]

\* The registers of a process, wherever they are kept.
UserFile(f) ==
  /\ \A r \in Registers : f[r] \in Words
  /\ \A r \in DataSegments : f[r] = UserData
  /\ f["eip"][2] \in {0, 1}
  /\ f["eflags"][3] = "eflags"

\* What n calls of kernel_setup have prepared.
SetupDone(n) ==
  /\ active_process_count = IF n >= 5 THEN 1 ELSE 0
  /\ n \in {2, 3} => pic.masked = Lines
  /\ n \in {4, 5} => pic.masked = {IRQ_TIMER}
  /\ n = 6 => pic.masked = {}

Selectors ==
  \/ cpu["cs"] = KernelCode /\ cpu["ss"] = KernelData
  \/ cpu["cs"] = UserCode /\ cpu["ss"] = UserData

SegmentsAre(selector) == \A r \in DataSegments : cpu[r] = selector

\* From the first switch on some process is RUNNING.
Started ==
  running # Nobody =>
    /\ running < active_process_count
    /\ pic.masked = {}

Contexts ==
  \A p \in Processes : p < active_process_count => UserFile(context[p])

InUser ==
  UserMode =>
    /\ running # Nobody
    /\ stack = <<>>
    /\ iflag
    /\ UserFile(cpu)
    /\ pic.serving = {}

InSetup ==
  At("kernel_setup") =>
    /\ running = Nobody
    /\ stack = <<>>
    /\ cpu["eip"] = Code("kernel_setup", cpu["eip"][2])
    /\ cpu["eip"][2] \in 0 .. 6
    /\ cpu["eflags"][3] = "eflags"
    /\ SegmentsAre(KernelData)
    /\ iflag <=> cpu["eip"][2] \in 3 .. 5
    /\ SetupDone(cpu["eip"][2])
    /\ pic.serving = {}

\* The part of eip that tells the gate the kernel was entered by.
Vector == cpu["eip"][2]

\* The request the controller waits for is the one of the vector.
ServesVector == pic.serving = {irq \in Lines : cpu["eip"][2] = PIC1_OFFSET + irq}

ErrorCodes(v) == IF v \in ErrorCodeVectors THEN 1 ELSE 0

\* A frame lies above that of the system call that faulted.
Nested == Len(stack) > 19

InStub ==
  At("stub") /\ ~Nested =>
    /\ ~iflag
    /\ cpu["eip"] = Code("stub", cpu["eip"][2])
    /\ cpu["eip"][2] \in 0 .. 63
    /\ ServesVector
    /\ running # Nobody =>
         LET e == ErrorCodes(cpu["eip"][2]) IN
         /\ Len(stack) = e + 5
         /\ stack[e + 2] = UserCode
         /\ stack[e + 5] = UserData
         /\ stack[e + 1][2] \in {0, 1}
         /\ stack[e + 3][3] = "eflags"
         /\ SegmentsAre(UserData)
    /\ running = Nobody =>
         /\ cpu["eip"][2] = PIC1_OFFSET + IRQ_KEYBOARD
         /\ Len(stack) = 3
         /\ stack[1] = Code("kernel_setup", stack[1][2])
         /\ stack[1][2] \in {4, 5}
         /\ stack[2] = KernelCode
         /\ stack[3][3] = "eflags"
         /\ SetupDone(stack[1][2])
         /\ SegmentsAre(KernelData)

InHandler ==
  (At("main_interrupt_handler") \/ At("return")) /\ ~Nested =>
    /\ ~iflag
    /\ cpu["eip"][1] = Kernel
    /\ cpu["eip"][2] \in 0 .. 63
    /\ At("main_interrupt_handler") => ServesVector
    /\ At("return") => pic.serving = {}
    /\ SegmentsAre(KernelData)
    /\ stack[13] = Number(cpu["eip"][2])
    /\ running # Nobody =>
         /\ Len(stack) = 19
         /\ stack[16] = UserCode
         /\ stack[19] = UserData
         /\ stack[4] = stack[18]
         /\ \A i \in 9 .. 12 : stack[i] = UserData
         /\ stack[15][2] \in {0, 1}
         /\ stack[17][3] = "eflags"
    /\ running = Nobody =>
         /\ cpu["eip"][2] = PIC1_OFFSET + IRQ_KEYBOARD
         /\ Len(stack) = 17
         /\ \A i \in 9 .. 12 : stack[i] = KernelData
         /\ stack[15] = Code("kernel_setup", stack[15][2])
         /\ stack[15][2] \in {4, 5}
         /\ stack[16] = KernelCode
         /\ stack[17][3] = "eflags"
         /\ SetupDone(stack[15][2])

\* Nothing but the system call's own process waits for a call that does not return.
Stuck ==
  /\ ~iflag
  /\ running # Nobody
  /\ pic.serving = {}
  /\ SegmentsAre(KernelData)

InCall ==
  At("unmapped_access") \/ At("cluster_search") =>
    /\ Stuck
    /\ At("unmapped_access") => cpu["eip"] = Code("unmapped_access", SYSCALL)
    /\ Len(stack) = 19
    /\ stack[13] = Number(SYSCALL)

\* d words of the page fault's frame lie above the system call's.
FaultAbove(d) ==
  /\ Len(stack) = d + 19
  /\ stack[d - 2] = Code("unmapped_access", SYSCALL)
  /\ stack[d - 1] = KernelCode
  /\ stack[d][3] = "masked"
  /\ stack[d + 13] = Number(SYSCALL)

InNested ==
  Nested =>
    /\ Stuck
    /\ InKernel
    /\ Vector = PAGE_FAULT
    /\ cpu["eip"][1] = Kernel
    /\ At("stub") \/ At("main_interrupt_handler") \/ At("return")
    /\ At("stub") => FaultAbove(4)
    /\ ~At("stub") =>
         /\ FaultAbove(17)
         /\ stack[13] = Number(PAGE_FAULT)
         /\ \A i \in 9 .. 12 : stack[i] = KernelData

InSwitch ==
  At("process_context_switch") =>
    /\ ~iflag
    /\ running # Nobody
    /\ pic.serving = {}

SomePlace ==
  InKernel => cpu["eip"][3] \in Places

InterruptsInv ==
  /\ Typed
  /\ Selectors
  /\ Started
  /\ Contexts
  /\ SomePlace
  /\ InUser
  /\ InSetup
  /\ InStub
  /\ InHandler
  /\ InSwitch
  /\ InCall
  /\ InNested

-----------------------------------------------------------------------------
(* Sequences *)

LEMMA SeqFacts ==
  ASSUME NEW s \in Seq(Words)
  PROVE  Len(s) \in Nat /\ \A i \in 1 .. Len(s) : s[i] \in Words
<1>1. Len(s) \in Nat /\ s \in [1 .. Len(s) -> Words]
  BY LenProperties
<1> QED
  BY <1>1

\* r is s followed by t.
Joined(s, t, r) ==
  /\ r \in Seq(Words)
  /\ Len(r) = Len(s) + Len(t)
  /\ \A i \in 1 .. Len(s) : r[i] = s[i]
  /\ \A i \in 1 .. Len(t) : r[Len(s) + i] = t[i]

LEMMA ConcatFacts ==
  ASSUME NEW s \in Seq(Words), NEW t \in Seq(Words), NEW r, r = s \o t
  PROVE  Joined(s, t, r)
<1>1. Len(s) \in Nat /\ Len(t) \in Nat
  BY LenProperties
<1>2. r \in Seq(Words) /\ Len(r) = Len(s) + Len(t)
  BY ConcatProperties, Zenon
<1>3. ASSUME NEW i \in 1 .. Len(s)
      PROVE  r[i] = s[i]
  <2>1. i \in 1 .. Len(s) + Len(t) /\ i <= Len(s)
    BY <1>1
  <2> QED
    BY <2>1, ConcatProperties, Zenon
<1>4. ASSUME NEW i \in 1 .. Len(t)
      PROVE  r[Len(s) + i] = t[i]
  <2>1. PICK k : k = Len(s) + i
    OBVIOUS
  <2>2. k \in 1 .. Len(s) + Len(t) /\ ~(k <= Len(s)) /\ k - Len(s) = i
    BY <1>1, <2>1
  <2>3. (s \o t)[k] = t[k - Len(s)]
    BY <2>2, ConcatProperties, Zenon
  <2> QED
    BY <2>1, <2>2, <2>3, Zenon
<1> QED
  BY <1>2, <1>3, <1>4, Zenon DEF Joined

LEMMA SubSeqFacts ==
  ASSUME NEW s \in Seq(Words), NEW m \in 1 .. Len(s) + 1, NEW r, r = SubSeq(s, m, Len(s))
  PROVE  /\ r \in Seq(Words)
         /\ Len(r) = Len(s) - m + 1
         /\ \A i \in 1 .. Len(s) - m + 1 : r[i] = s[m + i - 1]
<1>1. Len(s) \in Nat /\ \A i \in 1 .. Len(s) : s[i] \in Words
  BY SeqFacts
<1>2. m \in Int /\ Len(s) \in Int /\ \A i \in m .. Len(s) : s[i] \in Words
  BY <1>1
<1>3. /\ r \in Seq(Words)
      /\ Len(r) = IF m <= Len(s) THEN Len(s) - m + 1 ELSE 0
      /\ \A i \in 1 .. Len(s) - m + 1 : r[i] = s[m + i - 1]
  <2>1. PICK n : n = Len(s)
    OBVIOUS
  <2>2. m \in Int /\ n \in Int /\ \A i \in m .. n : s[i] \in Words
    BY <1>2, <2>1, Zenon
  <2>3. /\ SubSeq(s, m, n) \in Seq(Words)
        /\ Len(SubSeq(s, m, n)) = IF m <= n THEN n - m + 1 ELSE 0
        /\ \A i \in 1 .. n - m + 1 : SubSeq(s, m, n)[i] = s[m + i - 1]
    BY <2>2, SubSeqProperties
  <2> QED
    BY <2>1, <2>3, Zenon
<1>4. Len(r) = Len(s) - m + 1
  <2>1. Len(r) = IF m <= Len(s) THEN Len(s) - m + 1 ELSE 0
    BY <1>3
  <2> QED
    BY <1>1, <2>1
<1> QED
  BY <1>3, <1>4, Zenon

LEMMA TupleIsSequence ==
  ASSUME NEW n \in Nat, NEW s \in [1 .. n -> Words]
  PROVE  s \in Seq(Words) /\ Len(s) = n
<1>1. s \in Seq(Words)
  OBVIOUS
<1>2. Len(s) = n
  OBVIOUS
<1> QED
  BY <1>1, <1>2, Zenon

\* t is s with e in place k.
Replaced(s, k, e, t) ==
  /\ t \in Seq(Words) /\ Len(t) = Len(s)
  /\ t[k] = e
  /\ \A i \in 1 .. Len(s) : i # k => t[i] = s[i]

LEMMA ReplacedFacts ==
  ASSUME NEW s \in Seq(Words), NEW k \in 1 .. Len(s), NEW e \in Words,
         NEW t, t = [s EXCEPT ![k] = e]
  PROVE  Replaced(s, k, e, t)
<1>1. t \in Seq(Words) /\ Len(t) = Len(s)
  <2>1. [s EXCEPT ![k] = e] \in Seq(Words) /\ Len([s EXCEPT ![k] = e]) = Len(s)
    BY ExceptSeq
  <2> QED
    BY <2>1, Zenon
<1>2. s \in [1 .. Len(s) -> Words]
  BY LenProperties
<1>3. DOMAIN s = 1 .. Len(s)
  BY LenProperties
<1>4. t[k] = e /\ \A i \in 1 .. Len(s) : i # k => t[i] = s[i]
  BY <1>3, Zenon
<1> QED
  BY <1>1, <1>4, Zenon DEF Replaced

LEMMA EmptyFacts ==
  ASSUME NEW s \in Seq(Words), Len(s) = 0
  PROVE  s = <<>>
BY EmptySeq, Zenon

-----------------------------------------------------------------------------
(* Words, registers and places *)

LEMMA SelectorFacts ==
  /\ KernelCode \in Words /\ KernelData \in Words
  /\ UserCode \in Words /\ UserData \in Words
  /\ Privilege(KernelCode) = 0 /\ Privilege(KernelData) = 0
  /\ Privilege(UserCode) = 3 /\ Privilege(UserData) = 3
  /\ KernelCode # UserCode /\ KernelData # UserData
BY DEF Words, Names, KernelCode, KernelData, UserCode, UserData, Selector, Privilege

LEMMA NumberFacts ==
  /\ \A n \in Nat : Number(n) \in Words /\ Number(n)[3] = "number"
  /\ \A m, n \in Nat : Number(m) = Number(n) => m = n
BY DEF Words, Names, Number

LEMMA CodeFacts ==
  \A place \in Places, n \in Nat :
    /\ Code(place, n) \in Words
    /\ Code(place, n)[1] = Kernel
    /\ Code(place, n)[2] = n
    /\ Code(place, n)[3] = place
BY DEF Words, Names, Code, Kernel

LEMMA WordFacts ==
  ASSUME NEW w \in Words
  PROVE  w = <<w[1], w[2], w[3]>> /\ w[1] \in Int /\ w[2] \in Nat /\ w[3] \in Names
BY DEF Words

LEMMA RegisterFacts ==
  /\ Registers \subseteq AllRegisters
  /\ DataSegments \subseteq Registers
  /\ General \subseteq Registers
  /\ "eip" \in Registers /\ "eflags" \in Registers /\ "esp" \in General
  /\ "cs" \in AllRegisters /\ "ss" \in AllRegisters
  /\ "cs" \notin Registers /\ "ss" \notin Registers
  /\ "eip" \notin DataSegments /\ "eflags" \notin DataSegments
  /\ "esp" \notin DataSegments
  /\ AllRegisters = Registers \cup {"ss", "cs"}
BY DEF Registers, AllRegisters, DataSegments, General

\* The registers that are popped, or loaded, one by one.
Plain == Registers \ {"eip", "eflags", "esp"}

LEMMA PlainFacts ==
  /\ AllRegisters = Plain \cup {"eip", "eflags", "esp", "cs", "ss"}
  /\ DataSegments \subseteq Plain
  /\ Registers = Plain \cup {"eip", "eflags", "esp"}
  /\ "cs" \notin Plain /\ "ss" \notin Plain
  /\ "eip" \notin Plain /\ "eflags" \notin Plain /\ "esp" \notin Plain
BY DEF Plain, Registers, AllRegisters, General, DataSegments

\* The privilege level is that of the code selector.
LEMMA ModeFacts ==
  ASSUME Selectors
  PROVE  /\ InKernel <=> cpu["cs"] = KernelCode
         /\ UserMode <=> cpu["cs"] = UserCode
         /\ InKernel => cpu["ss"] = KernelData
         /\ UserMode => cpu["ss"] = UserData
         /\ UserMode <=> ~InKernel
BY SelectorFacts DEF Selectors, InKernel, UserMode

\* What a step into the kernel, or within it, has to show.
LEMMA KernelPlace ==
  ASSUME NEW place \in Places, Typed', Started', Contexts',
         cpu'["cs"] = KernelCode, cpu'["ss"] = KernelData, cpu'["eip"][3] = place,
         place = "kernel_setup" => InSetup',
         place = "stub" => InStub',
         place \in {"main_interrupt_handler", "return"} => InHandler',
         place = "process_context_switch" => InSwitch',
         place \in {"unmapped_access", "cluster_search"} => InCall',
         InNested'
  PROVE  InterruptsInv'
<1>1. Selectors' /\ InKernel' /\ ~UserMode'
  BY SelectorFacts DEF Selectors, InKernel, UserMode
<1>2. InUser' /\ SomePlace'
  BY <1>1 DEF InUser, SomePlace
<1>3. \A p : At(p)' <=> p = place
  BY <1>1 DEF At
<1>4. InSetup' /\ InStub'
  BY <1>3 DEF InSetup, InStub
<1>5. InHandler' /\ InSwitch' /\ InCall'
  BY <1>3 DEF InHandler, InSwitch, InCall
<1> QED
  BY <1>1, <1>2, <1>4, <1>5 DEF InterruptsInv

\* A short stack has no frame above another.
LEMMA ShortStack ==
  ASSUME NEW n \in 0 .. 19, Len(stack)' = n
  PROVE  InNested' /\ ~Nested'
BY DEF InNested, Nested

\* What a step to a program, or of a program, has to show.
LEMMA UserPlace ==
  ASSUME Typed', Started', Contexts',
         cpu'["cs"] = UserCode, cpu'["ss"] = UserData, InUser'
  PROVE  InterruptsInv'
<1>1. Selectors' /\ ~InKernel'
  BY SelectorFacts DEF Selectors, InKernel
<1>2. SomePlace' /\ \A p : ~At(p)'
  BY <1>1 DEF SomePlace, At
<1>3. InNested'
  <2>1. stack' = <<>>
    BY SelectorFacts DEF InUser, UserMode, InKernel
  <2>2. Len(stack)' = 0
    BY <2>1
  <2> QED
    BY <2>2, ShortStack
<1> QED
  BY <1>1, <1>2, <1>3 DEF InterruptsInv, InSetup, InStub, InHandler, InSwitch, InCall

LEMMA InitInv == InterruptsInit => InterruptsInv
<1> SUFFICES ASSUME InterruptsInit
             PROVE  InterruptsInv
  OBVIOUS
<1> USE DEF InterruptsInit
<1>1. /\ cpu["cs"] = KernelCode /\ cpu["ss"] = KernelData
      /\ cpu["eip"] = Code("kernel_setup", 0)
      /\ cpu["eflags"] = Code("eflags", 0)
      /\ \A r \in DataSegments : cpu[r] = KernelData
      /\ \A r \in General : cpu[r] = Code(r, 0)
  BY DEF General, DataSegments
<1>2. \A r \in General \cup {"eflags"} : Code(r, 0) \in Words
  BY DEF Code, Words, Names, Registers, Kernel
<1>3. Code("kernel_setup", 0) \in Words
  BY CodeFacts DEF Places
<1>4. \A r \in AllRegisters : cpu[r] \in Words
  BY <1>1, <1>2, <1>3, SelectorFacts DEF AllRegisters
<1>5. cpu \in [AllRegisters -> Words]
  <2>1. cpu = [r \in AllRegisters |-> cpu[r]]
    BY DEF AllRegisters
  <2> QED
    BY <1>4, <2>1
<1>6. Typed
  <2>1. context \in [Processes -> [Registers -> Words]]
    BY NumberFacts
  <2>2. iflag \in BOOLEAN
    OBVIOUS
  <2>3. stack \in Seq(Words)
    OBVIOUS
  <2>4. /\ running \in Processes \cup {Nobody}
        /\ active_process_count \in 0 .. PROCESS_COUNT_MAX
        /\ pic \in [requested : SUBSET Lines, masked : SUBSET Lines, serving : SUBSET Lines]
    BY InterruptsAssumption
  <2> QED
    BY <1>5, <2>1, <2>2, <2>3, <2>4 DEF Typed
<1>7. Selectors /\ InKernel /\ ~UserMode
  BY <1>1, SelectorFacts DEF Selectors, InKernel, UserMode
<1>8. cpu["eip"][3] = "kernel_setup" /\ cpu["eip"][2] = 0 /\ cpu["eflags"][3] = "eflags"
  BY <1>1 DEF Code
<1>9. InSetup
  BY <1>1, <1>8 DEF InSetup, SegmentsAre, SetupDone
<1>10. Started /\ InUser /\ SomePlace
  BY <1>7, <1>8 DEF Started, InUser, SomePlace, Places
<1>11. Contexts
  BY DEF Contexts, Processes
<1>12. InStub /\ InHandler /\ InSwitch /\ InCall
  BY <1>8 DEF InStub, InHandler, InSwitch, InCall, At
<1>13. InNested
  <2>1. Len(stack) = 0
    OBVIOUS
  <2> QED
    BY <2>1 DEF InNested, Nested
<1> QED
  BY <1>6, <1>7, <1>9, <1>10, <1>11, <1>12, <1>13 DEF InterruptsInv

(***************************************************************************)
(* A device may make its request at any time: nothing but the controller   *)
(* notices.                                                                *)
(***************************************************************************)
LEMMA RequestInv ==
  ASSUME InterruptsInv, NEW irq \in Lines, Request(irq)
  PROVE  InterruptsInv'
<1> USE DEF Request
<1>1. pic \in [requested : SUBSET Lines, masked : SUBSET Lines, serving : SUBSET Lines]
  BY DEF InterruptsInv, Typed
<1>2. /\ pic'.masked = pic.masked /\ pic'.serving = pic.serving
      /\ pic' \in [requested : SUBSET Lines, masked : SUBSET Lines, serving : SUBSET Lines]
  BY <1>1
<1>3. Typed'
  BY <1>2 DEF InterruptsInv, Typed
<1>4. Selectors' /\ Contexts' /\ SomePlace'
  BY DEF InterruptsInv, Selectors, Contexts, SomePlace, InKernel
<1>5. Started'
  BY <1>2 DEF InterruptsInv, Started
<1>6. InUser' /\ InSwitch'
  BY <1>2 DEF InterruptsInv, InUser, InSwitch, UserMode, InKernel, At
<1>7. InSetup'
  BY <1>2 DEF InterruptsInv, InSetup, SegmentsAre, SetupDone, At, InKernel
<1>8. InStub'
  BY <1>2 DEF InterruptsInv, InStub, ServesVector, SegmentsAre, SetupDone, At, InKernel, Nested
<1>9. InHandler'
  BY <1>2 DEF InterruptsInv, InHandler, ServesVector, SegmentsAre, SetupDone, At, InKernel, Nested
<1>10. InCall' /\ InNested'
  BY <1>2 DEF InterruptsInv, InCall, InNested, Nested, Stuck, FaultAbove, SegmentsAre, At, InKernel,
              Vector
<1> QED
  BY <1>3, <1>4, <1>5, <1>6, <1>7, <1>8, <1>9, <1>10 DEF InterruptsInv

(***************************************************************************)
(* An instruction of a program keeps what the entry and the switch rely on.*)
(***************************************************************************)
LEMMA ExecutedFile ==
  ASSUME NEW f, UserFile(f)
  PROVE  UserFile(Executed(f))
<1>1. /\ f["eip"] \in Words
      /\ f["eip"][1] \in Int
      /\ f["eip"][2] \in {0, 1}
      /\ 1 - f["eip"][2] \in {0, 1}
  BY WordFacts, RegisterFacts DEF UserFile
<1>2. \A r \in Registers :
        Executed(f)[r] = IF r \in DataSegments THEN f[r]
                         ELSE <<f["eip"][1], 1 - f["eip"][2], r>>
  BY DEF Executed
<1>3. \A r \in Registers : Executed(f)[r] \in Words
  <2>1. \A r \in Registers : <<f["eip"][1], 1 - f["eip"][2], r>> \in Words
    BY <1>1 DEF Words, Names
  <2> QED
    BY <1>2, <2>1 DEF UserFile
<1>4. \A r \in DataSegments : Executed(f)[r] = UserData
  BY <1>2, RegisterFacts DEF UserFile
<1>5. /\ Executed(f)["eip"][2] \in {0, 1}
      /\ Executed(f)["eflags"][3] = "eflags"
  <2>1. /\ Executed(f)["eip"] = <<f["eip"][1], 1 - f["eip"][2], "eip">>
        /\ Executed(f)["eflags"] = <<f["eip"][1], 1 - f["eip"][2], "eflags">>
    BY <1>2, RegisterFacts
  <2> QED
    BY <1>1, <2>1
<1> QED
  BY <1>3, <1>4, <1>5 DEF UserFile

LEMMA UserStepInv == InterruptsInv /\ UserStep => InterruptsInv'
<1> SUFFICES ASSUME InterruptsInv, UserStep
             PROVE  InterruptsInv'
  OBVIOUS
<1> DEFINE f == [r \in Registers |-> cpu[r]]
<1>1. /\ cpu["cs"] = UserCode /\ cpu["ss"] = UserData
      /\ cpu \in [AllRegisters -> Words]
      /\ UserMode
  BY ModeFacts DEF InterruptsInv, Typed, UserStep
<1>2. UserFile(cpu)
  BY <1>1 DEF InterruptsInv, InUser
<1>3. UserFile(f)
  BY <1>2, RegisterFacts DEF UserFile
<1>4. UserFile(Executed(f))
  BY <1>3, ExecutedFile
<1>5. \A r \in AllRegisters : cpu'[r] = IF r \in Registers THEN Executed(f)[r] ELSE cpu[r]
  BY <1>1 DEF UserStep
<1> HIDE DEF f
<1>6. cpu' = [r \in AllRegisters |-> cpu'[r]]
  BY <1>1 DEF UserStep
<1>7. cpu' \in [AllRegisters -> Words]
  BY <1>1, <1>4, <1>5, <1>6 DEF UserFile
<1>8. cpu'["cs"] = UserCode /\ cpu'["ss"] = UserData
  BY <1>1, <1>5, RegisterFacts
<1>9. UserFile(cpu')
  BY <1>4, <1>5, RegisterFacts DEF UserFile
<1>10. Typed' /\ Started' /\ Contexts'
  BY <1>7 DEF InterruptsInv, UserStep, Typed, Started, Contexts
<1>11. InUser'
  BY <1>1, <1>9 DEF InterruptsInv, UserStep, InUser
<1> QED
  BY <1>8, <1>10, <1>11, UserPlace

-----------------------------------------------------------------------------
(* Into the kernel *)

\* Through the gate: the interrupted program's words above the error code.
LEMMA EnterEffect ==
  ASSUME InterruptsInv, UserMode,
         NEW v \in 0 .. 63, NEW code \in Seq(Words),
         Len(code) = ErrorCodes(v),
         Enter(v, code)
  PROVE  /\ stack' \in Seq(Words)
         /\ Len(stack') = ErrorCodes(v) + 5
         /\ stack'[ErrorCodes(v) + 1] = cpu["eip"]
         /\ stack'[ErrorCodes(v) + 2] = UserCode
         /\ stack'[ErrorCodes(v) + 3] = cpu["eflags"]
         /\ stack'[ErrorCodes(v) + 4] = cpu["esp"]
         /\ stack'[ErrorCodes(v) + 5] = UserData
         /\ cpu' \in [AllRegisters -> Words]
         /\ cpu'["cs"] = KernelCode /\ cpu'["ss"] = KernelData
         /\ cpu'["eip"] = Code("stub", v)
         /\ \A r \in Plain : cpu'[r] = cpu[r]
         /\ iflag' = (iflag /\ ~interrupt_descriptor_table[v].masks)
         /\ UNCHANGED <<context, running, active_process_count>>
<1>1. /\ cpu["cs"] = UserCode /\ cpu["ss"] = UserData
      /\ cpu \in [AllRegisters -> Words]
  BY ModeFacts DEF InterruptsInv, Typed
<1>2. Flags = cpu["eflags"]
  BY DEF Flags, InterruptsInv, InUser
<1> DEFINE outer == <<cpu["eip"], cpu["cs"], cpu["eflags"], cpu["esp"], cpu["ss"]>>
<1>3. /\ stack' = code \o outer
      /\ cpu' = [cpu EXCEPT !["cs"] = KernelCode, !["ss"] = KernelData,
                            !["esp"] = <<Kernel, 0, "esp">>,
                            !["eip"] = Code("stub", v)]
      /\ iflag' = (iflag /\ ~interrupt_descriptor_table[v].masks)
      /\ UNCHANGED <<context, running, active_process_count>>
  BY <1>2 DEF Enter
<1>4. /\ outer \in Seq(Words)
      /\ Len(outer) = 5
      /\ outer[1] = cpu["eip"] /\ outer[2] = UserCode
      /\ outer[3] = cpu["eflags"] /\ outer[4] = cpu["esp"] /\ outer[5] = UserData
  BY <1>1, RegisterFacts DEF AllRegisters, General
<1> HIDE DEF outer
<1>5. /\ stack' \in Seq(Words)
      /\ Len(stack') = ErrorCodes(v) + 5
      /\ \A i \in 1 .. 5 : stack'[ErrorCodes(v) + i] = outer[i]
  <2>1. ErrorCodes(v) \in {0, 1}
    BY DEF ErrorCodes
  <2>2. PICK r : r = code \o outer
    OBVIOUS
  <2>3. Joined(code, outer, r)
    BY <1>4, <2>2, ConcatFacts
  <2>4. /\ r \in Seq(Words) /\ Len(r) = Len(code) + Len(outer)
        /\ \A i \in 1 .. Len(outer) : r[Len(code) + i] = outer[i]
    BY <2>3, Zenon DEF Joined
  <2>5. /\ Len(r) = ErrorCodes(v) + 5
        /\ \A i \in 1 .. 5 : r[ErrorCodes(v) + i] = outer[i]
    <3>1. Len(code) = ErrorCodes(v) /\ Len(outer) = 5
      BY <1>4
    <3> QED
      BY <2>4, <3>1, Zenon
  <2> QED
    BY <1>3, <2>2, <2>4, <2>5, Zenon
<1>6. \A r \in AllRegisters :
        cpu'[r] = IF r = "cs" THEN KernelCode ELSE IF r = "ss" THEN KernelData
                  ELSE IF r = "esp" THEN <<Kernel, 0, "esp">>
                  ELSE IF r = "eip" THEN Code("stub", v) ELSE cpu[r]
  BY <1>1, <1>3
<1>7. <<Kernel, 0, "esp">> \in Words
  BY DEF Words, Names, Registers, General, Kernel
<1>8. /\ Code("stub", v) \in Words
      /\ Code("stub", v)[1] = Kernel /\ Code("stub", v)[2] = v /\ Code("stub", v)[3] = "stub"
      /\ "stub" \in Places
  <2>1. v \in Nat /\ "stub" \in Places
    BY DEF Places
  <2> QED
    BY <2>1, CodeFacts, Zenon
<1>9. cpu' \in [AllRegisters -> Words]
  <2>1. cpu' = [r \in AllRegisters |-> cpu'[r]]
    BY <1>1, <1>3
  <2>2. \A r \in AllRegisters : cpu'[r] \in Words
    BY <1>1, <1>6, <1>7, <1>8, SelectorFacts
  <2> QED
    BY <2>1, <2>2
<1>10. /\ cpu'["cs"] = KernelCode /\ cpu'["ss"] = KernelData
       /\ cpu'["eip"] = Code("stub", v)
       /\ \A r \in Plain : cpu'[r] = cpu[r]
  BY <1>6, PlainFacts
<1>11. /\ stack'[ErrorCodes(v) + 1] = cpu["eip"]
       /\ stack'[ErrorCodes(v) + 2] = UserCode
       /\ stack'[ErrorCodes(v) + 3] = cpu["eflags"]
       /\ stack'[ErrorCodes(v) + 4] = cpu["esp"]
       /\ stack'[ErrorCodes(v) + 5] = UserData
  BY <1>4, <1>5, SMTT(30)
<1> QED
  BY <1>3, <1>5, <1>9, <1>10, <1>11

(***************************************************************************)
(* Every gate from user mode leaves the frame of its stub on an otherwise  *)
(* empty stack, if the processor pushes an error code for just those       *)
(* vectors whose stub expects one (intsetup.s:76-130).                     *)
(***************************************************************************)
LEMMA EnterFromUser ==
  ASSUME InterruptsInv, UserMode,
         NEW v \in 0 .. 63, NEW code \in Seq(Words),
         Len(code) = ErrorCodes(v),
         Enter(v, code),
         pic' \in [requested : SUBSET Lines, masked : SUBSET Lines, serving : SUBSET Lines],
         pic'.masked = pic.masked,
         pic'.serving = {irq \in Lines : v = PIC1_OFFSET + irq}
  PROVE  InterruptsInv'
<1>1. UserFile(cpu) /\ running # Nobody
  BY DEF InterruptsInv, InUser
<1>2. /\ stack' \in Seq(Words)
      /\ Len(stack') = ErrorCodes(v) + 5
      /\ stack'[ErrorCodes(v) + 1] = cpu["eip"]
      /\ stack'[ErrorCodes(v) + 2] = UserCode
      /\ stack'[ErrorCodes(v) + 3] = cpu["eflags"]
      /\ stack'[ErrorCodes(v) + 5] = UserData
      /\ cpu' \in [AllRegisters -> Words]
      /\ cpu'["cs"] = KernelCode /\ cpu'["ss"] = KernelData
      /\ cpu'["eip"] = Code("stub", v)
      /\ \A r \in Plain : cpu'[r] = cpu[r]
      /\ iflag' = (iflag /\ ~interrupt_descriptor_table[v].masks)
      /\ UNCHANGED <<context, running, active_process_count>>
  BY EnterEffect
<1>3. /\ Code("stub", v)[1] = Kernel /\ Code("stub", v)[2] = v /\ Code("stub", v)[3] = "stub"
      /\ "stub" \in Places
  <2>1. v \in Nat /\ "stub" \in Places
    BY DEF Places
  <2> QED
    BY <2>1, CodeFacts
<1>4. \A r \in DataSegments : cpu'[r] = UserData
  BY <1>1, <1>2, PlainFacts DEF UserFile
<1>5. ~iflag'
  <2>1. interrupt_descriptor_table[v].masks = TRUE
    BY DEF interrupt_descriptor_table
  <2> QED
    BY <1>2, <2>1
<1>6. Typed'
  <2>1. iflag' \in BOOLEAN
    BY <1>2
  <2> QED
    BY <1>2, <2>1 DEF InterruptsInv, Typed
<1>7. Started' /\ Contexts'
  BY <1>2 DEF InterruptsInv, Started, Contexts
<1>8. InStub'
  <2>1. ServesVector'
    BY <1>2, <1>3 DEF ServesVector
  <2> QED
    BY <1>1, <1>2, <1>3, <1>4, <1>5, <2>1 DEF InStub, UserFile, SegmentsAre
<1>9. InNested'
  <2>1. ErrorCodes(v) + 5 \in 0 .. 19
    BY DEF ErrorCodes
  <2> QED
    BY <1>2, <2>1, ShortStack
<1> QED
  BY <1>2, <1>3, <1>6, <1>7, <1>8, <1>9, KernelPlace

LEMMA SoftwareInterruptInv ==
  ASSUME InterruptsInv, NEW v \in SoftwareVectors, SoftwareInterrupt(v)
  PROVE  InterruptsInv'
<1> USE DEF SoftwareInterrupt
<1>1. /\ pic' = pic /\ pic.serving = {} /\ UserMode
      /\ pic \in [requested : SUBSET Lines, masked : SUBSET Lines, serving : SUBSET Lines]
      /\ v \in Nat
  BY InterruptsAssumption DEF InterruptsInv, Typed, InUser
<1>2. Privilege(cpu["cs"]) = 3
  BY <1>1, ModeFacts, SelectorFacts DEF InterruptsInv
<1>3. CASE Callable(v)
  <2>1. v \in 48 .. 63
    BY <1>2, <1>3 DEF Callable, interrupt_descriptor_table
  <2>2. ErrorCodes(v) = 0
    BY <2>1 DEF ErrorCodes, ErrorCodeVectors
  <2>3. pic'.serving = {irq \in Lines : v = PIC1_OFFSET + irq}
    BY <1>1, <2>1 DEF Lines, PIC1_OFFSET, IRQ_TIMER, IRQ_KEYBOARD
  <2>4. <<>> \in Seq(Words) /\ Len(<<>>) = 0
    OBVIOUS
  <2>5. Enter(v, <<>>) /\ v \in 0 .. 63
    BY <1>3, <2>1
  <2>6. Len(<<>>) = ErrorCodes(v)
    BY <2>2, <2>4
  <2>7. pic'.masked = pic.masked
    BY <1>1
  <2> QED
    BY <1>1, <2>3, <2>4, <2>5, <2>6, <2>7, EnterFromUser
<1>4. CASE ~Callable(v)
  <2>1. ErrorCodes(GENERAL_PROTECTION) = 1
    BY DEF ErrorCodes, ErrorCodeVectors, GENERAL_PROTECTION
  <2>2. pic'.serving = {irq \in Lines : GENERAL_PROTECTION = PIC1_OFFSET + irq}
    BY <1>1 DEF Lines, PIC1_OFFSET, IRQ_TIMER, IRQ_KEYBOARD, GENERAL_PROTECTION
  <2>3. /\ <<Number(8 * v + 2)>> \in Seq(Words)
        /\ Len(<<Number(8 * v + 2)>>) = 1
    BY <1>1, NumberFacts
  <2>4. GENERAL_PROTECTION \in 0 .. 63
    BY DEF GENERAL_PROTECTION
  <2>5. Enter(GENERAL_PROTECTION, <<Number(8 * v + 2)>>)
    BY <1>4
  <2> QED
    BY <1>1, <2>1, <2>2, <2>3, <2>4, <2>5, EnterFromUser
<1> QED
  BY <1>3, <1>4

LEMMA ExceptionInv ==
  ASSUME InterruptsInv, NEW v \in Exceptions, Exception(v)
  PROVE  InterruptsInv'
<1> USE DEF Exception
<1>1. /\ pic' = pic /\ pic.serving = {} /\ UserMode
      /\ pic \in [requested : SUBSET Lines, masked : SUBSET Lines, serving : SUBSET Lines]
      /\ v \in 0 .. 31 /\ v # 21 /\ v # 29
  BY InterruptsAssumption DEF InterruptsInv, Typed, InUser
<1> DEFINE code == IF v \in ProcessorErrorCodes THEN <<Number(0)>> ELSE <<>>
<1>2. v \in ProcessorErrorCodes <=> v \in ErrorCodeVectors
  BY <1>1 DEF ProcessorErrorCodes, ErrorCodeVectors
<1>3. code \in Seq(Words) /\ Len(code) = ErrorCodes(v)
  BY <1>2, NumberFacts DEF ErrorCodes
<1>4. pic'.serving = {irq \in Lines : v = PIC1_OFFSET + irq}
  BY <1>1 DEF Lines, PIC1_OFFSET, IRQ_TIMER, IRQ_KEYBOARD
<1>5. Enter(v, code) /\ v \in 0 .. 63
  BY <1>1
<1> HIDE DEF code
<1> QED
  BY <1>1, <1>3, <1>4, <1>5, EnterFromUser

LEMMA HighestFacts ==
  ASSUME NEW S, S \subseteq Lines, S # {}
  PROVE  Highest(S) \in S /\ \A irq \in S : Highest(S) <= irq
<1>1. \E irq \in S : \A other \in S : irq <= other
  <2>1. S \subseteq {0, 1}
    BY DEF Lines, IRQ_TIMER, IRQ_KEYBOARD
  <2>2. CASE 0 \in S
    BY <2>1, <2>2
  <2>3. CASE 0 \notin S
    <3>1. S = {1}
      BY <2>1, <2>3
    <3> QED
      BY <3>1
  <2> QED
    BY <2>2, <2>3
<1> QED
  BY <1>1 DEF Highest

(***************************************************************************)
(* A hardware interrupt comes from user mode, or from kernel_setup when it *)
(* is a key (idt.c:34, kernel.c:26-60).                                    *)
(***************************************************************************)
LEMMA HardwareInterruptInv == InterruptsInv /\ HardwareInterrupt => InterruptsInv'
<1> SUFFICES ASSUME InterruptsInv, HardwareInterrupt
             PROVE  InterruptsInv'
  OBVIOUS
<1>1. Deliverable # {} /\ iflag
  BY DEF HardwareInterrupt, Deliverable
<1>2. /\ Deliverable \subseteq pic.requested \ pic.masked
      /\ pic.requested \subseteq Lines
      /\ pic \in [requested : SUBSET Lines, masked : SUBSET Lines, serving : SUBSET Lines]
  BY DEF Deliverable, InterruptsInv, Typed
<1> DEFINE irq == Highest(Deliverable)
<1>3. irq \in Deliverable /\ irq \in Lines /\ irq \notin pic.masked
  BY <1>1, <1>2, HighestFacts
<1>4. /\ pic' = [pic EXCEPT !.requested = @ \ {irq}, !.serving = @ \cup {irq}]
      /\ Enter(PIC1_OFFSET + irq, <<>>)
  BY DEF HardwareInterrupt
<1> HIDE DEF irq
<1>5. /\ pic'.masked = pic.masked
      /\ pic'.serving = pic.serving \cup {irq}
      /\ pic' \in [requested : SUBSET Lines, masked : SUBSET Lines, serving : SUBSET Lines]
  BY <1>2, <1>3, <1>4
<1>6. /\ PIC1_OFFSET + irq \in 0 .. 63
      /\ ErrorCodes(PIC1_OFFSET + irq) = 0
      /\ {line \in Lines : PIC1_OFFSET + irq = PIC1_OFFSET + line} = {irq}
  BY <1>3 DEF Lines, IRQ_TIMER, IRQ_KEYBOARD, PIC1_OFFSET, ErrorCodes, ErrorCodeVectors
<1>7. CASE UserMode
  <2>1. pic.serving = {}
    BY <1>7 DEF InterruptsInv, InUser
  <2>2. pic'.serving = {line \in Lines : PIC1_OFFSET + irq = PIC1_OFFSET + line}
    BY <1>5, <1>6, <2>1
  <2>3. <<>> \in Seq(Words) /\ Len(<<>>) = ErrorCodes(PIC1_OFFSET + irq)
    BY <1>6
  <2> QED
    BY <1>4, <1>5, <1>6, <1>7, <2>2, <2>3, EnterFromUser
<1>8. CASE ~UserMode
  <2>1. InKernel
    BY <1>8 DEF UserMode
  <2>2. At("kernel_setup")
    BY <1>1, <2>1 DEF InterruptsInv, SomePlace, Places, At, InStub, InHandler, InSwitch, InCall,
                      InNested, Stuck
  <2>3. /\ running = Nobody /\ stack = <<>> /\ pic.serving = {}
        /\ cpu["eip"] = Code("kernel_setup", cpu["eip"][2])
        /\ cpu["eip"][2] \in 3 .. 5
        /\ cpu["eflags"][3] = "eflags"
        /\ SegmentsAre(KernelData)
        /\ SetupDone(cpu["eip"][2])
    BY <1>1, <2>2 DEF InterruptsInv, InSetup
  <2>4. cpu["eip"][2] \in {4, 5} /\ irq = IRQ_KEYBOARD
    BY <1>3, <2>3 DEF SetupDone, Lines
  <2>5. /\ cpu["cs"] = KernelCode /\ cpu["ss"] = KernelData
        /\ cpu \in [AllRegisters -> Words]
    BY <2>1, ModeFacts DEF InterruptsInv, Typed
  <2> DEFINE v == PIC1_OFFSET + irq
  <2> DEFINE inner == <<cpu["eip"], cpu["cs"], cpu["eflags"]>>
  <2>6. /\ stack' = <<>> \o (inner \o stack)
        /\ cpu' = [cpu EXCEPT !["cs"] = KernelCode, !["ss"] = cpu["ss"],
                              !["esp"] = <<Kernel, 0, "esp">>,
                              !["eip"] = Code("stub", v)]
        /\ iflag' = (iflag /\ ~interrupt_descriptor_table[v].masks)
        /\ UNCHANGED <<context, running, active_process_count>>
    <3>1. Flags = cpu["eflags"]
      BY <1>1 DEF Flags
    <3> QED
      BY <1>4, <1>8, <3>1 DEF Enter
  <2>7. /\ inner \in Seq(Words)
        /\ Len(inner) = 3
        /\ inner[1] = cpu["eip"] /\ inner[2] = KernelCode /\ inner[3] = cpu["eflags"]
    BY <2>5, RegisterFacts DEF AllRegisters, General
  <2> HIDE DEF v, inner
  <2>8. stack' \in Seq(Words) /\ Len(stack') = 3 /\ \A i \in 1 .. 3 : stack'[i] = inner[i]
    <3>1. <<>> \in Seq(Words) /\ Len(<<>>) = 0
      OBVIOUS
    <3>2. PICK r : r = inner \o stack
      OBVIOUS
    <3>3. stack \in Seq(Words) /\ Len(stack) = 0
      BY <2>3, <3>1
    <3>4. Joined(inner, stack, r)
      BY <2>7, <3>2, <3>3, ConcatFacts
    <3>5. /\ r \in Seq(Words) /\ Len(r) = Len(inner) + Len(stack)
          /\ \A i \in 1 .. Len(inner) : r[i] = inner[i]
      BY <3>4, Zenon DEF Joined
    <3>6. stack' = r
      BY <2>6, <3>2, <3>5, ConcatEmptySeq, Zenon
    <3>7. Len(inner) = 3 /\ Len(r) = 3
      BY <2>7, <3>3, <3>5
    <3> QED
      BY <3>5, <3>6, <3>7, Zenon
  <2>9. \A r \in AllRegisters :
          cpu'[r] = IF r = "cs" THEN KernelCode ELSE IF r = "ss" THEN KernelData
                    ELSE IF r = "esp" THEN <<Kernel, 0, "esp">>
                    ELSE IF r = "eip" THEN Code("stub", v) ELSE cpu[r]
    BY <2>5, <2>6
  <2>10. <<Kernel, 0, "esp">> \in Words
    BY DEF Words, Names, Registers, General, Kernel
  <2>11. v \in 0 .. 63 /\ v = PIC1_OFFSET + IRQ_KEYBOARD
    BY <1>6, <2>4 DEF v
  <2>12. /\ Code("stub", v) \in Words
         /\ Code("stub", v)[1] = Kernel /\ Code("stub", v)[2] = v /\ Code("stub", v)[3] = "stub"
         /\ "stub" \in Places
    BY <2>11, CodeFacts, SMTT(30) DEF Places
  <2>13. cpu' \in [AllRegisters -> Words]
    <3>1. cpu' = [r \in AllRegisters |-> cpu'[r]]
      BY <2>5, <2>6
    <3>2. \A r \in AllRegisters : cpu'[r] \in Words
      BY <2>5, <2>9, <2>10, <2>12, SelectorFacts
    <3> QED
      BY <3>1, <3>2
  <2>14. /\ cpu'["cs"] = KernelCode /\ cpu'["ss"] = KernelData
         /\ cpu'["eip"] = Code("stub", v)
         /\ \A r \in DataSegments : cpu'[r] = KernelData
    BY <2>3, <2>9, RegisterFacts DEF SegmentsAre, DataSegments
  <2>15. ~iflag' /\ iflag' \in BOOLEAN
    <3>1. interrupt_descriptor_table[v].masks = TRUE
      BY <2>11 DEF interrupt_descriptor_table
    <3> QED
      BY <2>6, <3>1
  <2>16. Typed'
    <3>1. iflag' \in BOOLEAN
      BY <2>15
    <3> QED
      BY <1>5, <2>6, <2>8, <2>13, <3>1 DEF InterruptsInv, Typed
  <2>17. Started' /\ Contexts'
    BY <2>3, <2>6 DEF InterruptsInv, Started, Contexts
  <2>18. InStub'
    <3>1. pic'.serving = {line \in Lines : v = PIC1_OFFSET + line}
      BY <1>5, <1>6, <2>3 DEF v
    <3>2. ServesVector'
      BY <2>12, <2>14, <3>1 DEF ServesVector
    <3>3. /\ stack'[1] = cpu["eip"]
          /\ stack'[2] = KernelCode
          /\ stack'[3] = cpu["eflags"]
      BY <2>7, <2>8
    <3>4. SetupDone(stack[1][2])'
      <4>1. SetupDone(cpu["eip"][2]) /\ pic'.masked = pic.masked
        BY <1>5, <2>3
      <4>2. active_process_count' = active_process_count /\ stack'[1][2] = cpu["eip"][2]
        BY <2>6, <3>3
      <4> QED
        BY <4>1, <4>2 DEF SetupDone
    <3>5. SegmentsAre(KernelData)' /\ running' = Nobody
      BY <2>3, <2>6, <2>14 DEF SegmentsAre
    <3>6. /\ cpu'["eip"] = Code("stub", cpu'["eip"][2])
          /\ cpu'["eip"][2] = PIC1_OFFSET + IRQ_KEYBOARD
          /\ cpu'["eip"][2] \in 0 .. 63
      BY <2>11, <2>12, <2>14, Zenon
    <3>7. /\ stack'[1] = Code("kernel_setup", stack'[1][2])
          /\ stack'[1][2] \in {4, 5}
          /\ stack'[3][3] = "eflags"
          /\ Len(stack') = 3
      BY <2>3, <2>4, <2>8, <3>3, Zenon
    <3> QED
      BY <2>15, <3>2, <3>3, <3>4, <3>5, <3>6, <3>7 DEF InStub
  <2>19. InNested'
    <3>1. Len(stack)' = 3 /\ 3 \in 0 .. 19
      BY <2>8
    <3> QED
      BY <3>1, ShortStack
  <2> QED
    BY <2>12, <2>14, <2>16, <2>17, <2>18, <2>19, KernelPlace
<1> QED
  BY <1>7, <1>8

-----------------------------------------------------------------------------
(* The stub *)

\* The layout of the frame, by number.
LEMMA LayoutFacts ==
  /\ Len(CPURegister) = 12 /\ Len(InterruptFrame) = 17 /\ Len(PushOrder) = 12
  /\ Position("esp", CPURegister) = 4
  /\ \A i \in 1 .. 12 : PushOrder[13 - i] = CPURegister[i]
  /\ \A i \in 1 .. 12 : CPURegister[i] \in Registers
  /\ \A i \in 9 .. 12 : CPURegister[i] \in DataSegments
  /\ CPURegister[4] = "esp"
BY DEF CPURegister, InterruptFrame, PushOrder, Position, Registers, General,
       DataSegments

\* The data segments of a frame are those the processor had.
LEMMA PushedSegments ==
  ASSUME NEW frame, NEW selector, SegmentsAre(selector),
         \A i \in 9 .. 12 : frame[i] = cpu[CPURegister[i]]
  PROVE  \A i \in 9 .. 12 : frame[i] = selector
<1>1. TAKE i \in 9 .. 12
<1>2. CPURegister[i] \in DataSegments
  BY LayoutFacts
<1>3. cpu[CPURegister[i]] = selector
  BY <1>2 DEF SegmentsAre
<1> QED
  BY <1>3

Framed(saved, number, code, below, frame) ==
  /\ frame \in Seq(Words)
  /\ Len(frame) = 13 + Len(code) + Len(below)
  /\ \A i \in 1 .. 12 : frame[i] = saved[i]
  /\ frame[13] = number
  /\ \A i \in 1 .. Len(below) : frame[13 + Len(code) + i] = below[i]

(***************************************************************************)
(* What the stub pushes lies above what was there, and the number of the   *)
(* interrupt is always in the same place (intsetup.s:5-30, 76-130).        *)
(***************************************************************************)
LEMMA PushedFrame ==
  ASSUME NEW saved \in Seq(Words), Len(saved) = 12,
         NEW number \in Words,
         NEW code \in Seq(Words), NEW below \in Seq(Words),
         NEW frame, frame = saved \o <<number>> \o code \o below
  PROVE  Framed(saved, number, code, below, frame)
<1>1. PICK unit : unit = <<number>>
  OBVIOUS
<1>2. unit \in Seq(Words)
  BY <1>1
<1>3. Len(unit) = 1 /\ unit[1] = number
  BY <1>1
<1>4. PICK one : one = saved \o unit
  OBVIOUS
<1>5. PICK two : two = one \o code
  OBVIOUS
<1>6. frame = two \o below
  BY <1>1, <1>4, <1>5, Zenon
<1>7. Joined(saved, unit, one)
  BY <1>2, <1>4, ConcatFacts
<1>8. /\ one \in Seq(Words) /\ Len(one) = Len(saved) + Len(unit)
      /\ \A i \in 1 .. Len(saved) : one[i] = saved[i]
      /\ \A i \in 1 .. Len(unit) : one[Len(saved) + i] = unit[i]
  BY <1>7, Zenon DEF Joined
<1>9. Joined(one, code, two)
  BY <1>5, <1>8, ConcatFacts
<1>10. /\ two \in Seq(Words) /\ Len(two) = Len(one) + Len(code)
       /\ \A i \in 1 .. Len(one) : two[i] = one[i]
  BY <1>9, Zenon DEF Joined
<1>11. Joined(two, below, frame)
  BY <1>6, <1>10, ConcatFacts
<1>12. /\ frame \in Seq(Words) /\ Len(frame) = Len(two) + Len(below)
       /\ \A i \in 1 .. Len(two) : frame[i] = two[i]
       /\ \A i \in 1 .. Len(below) : frame[Len(two) + i] = below[i]
  BY <1>11, Zenon DEF Joined
<1>13. Len(code) \in Nat
  BY SeqFacts
<1>14. /\ Len(one) = 13 /\ one[13] = number
       /\ \A i \in 1 .. 12 : one[i] = saved[i]
  <2>1. Len(one) = 13
    BY <1>3, <1>8
  <2>2. one[12 + 1] = unit[1]
    <3>1. 1 \in 1 .. Len(unit)
      BY <1>3
    <3> QED
      BY <1>8, <3>1, Zenon
  <2>3. 12 + 1 = 13
    OBVIOUS
  <2> QED
    BY <1>3, <1>8, <2>1, <2>2, <2>3, Zenon
<1>15. Len(two) = 13 + Len(code)
  BY <1>10, <1>14
<1>16. \A i \in 1 .. 13 : frame[i] = one[i]
  <2> SUFFICES ASSUME NEW i \in 1 .. 13
               PROVE  frame[i] = one[i]
    OBVIOUS
  <2>1. i \in 1 .. Len(two) /\ i \in 1 .. Len(one)
    BY <1>13, <1>14, <1>15
  <2> QED
    BY <1>10, <1>12, <2>1, Zenon
<1>17. \A i \in 1 .. 12 : frame[i] = saved[i]
  <2>1. \A i \in 1 .. 12 : i \in 1 .. 13
    OBVIOUS
  <2> QED
    BY <1>14, <1>16, <2>1, Zenon
<1>18. frame[13] = number
  <2>1. 13 \in 1 .. 13
    OBVIOUS
  <2> QED
    BY <1>14, <1>16, <2>1, Zenon
<1>19. /\ Len(frame) = 13 + Len(code) + Len(below)
       /\ \A i \in 1 .. Len(below) : frame[13 + Len(code) + i] = below[i]
  BY <1>12, <1>15, Zenon
<1> QED
  BY <1>12, <1>17, <1>18, <1>19, Zenon DEF Framed

\* The words of the stub over those of the entry.
Pushed(v, e, frame) ==
  /\ frame \in Seq(Words)
  /\ Len(frame) = 14 - e + Len(stack)
  /\ \A i \in 1 .. 12 : frame[i] = cpu[CPURegister[i]]
  /\ frame[13] = Number(v)
  /\ \A i \in 1 .. Len(stack) : frame[14 - e + i] = stack[i]
  /\ stack' = IF Privilege(cpu["ds"]) # 0
              THEN [frame EXCEPT ![Position("esp", CPURegister)] =
                                   frame[Len(InterruptFrame) + 1]]
              ELSE frame

LEMMA StubPush ==
  ASSUME InterruptsInv, Stub, NEW v, v = Vector, NEW e, e = ErrorCodes(v)
  PROVE  /\ v \in 0 .. 63 /\ e \in {0, 1}
         /\ \E frame : Pushed(v, e, frame)
<1>1. cpu \in [AllRegisters -> Words] /\ stack \in Seq(Words)
  BY DEF InterruptsInv, Typed
<1>a. At("stub")
  BY DEF Stub
<1>b. v \in 0 .. 63 /\ e \in {0, 1}
  BY <1>a DEF InterruptsInv, InStub, InNested, ErrorCodes, Vector, PAGE_FAULT
<1>2. PICK code : code = IF v \in ErrorCodeVectors THEN <<>> ELSE <<Number(0)>>
  OBVIOUS
<1>3. PICK saved : saved = [i \in 1 .. 12 |-> cpu[PushOrder[13 - i]]]
  OBVIOUS
<1>4. PICK frame : frame = saved \o <<Number(v)>> \o code \o stack
  OBVIOUS
<1>5. stack' = IF Privilege(cpu["ds"]) # 0
               THEN [frame EXCEPT ![Position("esp", CPURegister)] =
                                    frame[Len(InterruptFrame) + 1]]
               ELSE frame
  BY <1>2, <1>3, <1>4 DEF Stub, Vector
<1>6. code \in Seq(Words) /\ Len(code) = 1 - e
  BY <1>2, NumberFacts DEF ErrorCodes
<1>7. saved \in Seq(Words) /\ Len(saved) = 12
  <2>1. \A i \in 1 .. 12 : cpu[PushOrder[13 - i]] \in Words
    BY <1>1, LayoutFacts, RegisterFacts
  <2>2. saved \in [1 .. 12 -> Words]
    BY <1>3, <2>1
  <2> QED
    BY <2>2, TupleIsSequence
<1>8. Number(v) \in Words
  BY <1>b, NumberFacts
<1>9. Framed(saved, Number(v), code, stack, frame)
  BY <1>1, <1>4, <1>6, <1>7, <1>8, PushedFrame
<1>s. Len(stack) \in Nat
  BY <1>1, SeqFacts
<1>p. /\ Len(code) = 1 - e
      /\ frame \in Seq(Words)
      /\ Len(frame) = 13 + Len(code) + Len(stack)
      /\ \A i \in 1 .. 12 : frame[i] = saved[i]
      /\ frame[13] = Number(v)
      /\ \A i \in 1 .. Len(stack) : frame[13 + Len(code) + i] = stack[i]
  BY <1>6, <1>9, Zenon DEF Framed
<1>10. /\ Len(frame) = 14 - e + Len(stack)
       /\ \A i \in 1 .. 12 : frame[i] = cpu[CPURegister[i]]
       /\ \A i \in 1 .. Len(stack) : frame[14 - e + i] = stack[i]
  <2>1. 13 + Len(code) = 14 - e
    BY <1>b, <1>p
  <2>2. \A i \in 1 .. 12 : frame[i] = cpu[CPURegister[i]]
    BY <1>3, <1>p, LayoutFacts
  <2> QED
    BY <1>p, <2>1, <2>2, Zenon
<1> QED
  BY <1>b, <1>5, <1>p, <1>10, Zenon DEF Pushed

LEMMA StubEffect ==
  ASSUME InterruptsInv, Stub, ~Nested, NEW v, v = Vector, NEW e, e = ErrorCodes(v)
  PROVE  /\ v \in 0 .. 63
         /\ stack' \in Seq(Words)
         /\ \A i \in 1 .. 12 : i # 4 => stack'[i] = cpu[CPURegister[i]]
         /\ stack'[13] = Number(v)
         /\ running # Nobody =>
              /\ Len(stack') = 19
              /\ stack'[4] = stack[e + 4]
              /\ \A i \in 1 .. 5 : stack'[14 + i] = stack[e + i]
         /\ running = Nobody =>
              /\ Len(stack') = 17
              /\ stack'[4] = cpu["esp"]
              /\ \A i \in 1 .. 3 : stack'[14 + i] = stack[i]
<1>a. At("stub")
  BY DEF Stub
<1>b. v \in 0 .. 63 /\ e \in {0, 1}
  BY StubPush
<1>c. running # Nobody => Len(stack) = e + 5 /\ SegmentsAre(UserData)
  BY <1>a DEF InterruptsInv, InStub, Vector
<1>d. running = Nobody =>
        Len(stack) = 3 /\ v = PIC1_OFFSET + IRQ_KEYBOARD /\ SegmentsAre(KernelData)
  BY <1>a DEF InterruptsInv, InStub, Vector
<1>s. Len(stack) \in Nat
  BY SeqFacts DEF InterruptsInv, Typed
<1>f. PICK frame : Pushed(v, e, frame)
  BY StubPush
<1>5. stack' = IF Privilege(cpu["ds"]) # 0
               THEN [frame EXCEPT ![Position("esp", CPURegister)] =
                                    frame[Len(InterruptFrame) + 1]]
               ELSE frame
  BY <1>f, Zenon DEF Pushed
<1>p. frame \in Seq(Words) /\ frame[13] = Number(v)
  BY <1>f, Zenon DEF Pushed
<1>10. /\ Len(frame) = 14 - e + Len(stack)
       /\ \A i \in 1 .. 12 : frame[i] = cpu[CPURegister[i]]
       /\ \A i \in 1 .. Len(stack) : frame[14 - e + i] = stack[i]
  BY <1>f, Zenon DEF Pushed
<1>11. CASE running # Nobody
  <2>1. Privilege(cpu["ds"]) # 0
    BY <1>c, <1>11, SelectorFacts DEF SegmentsAre, DataSegments
  <2>2. stack' = [frame EXCEPT ![4] = frame[18]]
    <3>1. Len(InterruptFrame) + 1 = 18
      BY LayoutFacts
    <3>2. stack' = [frame EXCEPT ![Position("esp", CPURegister)] =
                                   frame[Len(InterruptFrame) + 1]]
      BY <1>5, <2>1, Zenon
    <3> QED
      BY <3>1, <3>2, LayoutFacts, Zenon
  <2>3. Len(frame) = 19
    <3>1. Len(frame) = 14 - e + Len(stack) /\ Len(stack) = e + 5
      BY <1>c, <1>10, <1>11, Zenon
    <3>2. 14 - e + (e + 5) = 19
      BY <1>b
    <3> QED
      BY <3>1, <3>2, Zenon
  <2>4. \A i \in 1 .. 5 : frame[14 + i] = stack[e + i]
    <3> SUFFICES ASSUME NEW i \in 1 .. 5
                 PROVE  frame[14 + i] = stack[e + i]
      OBVIOUS
    <3>1. e + i \in 1 .. Len(stack) /\ 14 - e + (e + i) = 14 + i
      BY <1>b, <1>c, <1>11
    <3> QED
      BY <1>10, <3>1
  <2>5. frame \in Seq(Words)
    BY <1>p, Zenon
  <2>6. /\ stack' \in Seq(Words) /\ Len(stack') = 19
        /\ stack'[4] = frame[18]
        /\ \A i \in 1 .. 19 : i # 4 => stack'[i] = frame[i]
    <3>1. PICK w : w = frame[18]
      OBVIOUS
    <3>2. w \in Words
      <4>1. \A i \in 1 .. Len(frame) : frame[i] \in Words
        BY <2>5, SeqFacts
      <4>2. 18 \in 1 .. Len(frame)
        BY <2>3
      <4> QED
        BY <3>1, <4>1, <4>2, Zenon
    <3>3. 4 \in 1 .. Len(frame) /\ stack' = [frame EXCEPT ![4] = w]
      BY <2>2, <2>3, <3>1
    <3>4. Replaced(frame, 4, w, stack')
      BY <2>5, <3>2, <3>3, ReplacedFacts
    <3> QED
      BY <2>3, <3>1, <3>4, Zenon DEF Replaced
  <2>7. frame[18] = stack[e + 4]
    <3>1. 4 \in 1 .. 5 /\ 14 + 4 = 18
      OBVIOUS
    <3> QED
      BY <2>4, <3>1, Zenon
  <2>8. \A i \in 1 .. 12 : i # 4 => stack'[i] = cpu[CPURegister[i]]
    <3>1. \A i \in 1 .. 12 : i \in 1 .. 19
      OBVIOUS
    <3> QED
      BY <1>10, <2>6, <3>1, Zenon
  <2>9. stack'[13] = Number(v)
    <3>1. 13 \in 1 .. 19 /\ 13 # 4
      OBVIOUS
    <3> QED
      BY <1>p, <2>6, <3>1, Zenon
  <2>10. \A i \in 1 .. 5 : stack'[14 + i] = stack[e + i]
    <3>1. \A i \in 1 .. 5 : 14 + i \in 1 .. 19 /\ 14 + i # 4
      OBVIOUS
    <3> QED
      BY <2>4, <2>6, <3>1, Zenon
  <2> QED
    BY <1>b, <1>11, <2>6, <2>7, <2>8, <2>9, <2>10, Zenon
<1>12. CASE running = Nobody
  <2>1. Privilege(cpu["ds"]) = 0
    BY <1>d, <1>12, SelectorFacts DEF SegmentsAre, DataSegments
  <2>2. stack' = frame
    BY <1>5, <2>1
  <2>3. e = 0
    BY <1>d, <1>12 DEF ErrorCodes, ErrorCodeVectors, PIC1_OFFSET, IRQ_KEYBOARD
  <2>4. frame[4] = cpu["esp"]
    BY <1>10, LayoutFacts
  <2>5. Len(frame) = 17 /\ \A i \in 1 .. 3 : frame[14 + i] = stack[i]
    <3>1. Len(stack) = 3
      BY <1>d, <1>12
    <3>2. Len(frame) = 17
      BY <1>10, <2>3, <3>1
    <3>3. 14 - e = 14
      BY <2>3
    <3> QED
      BY <1>10, <3>1, <3>2, <3>3, Zenon
  <2>6. frame \in Seq(Words)
    BY <1>p, Zenon
  <2> QED
    BY <1>b, <1>p, <1>10, <1>12, <2>2, <2>4, <2>5, <2>6, Zenon
<1> QED
  BY <1>11, <1>12

(***************************************************************************)
(* The C handler finds the frame it is compiled for, and kernel segments.  *)
(***************************************************************************)
LEMMA OuterStubInv ==
  ASSUME InterruptsInv, Stub, ~Nested
  PROVE  InterruptsInv'
<1>v. PICK v : v = Vector
  OBVIOUS
<1>e. PICK e : e = ErrorCodes(v)
  OBVIOUS
<1>1. /\ v \in 0 .. 63
      /\ stack' \in Seq(Words)
      /\ \A i \in 1 .. 12 : i # 4 => stack'[i] = cpu[CPURegister[i]]
      /\ stack'[13] = Number(v)
      /\ running # Nobody =>
           /\ Len(stack') = 19
           /\ stack'[4] = stack[e + 4]
           /\ \A i \in 1 .. 5 : stack'[14 + i] = stack[e + i]
      /\ running = Nobody =>
           /\ Len(stack') = 17
           /\ \A i \in 1 .. 3 : stack'[14 + i] = stack[i]
  BY <1>v, <1>e, StubEffect
<1>2. /\ At("stub") /\ cpu \in [AllRegisters -> Words]
      /\ cpu["cs"] = KernelCode /\ cpu["ss"] = KernelData
  BY ModeFacts DEF InterruptsInv, Typed, Stub, At
<1>3. /\ ~iflag /\ ServesVector
      /\ running # Nobody =>
           /\ stack[e + 2] = UserCode /\ stack[e + 5] = UserData
           /\ stack[e + 1][2] \in {0, 1}
           /\ stack[e + 3][3] = "eflags"
           /\ SegmentsAre(UserData)
      /\ running = Nobody =>
           /\ v = PIC1_OFFSET + IRQ_KEYBOARD
           /\ stack[1] = Code("kernel_setup", stack[1][2])
           /\ stack[1][2] \in {4, 5}
           /\ stack[2] = KernelCode
           /\ stack[3][3] = "eflags"
           /\ SetupDone(stack[1][2])
           /\ SegmentsAre(KernelData)
  BY <1>2, <1>v, <1>e DEF InterruptsInv, InStub, Vector
<1>4. UNCHANGED <<iflag, context, running, active_process_count, pic>>
  BY DEF Stub
<1>5. \A r \in AllRegisters :
        cpu'[r] = IF r \in DataSegments THEN KernelData
                  ELSE IF r = "eip" THEN Code("main_interrupt_handler", v) ELSE cpu[r]
  BY <1>2, <1>v DEF Stub, Vector
<1>6. cpu' = [r \in AllRegisters |-> cpu'[r]]
  BY <1>2 DEF Stub
<1>n. v \in Nat
  <2>1. v \in 0 .. 63
    BY <1>1, Zenon
  <2> QED
    BY <2>1
<1>7. /\ "main_interrupt_handler" \in Places /\ v \in Nat
      /\ Code("main_interrupt_handler", v) \in Words
      /\ Code("main_interrupt_handler", v)[1] = Kernel
      /\ Code("main_interrupt_handler", v)[2] = v
      /\ Code("main_interrupt_handler", v)[3] = "main_interrupt_handler"
  BY <1>n, CodeFacts DEF Places
<1>8. cpu' \in [AllRegisters -> Words]
  BY <1>2, <1>5, <1>6, <1>7, SelectorFacts
<1>9. /\ cpu'["cs"] = KernelCode /\ cpu'["ss"] = KernelData
      /\ cpu'["eip"] = Code("main_interrupt_handler", v)
      /\ SegmentsAre(KernelData)'
  BY <1>2, <1>5, RegisterFacts DEF SegmentsAre
<1>10. Typed'
  BY <1>1, <1>4, <1>8 DEF InterruptsInv, Typed
<1>11. Started' /\ Contexts'
  BY <1>4 DEF InterruptsInv, Started, Contexts
<1>12. ServesVector'
  BY <1>3, <1>4, <1>7, <1>9, <1>v DEF ServesVector, Vector
<1>13. ASSUME running # Nobody
       PROVE  /\ Len(stack') = 19
              /\ stack'[4] = stack'[18]
              /\ stack'[16] = UserCode
              /\ stack'[19] = UserData
              /\ \A i \in 9 .. 12 : stack'[i] = UserData
              /\ stack'[15][2] \in {0, 1}
              /\ stack'[17][3] = "eflags"
  <2>1. /\ stack'[15] = stack[e + 1] /\ stack'[16] = stack[e + 2]
        /\ stack'[17] = stack[e + 3] /\ stack'[18] = stack[e + 4] /\ stack'[19] = stack[e + 5]
    BY <1>1, <1>13
  <2>2. \A i \in 9 .. 12 : stack'[i] = UserData
    <3>1. SegmentsAre(UserData)
      BY <1>3, <1>13
    <3>2. \A i \in 9 .. 12 : stack'[i] = cpu[CPURegister[i]]
      <4>1. \A i \in 9 .. 12 : i \in 1 .. 12 /\ i # 4
        OBVIOUS
      <4> QED
        BY <1>1, <4>1, Zenon
    <3> QED
      BY <3>1, <3>2, PushedSegments, Zenon
  <2> QED
    BY <1>1, <1>3, <1>13, <2>1, <2>2
<1>14. ASSUME running = Nobody
       PROVE  /\ Len(stack') = 17
              /\ \A i \in 9 .. 12 : stack'[i] = KernelData
              /\ stack'[15] = Code("kernel_setup", stack'[15][2])
              /\ stack'[15][2] \in {4, 5}
              /\ stack'[16] = KernelCode
              /\ stack'[17][3] = "eflags"
              /\ SetupDone(stack[15][2])'
  <2>1. /\ stack'[15] = stack[1] /\ stack'[16] = stack[2] /\ stack'[17] = stack[3]
    BY <1>1, <1>14
  <2>2. \A i \in 9 .. 12 : stack'[i] = KernelData
    <3>1. SegmentsAre(KernelData)
      BY <1>3, <1>14
    <3>2. \A i \in 9 .. 12 : stack'[i] = cpu[CPURegister[i]]
      <4>1. \A i \in 9 .. 12 : i \in 1 .. 12 /\ i # 4
        OBVIOUS
      <4> QED
        BY <1>1, <4>1, Zenon
    <3> QED
      BY <3>1, <3>2, PushedSegments, Zenon
  <2>3. SetupDone(stack[15][2])'
    BY <1>3, <1>4, <1>14, <2>1 DEF SetupDone
  <2> QED
    BY <1>1, <1>3, <1>14, <2>1, <2>2, <2>3
<1>15. InHandler'
  <2>1. At("return")' = FALSE
    BY <1>7, <1>9 DEF At
  <2> QED
    BY <1>1, <1>3, <1>4, <1>7, <1>9, <1>12, <1>13, <1>14, <2>1 DEF InHandler
<1>16. InNested'
  <2>1. Len(stack') \in {17, 19}
    BY <1>13, <1>14
  <2> QED
    BY <2>1, ShortStack
<1> QED
  BY <1>7, <1>9, <1>10, <1>11, <1>15, <1>16, KernelPlace

(***************************************************************************)
(* The frame of a fault in a system call goes above that of the call       *)
(* (intsetup.s:5-30, 76-130).                                              *)
(***************************************************************************)
LEMMA NestedStubEffect ==
  ASSUME InterruptsInv, Stub, Nested
  PROVE  /\ Stuck /\ FaultAbove(4)
         /\ At("stub") /\ Vector = PAGE_FAULT
         /\ stack' \in Seq(Words)
         /\ Len(stack') = 13 + Len(stack)
         /\ \A i \in 1 .. 12 : stack'[i] = cpu[CPURegister[i]]
         /\ stack'[13] = Number(PAGE_FAULT)
         /\ \A i \in 1 .. 23 : stack'[13 + i] = stack[i]
<1>1. At("stub") /\ Stuck /\ FaultAbove(4) /\ Vector = PAGE_FAULT
  BY DEF Stub, InterruptsInv, InNested
<1>2. ErrorCodes(PAGE_FAULT) = 1
  BY DEF ErrorCodes, ErrorCodeVectors, PAGE_FAULT
<1>3. PICK frame : Pushed(PAGE_FAULT, 1, frame)
  BY <1>1, <1>2, StubPush
<1>4. Privilege(cpu["ds"]) = 0
  BY <1>1, SelectorFacts DEF Stuck, SegmentsAre, DataSegments
<1>5. stack' = frame
  BY <1>3, <1>4 DEF Pushed
<1>6. /\ frame \in Seq(Words)
      /\ Len(frame) = 14 - 1 + Len(stack)
      /\ \A i \in 1 .. 12 : frame[i] = cpu[CPURegister[i]]
      /\ frame[13] = Number(PAGE_FAULT)
      /\ \A i \in 1 .. Len(stack) : frame[14 - 1 + i] = stack[i]
  BY <1>3, Zenon DEF Pushed
<1>7. Len(stack) = 23 /\ 14 - 1 = 13
  BY <1>1 DEF FaultAbove
<1> QED
  BY <1>1, <1>5, <1>6, <1>7, Zenon

LEMMA NestedStubInv ==
  ASSUME InterruptsInv, Stub, Nested
  PROVE  InterruptsInv'
<1>1. /\ Stuck /\ FaultAbove(4)
      /\ At("stub") /\ Vector = PAGE_FAULT
      /\ stack' \in Seq(Words)
      /\ Len(stack') = 13 + Len(stack)
      /\ \A i \in 1 .. 12 : stack'[i] = cpu[CPURegister[i]]
      /\ stack'[13] = Number(PAGE_FAULT)
      /\ \A i \in 1 .. 23 : stack'[13 + i] = stack[i]
  BY NestedStubEffect
<1>2. /\ cpu \in [AllRegisters -> Words]
      /\ cpu["cs"] = KernelCode /\ cpu["ss"] = KernelData
      /\ UNCHANGED <<iflag, context, running, active_process_count, pic>>
  BY <1>1, ModeFacts DEF InterruptsInv, Typed, Stub, At
<1>3. PICK eip : eip = Code("main_interrupt_handler", PAGE_FAULT)
  OBVIOUS
<1>4. /\ eip \in Words /\ eip[1] = Kernel /\ eip[2] = PAGE_FAULT
      /\ eip[3] = "main_interrupt_handler"
      /\ "main_interrupt_handler" \in Places
  <2>1. "main_interrupt_handler" \in Places /\ PAGE_FAULT \in Nat
    BY DEF Places, PAGE_FAULT
  <2> QED
    BY <1>3, <2>1, CodeFacts, Zenon
<1>5. \A r \in AllRegisters :
        cpu'[r] = IF r \in DataSegments THEN KernelData
                  ELSE IF r = "eip" THEN eip ELSE cpu[r]
  BY <1>1, <1>2, <1>3 DEF Stub, Vector
<1>6. cpu' \in [AllRegisters -> Words]
  <2>1. cpu' = [r \in AllRegisters |-> cpu'[r]]
    BY <1>2 DEF Stub
  <2> QED
    BY <1>2, <1>4, <1>5, <2>1, SelectorFacts
<1>7. /\ cpu'["cs"] = KernelCode /\ cpu'["ss"] = KernelData
      /\ cpu'["eip"] = eip
      /\ SegmentsAre(KernelData)'
  BY <1>2, <1>5, RegisterFacts DEF SegmentsAre
<1>8. Typed'
  BY <1>1, <1>2, <1>6 DEF InterruptsInv, Typed
<1>9. Started' /\ Contexts'
  BY <1>2 DEF InterruptsInv, Started, Contexts
<1>10. FaultAbove(17)'
  <2>1. /\ Len(stack) = 23
        /\ stack[2] = Code("unmapped_access", SYSCALL) /\ stack[3] = KernelCode
        /\ stack[4][3] = "masked" /\ stack[17] = Number(SYSCALL)
    BY <1>1 DEF FaultAbove
  <2>2. Len(stack') = 17 + 19
    BY <1>1, <2>1
  <2>3. /\ stack'[17 - 2] = stack[2] /\ stack'[17 - 1] = stack[3]
        /\ stack'[17] = stack[4] /\ stack'[17 + 13] = stack[17]
    BY <1>1
  <2> QED
    BY <2>1, <2>2, <2>3 DEF FaultAbove
<1>11. \A i \in 9 .. 12 : stack'[i] = KernelData
  <2>1. SegmentsAre(KernelData)
    BY <1>1 DEF Stuck
  <2>2. \A i \in 9 .. 12 : stack'[i] = cpu[CPURegister[i]]
    <3>1. \A i \in 9 .. 12 : i \in 1 .. 12
      OBVIOUS
    <3> QED
      BY <1>1, <3>1, Zenon
  <2> QED
    BY <2>1, <2>2, PushedSegments, Zenon
<1>12. Nested'
  BY <1>10 DEF Nested, FaultAbove
<1>13. InNested'
  <2>1. InKernel' /\ At("main_interrupt_handler")' /\ ~At("stub")'
    BY <1>4, <1>7, SelectorFacts DEF InKernel, At
  <2>2. Stuck'
    BY <1>1, <1>2, <1>7 DEF Stuck
  <2> QED
    BY <1>1, <1>4, <1>7, <1>10, <1>11, <2>1, <2>2 DEF InNested, Vector
<1>14. InHandler'
  BY <1>12 DEF InHandler
<1> QED
  BY <1>4, <1>7, <1>8, <1>9, <1>13, <1>14, KernelPlace

LEMMA StubInv == InterruptsInv /\ Stub => InterruptsInv'
BY OuterStubInv, NestedStubInv

-----------------------------------------------------------------------------
(* The handler *)

\* Where the handler finds the words of the frame.
LEMMA FrameFacts ==
  /\ \A r \in Registers : Position(r, InterruptFrame) \in 1 .. 17
  /\ \A r \in DataSegments : Position(r, InterruptFrame) \in 9 .. 12
  /\ Position("int_number", InterruptFrame) = 13
  /\ Position("eip", InterruptFrame) = 15
  /\ Position("cs", InterruptFrame) = 16
  /\ Position("eflags", InterruptFrame) = 17
  /\ Position("esp", InterruptFrame) = 4
  /\ \A r \in Plain : /\ Position(r, InterruptFrame) \in 1 .. 12
                      /\ Position(r, InterruptFrame) # 4
                      /\ CPURegister[Position(r, InterruptFrame)] = r
<1> USE DEF CPURegister, InterruptFrame, Position
<1>1. /\ Position("edi", InterruptFrame) = 1
      /\ Position("esi", InterruptFrame) = 2
      /\ Position("ebp", InterruptFrame) = 3
      /\ Position("esp", InterruptFrame) = 4
  OBVIOUS
<1>2. /\ Position("ebx", InterruptFrame) = 5
      /\ Position("edx", InterruptFrame) = 6
      /\ Position("ecx", InterruptFrame) = 7
      /\ Position("eax", InterruptFrame) = 8
  OBVIOUS
<1>3. /\ Position("gs", InterruptFrame) = 9
      /\ Position("fs", InterruptFrame) = 10
      /\ Position("es", InterruptFrame) = 11
      /\ Position("ds", InterruptFrame) = 12
  OBVIOUS
<1>4. /\ Position("int_number", InterruptFrame) = 13
      /\ Position("eip", InterruptFrame) = 15
  OBVIOUS
<1>5. /\ Position("cs", InterruptFrame) = 16
      /\ Position("eflags", InterruptFrame) = 17
  OBVIOUS
<1>6. /\ CPURegister[1] = "edi" /\ CPURegister[2] = "esi" /\ CPURegister[3] = "ebp"
      /\ CPURegister[5] = "ebx" /\ CPURegister[6] = "edx" /\ CPURegister[7] = "ecx"
      /\ CPURegister[8] = "eax" /\ CPURegister[9] = "gs" /\ CPURegister[10] = "fs"
      /\ CPURegister[11] = "es" /\ CPURegister[12] = "ds"
  OBVIOUS
<1> HIDE DEF CPURegister, InterruptFrame, Position
<1>7. Plain = {"edi", "esi", "ebp", "ebx", "edx", "ecx", "eax", "gs", "fs", "es", "ds"}
  BY DEF Plain, Registers, General, DataSegments
<1>8. \A r \in Plain : /\ Position(r, InterruptFrame) \in 1 .. 12
                       /\ Position(r, InterruptFrame) # 4
                       /\ CPURegister[Position(r, InterruptFrame)] = r
  BY <1>1, <1>2, <1>3, <1>6, <1>7
<1>9. \A r \in DataSegments : Position(r, InterruptFrame) \in 9 .. 12
  BY <1>3 DEF DataSegments
<1>10. \A r \in Registers : Position(r, InterruptFrame) \in 1 .. 17
  BY <1>1, <1>4, <1>5, <1>8, PlainFacts
<1> QED
  BY <1>1, <1>4, <1>5, <1>8, <1>9, <1>10

PicStates == [requested : SUBSET Lines, masked : SUBSET Lines, serving : SUBSET Lines]

\* One acknowledgement, or two, end a service in progress (pic.c:19-23).
LEMMA AckFacts ==
  ASSUME NEW p \in PicStates, p.serving = {} \/ \E irq \in Lines : p.serving = {irq}
  PROVE  /\ pic_ack(p) \in PicStates
         /\ pic_ack(p).serving = {}
         /\ pic_ack(p).masked = p.masked
<1>1. CASE p.serving = {}
  BY <1>1 DEF pic_ack, Acknowledged
<1>2. ASSUME NEW irq \in Lines, p.serving = {irq}
      PROVE  /\ pic_ack(p) \in PicStates
             /\ pic_ack(p).serving = {}
             /\ pic_ack(p).masked = p.masked
  <2>1. Highest({irq}) = irq
    BY HighestFacts
  <2>2. pic_ack(p) = [p EXCEPT !.serving = {irq} \ {irq}]
    BY <1>2, <2>1 DEF pic_ack, Acknowledged
  <2> QED
    BY <2>2 DEF PicStates
<1> QED
  BY <1>1, <1>2

LEMMA GoToFacts ==
  ASSUME cpu \in [AllRegisters -> Words], NEW place \in Places, GoTo(place),
         NEW v \in Nat, v = Vector
  PROVE  /\ cpu' \in [AllRegisters -> Words]
         /\ cpu'["eip"] = Code(place, v)
         /\ cpu'["eip"][1] = Kernel /\ cpu'["eip"][2] = v /\ cpu'["eip"][3] = place
         /\ \A r \in AllRegisters : r # "eip" => cpu'[r] = cpu[r]
<1>1. cpu' = [cpu EXCEPT !["eip"] = Code(place, v)]
  BY DEF GoTo, Vector
<1>2. /\ Code(place, v) \in Words
      /\ Code(place, v)[1] = Kernel
      /\ Code(place, v)[2] = v
      /\ Code(place, v)[3] = place
  BY CodeFacts
<1>3. cpu'["eip"] = Code(place, v)
  BY <1>1, RegisterFacts
<1> QED
  BY <1>1, <1>2, <1>3

\* What is known where main_interrupt_handler starts.
LEMMA HandlerFacts ==
  ASSUME InterruptsInv, At("main_interrupt_handler"), NEW v, v = Vector
  PROVE  /\ v \in 0 .. 63
         /\ Frame("int_number") = Number(v)
         /\ pic \in PicStates
         /\ pic.serving = {irq \in Lines : v = PIC1_OFFSET + irq}
         /\ running = Nobody => v = PIC1_OFFSET + IRQ_KEYBOARD
         /\ Nested => v = PAGE_FAULT
<1>1. /\ Vector \in 0 .. 63
      /\ stack[13] = Number(Vector)
      /\ ServesVector
      /\ running = Nobody => Vector = PIC1_OFFSET + IRQ_KEYBOARD
      /\ Nested => Vector = PAGE_FAULT
  <2>1. CASE ~Nested
    BY <2>1 DEF InterruptsInv, InHandler, Vector
  <2>2. CASE Nested
    <3>1. /\ Stuck /\ Vector = PAGE_FAULT /\ ~At("stub")
          /\ stack[13] = Number(PAGE_FAULT)
      BY <2>2 DEF InterruptsInv, InNested, At
    <3>2. ServesVector
      BY <3>1 DEF ServesVector, Stuck, Vector, PAGE_FAULT, Lines, PIC1_OFFSET, IRQ_TIMER,
                  IRQ_KEYBOARD
    <3> QED
      BY <3>1, <3>2 DEF Stuck, PAGE_FAULT
  <2> QED
    BY <2>1, <2>2
<1>2. Frame("int_number") = Number(Vector)
  BY <1>1, FrameFacts DEF Frame
<1>3. pic \in PicStates
  BY DEF InterruptsInv, Typed, PicStates
<1> QED
  BY <1>1, <1>2, <1>3 DEF ServesVector, Vector

(***************************************************************************)
(* However the C handler ends, the frame is as it was, and nothing is left *)
(* in service.                                                             *)
(***************************************************************************)
LEMMA HandlerReturns ==
  ASSUME InterruptsInv, At("main_interrupt_handler"), GoTo("return"),
         UNCHANGED <<iflag, stack, running>>,
         pic' \in PicStates, pic'.masked = pic.masked, pic'.serving = {},
         context' \in [Processes -> [Registers -> Words]],
         active_process_count' \in 0 .. PROCESS_COUNT_MAX,
         active_process_count' >= active_process_count,
         running = Nobody => active_process_count' = active_process_count,
         Contexts'
  PROVE  InterruptsInv'
<1> DEFINE v == Vector
<1>1. v \in 0 .. 63 /\ v \in Nat
  BY HandlerFacts
<1> HIDE DEF v
<1>2. "return" \in Places /\ cpu \in [AllRegisters -> Words]
  BY DEF Places, InterruptsInv, Typed
<1>3. /\ cpu' \in [AllRegisters -> Words]
      /\ cpu'["eip"][1] = Kernel /\ cpu'["eip"][2] = v /\ cpu'["eip"][3] = "return"
      /\ \A r \in AllRegisters : r # "eip" => cpu'[r] = cpu[r]
  BY <1>1, <1>2, GoToFacts DEF v
<1>4. /\ cpu["cs"] = KernelCode /\ cpu["ss"] = KernelData
      /\ SegmentsAre(KernelData)
  BY ModeFacts DEF InterruptsInv, InHandler, InNested, Stuck, At
<1>5. /\ cpu'["cs"] = KernelCode /\ cpu'["ss"] = KernelData
      /\ SegmentsAre(KernelData)'
  BY <1>3, <1>4, RegisterFacts DEF SegmentsAre
<1>6. Typed'
  BY <1>3 DEF InterruptsInv, Typed, PicStates
<1>7. Started'
  BY DEF InterruptsInv, Started, Typed, Processes, Nobody
<1>8. At("main_interrupt_handler")' = FALSE
  BY <1>3 DEF At
<1>9. running = Nobody => SetupDone(stack[15][2]) = SetupDone(stack[15][2])'
  BY DEF SetupDone
<1>10. InHandler'
  BY <1>1, <1>3, <1>5, <1>8, <1>9 DEF InterruptsInv, InHandler, Nested, v, Vector
<1>11. InNested'
  <2>1. InKernel' /\ At("return")' /\ ~At("stub")' /\ ~At("stub")
    BY <1>3, <1>5, SelectorFacts DEF InKernel, At
  <2>2. Nested' = Nested
    BY DEF Nested
  <2>3. Nested => Stuck' /\ v = PAGE_FAULT
    BY <1>5, HandlerFacts DEF InterruptsInv, InNested, Stuck, v
  <2>4. FaultAbove(17) => FaultAbove(17)'
    BY DEF FaultAbove
  <2> QED
    BY <1>3, <2>1, <2>2, <2>3, <2>4 DEF InterruptsInv, InNested, Vector
<1> QED
  BY <1>2, <1>3, <1>5, <1>6, <1>7, <1>10, <1>11, KernelPlace

LEMMA FreshFile ==
  ASSUME NEW p \in Int
  PROVE  UserFile(Fresh(p)) /\ Fresh(p) \in [Registers -> Words]
<1>1. \A r \in DataSegments : Fresh(p)[r] = UserData
  BY DEF Fresh, DataSegments, Registers
<1>2. /\ Fresh(p)["eip"] = <<p, 0, "entry">>
      /\ Fresh(p)["eflags"] = <<p, 0, "eflags">>
  BY RegisterFacts DEF Fresh
<1>3. /\ <<p, 0, "top">> \in Words /\ <<p, 0, "entry">> \in Words
      /\ <<p, 0, "eflags">> \in Words
  BY DEF Words, Names, Registers
<1>4. Number(0) \in Words
  BY NumberFacts
<1>5. \A r \in Registers : Fresh(p)[r] \in Words
  BY <1>3, <1>4, SelectorFacts DEF Fresh
<1>6. Fresh(p) = [r \in Registers |-> Fresh(p)[r]]
  BY DEF Fresh
<1> QED
  BY <1>1, <1>2, <1>5, <1>6 DEF UserFile

LEMMA CreateProcessFacts ==
  ASSUME InterruptsInv, CreateProcess
  PROVE  /\ context' \in [Processes -> [Registers -> Words]]
         /\ active_process_count' \in 0 .. PROCESS_COUNT_MAX
         /\ active_process_count' = active_process_count + 1
         /\ Contexts'
<1>1. /\ active_process_count \in Processes
      /\ active_process_count' = active_process_count + 1
      /\ active_process_count' \in 0 .. PROCESS_COUNT_MAX
      /\ context' = [context EXCEPT ![active_process_count] = Fresh(active_process_count)]
      /\ context \in [Processes -> [Registers -> Words]]
  BY InterruptsAssumption DEF InterruptsInv, Typed, CreateProcess, Processes
<1>2. active_process_count \in Int
  BY <1>1 DEF Processes
<1>3. UserFile(Fresh(active_process_count)) /\ Fresh(active_process_count) \in [Registers -> Words]
  BY <1>2, FreshFile
<1>4. context' \in [Processes -> [Registers -> Words]]
  BY <1>1, <1>3
<1>5. Contexts'
  <2> SUFFICES ASSUME NEW p \in Processes, p < active_process_count + 1
               PROVE  UserFile(context'[p])
    BY <1>1 DEF Contexts
  <2>1. CASE p = active_process_count
    BY <1>1, <1>3, <2>1
  <2>2. CASE p # active_process_count
    <3>1. p < active_process_count
      BY <1>1, <2>2 DEF Processes
    <3>2. context'[p] = context[p]
      BY <1>1, <2>2
    <3> QED
      BY <3>1, <3>2 DEF InterruptsInv, Contexts
  <2> QED
    BY <2>1, <2>2
<1> QED
  BY <1>1, <1>4, <1>5

\* The frame of a program is what its control block gets.
LEMMA SavedFrame ==
  ASSUME InterruptsInv, At("main_interrupt_handler"), ~Nested, running # Nobody,
         NEW f, f = [r \in Registers |-> Frame(r)]
  PROVE  f \in [Registers -> Words] /\ UserFile(f)
<1>1. /\ Len(stack) = 19
      /\ \A i \in 9 .. 12 : stack[i] = UserData
      /\ stack[15][2] \in {0, 1}
      /\ stack[17][3] = "eflags"
      /\ stack \in Seq(Words)
  BY DEF InterruptsInv, Typed, InHandler
<1>2. \A i \in 1 .. 19 : stack[i] \in Words
  BY <1>1, SeqFacts, Zenon
<1>3. \A r \in Registers : f[r] = stack[Position(r, InterruptFrame)]
  BY DEF Frame
<1>4. \A r \in Registers : f[r] \in Words
  BY <1>2, <1>3, FrameFacts
<1>5. \A r \in DataSegments : f[r] = UserData
  BY <1>1, <1>3, FrameFacts, RegisterFacts
<1>6. f["eip"] = stack[15] /\ f["eflags"] = stack[17]
  BY <1>3, FrameFacts, RegisterFacts
<1> QED
  BY <1>1, <1>4, <1>5, <1>6 DEF UserFile

\* The next slot is one that has been created (scheduler.c:67-90).
LEMMA NextProcessFacts ==
  ASSUME running \in Processes \cup {Nobody},
         active_process_count \in 1 .. PROCESS_COUNT_MAX
  PROVE  /\ NextProcess \in Processes
         /\ NextProcess # Nobody
         /\ NextProcess < active_process_count
<1>1. CASE running = Nobody
  BY <1>1, InterruptsAssumption DEF NextProcess, Processes, Nobody
<1>2. CASE running # Nobody
  <2>1. running \in Processes
    BY <1>2
  <2> QED
    BY <1>2, <2>1, InterruptsAssumption DEF NextProcess, Processes, Nobody
<1> QED
  BY <1>1, <1>2

LEMMA TimerHandlerInv ==
  ASSUME InterruptsInv, At("main_interrupt_handler"), TimerHandler,
         Vector = PIC1_OFFSET + IRQ_TIMER
  PROVE  InterruptsInv'
<1> USE DEF TimerHandler
<1>1. running # Nobody /\ pic \in PicStates /\ ~Nested
  BY HandlerFacts DEF PIC1_OFFSET, IRQ_TIMER, IRQ_KEYBOARD, PAGE_FAULT
<1>2. pic.serving = {irq \in Lines : PIC1_OFFSET + IRQ_TIMER = PIC1_OFFSET + irq}
  BY HandlerFacts
<1>3. \E irq \in Lines : pic.serving = {irq}
  BY <1>2 DEF Lines, PIC1_OFFSET, IRQ_TIMER, IRQ_KEYBOARD
<1>4. /\ pic' \in PicStates
      /\ pic'.serving = {}
      /\ pic'.masked = pic.masked
  BY <1>1, <1>3, AckFacts
<1>5. /\ running < active_process_count
      /\ pic.masked = {}
      /\ running \in Processes
      /\ active_process_count \in 0 .. PROCESS_COUNT_MAX
      /\ context \in [Processes -> [Registers -> Words]]
  BY <1>1 DEF InterruptsInv, Typed, Started
<1>6. PICK f : f = [r \in Registers |-> Frame(r)]
  OBVIOUS
<1>7. f \in [Registers -> Words] /\ UserFile(f)
  BY <1>1, <1>6, SavedFrame
<1>8. context' = [context EXCEPT ![running] = f]
  BY <1>1, <1>6
<1>9. context' \in [Processes -> [Registers -> Words]]
  BY <1>5, <1>7, <1>8
<1>10. Contexts'
  <2> SUFFICES ASSUME NEW p \in Processes, p < active_process_count
               PROVE  UserFile(context'[p])
    BY DEF Contexts
  <2>1. UserFile(context[p])
    BY DEF InterruptsInv, Contexts
  <2>2. context'[p] = IF p = running THEN f ELSE context[p]
    BY <1>5, <1>8
  <2> QED
    BY <1>7, <2>1, <2>2
<1>11. active_process_count \in 1 .. PROCESS_COUNT_MAX
  BY <1>5 DEF Processes
<1>12. /\ running' \in Processes /\ running' # Nobody
       /\ running' < active_process_count
  BY <1>5, <1>11, NextProcessFacts
<1> DEFINE v == Vector
<1>13. v \in Nat
  BY DEF PIC1_OFFSET, IRQ_TIMER
<1> HIDE DEF v
<1>14. /\ "process_context_switch" \in Places
       /\ cpu \in [AllRegisters -> Words]
       /\ GoTo("process_context_switch")
  BY DEF Places, InterruptsInv, Typed
<1>15. /\ cpu' \in [AllRegisters -> Words]
       /\ cpu'["eip"][3] = "process_context_switch"
       /\ \A r \in AllRegisters : r # "eip" => cpu'[r] = cpu[r]
  BY <1>13, <1>14, GoToFacts DEF v
<1>16. cpu'["cs"] = KernelCode /\ cpu'["ss"] = KernelData
  BY <1>15, ModeFacts, RegisterFacts DEF InterruptsInv, At
<1>17. Typed'
  BY <1>4, <1>9, <1>12, <1>15 DEF InterruptsInv, Typed, PicStates
<1>18. Started'
  BY <1>4, <1>5, <1>12 DEF Started
<1>19. InSwitch'
  BY <1>1, <1>4, <1>12 DEF InSwitch, InterruptsInv, InHandler
<1>20. InNested'
  <2>1. Len(stack)' = 19 /\ 19 \in 0 .. 19
    BY <1>1 DEF InterruptsInv, InHandler
  <2> QED
    BY <2>1, ShortStack
<1> QED
  BY <1>10, <1>14, <1>15, <1>16, <1>17, <1>18, <1>19, <1>20, KernelPlace

\* A system call that does not return: its frame stays as it is.
LEMMA StuckInv ==
  ASSUME InterruptsInv, At("main_interrupt_handler"), Vector = SYSCALL,
         NEW place \in {"unmapped_access", "cluster_search"}, GoTo(place),
         UNCHANGED <<iflag, stack, context, running, active_process_count, pic>>
  PROVE  InterruptsInv'
<1>1. ~Nested
  BY HandlerFacts DEF SYSCALL, PAGE_FAULT
<1>2. /\ ~iflag /\ SegmentsAre(KernelData)
      /\ stack[13] = Number(SYSCALL)
      /\ running # Nobody /\ Len(stack) = 19
  BY <1>1 DEF InterruptsInv, InHandler, Vector, SYSCALL, PIC1_OFFSET, IRQ_KEYBOARD
<1>3. pic.serving = {}
  BY HandlerFacts DEF Lines, SYSCALL, PIC1_OFFSET, IRQ_TIMER, IRQ_KEYBOARD
<1>4. /\ place \in Places /\ SYSCALL \in Nat
      /\ cpu \in [AllRegisters -> Words]
      /\ cpu["cs"] = KernelCode /\ cpu["ss"] = KernelData
  BY ModeFacts DEF Places, SYSCALL, InterruptsInv, Typed, At
<1>5. /\ cpu' \in [AllRegisters -> Words]
      /\ cpu'["eip"] = Code(place, SYSCALL) /\ cpu'["eip"][3] = place
      /\ \A r \in AllRegisters : r # "eip" => cpu'[r] = cpu[r]
  BY <1>4, GoToFacts
<1>6. /\ cpu'["cs"] = KernelCode /\ cpu'["ss"] = KernelData
      /\ SegmentsAre(KernelData)'
  BY <1>2, <1>4, <1>5, RegisterFacts DEF SegmentsAre
<1>7. Typed' /\ Started' /\ Contexts'
  BY <1>5 DEF InterruptsInv, Typed, Started, Contexts
<1>8. InCall'
  <2>1. Stuck'
    BY <1>2, <1>3, <1>6 DEF Stuck
  <2>2. At("unmapped_access")' => cpu'["eip"] = Code("unmapped_access", SYSCALL)
    BY <1>5 DEF At
  <2> QED
    BY <1>2, <2>1, <2>2 DEF InCall
<1>9. InNested'
  BY <1>2, ShortStack
<1> QED
  BY <1>4, <1>5, <1>6, <1>7, <1>8, <1>9, KernelPlace

LEMMA HandlerInv == InterruptsInv /\ main_interrupt_handler => InterruptsInv'
<1> SUFFICES ASSUME InterruptsInv, main_interrupt_handler
             PROVE  InterruptsInv'
  OBVIOUS
<1>1. At("main_interrupt_handler")
  BY DEF main_interrupt_handler
<1>2. PICK v : v = Vector
  OBVIOUS
<1>3. /\ v \in 0 .. 63 /\ v \in Nat
      /\ Frame("int_number") = Number(v)
      /\ pic \in PicStates
      /\ pic.serving = {irq \in Lines : v = PIC1_OFFSET + irq}
      /\ running = Nobody => v = PIC1_OFFSET + IRQ_KEYBOARD
  BY <1>1, <1>2, HandlerFacts
<1>4. \A n \in Nat : Frame("int_number") = Number(n) <=> v = n
  BY <1>3, NumberFacts
<1>5. /\ context \in [Processes -> [Registers -> Words]]
      /\ active_process_count \in 0 .. PROCESS_COUNT_MAX
      /\ Contexts
  BY DEF InterruptsInv, Typed
<1>6. /\ PIC1_OFFSET + IRQ_KEYBOARD = 33 /\ PIC1_OFFSET + IRQ_TIMER = 32 /\ SYSCALL = 48
  BY DEF PIC1_OFFSET, IRQ_KEYBOARD, IRQ_TIMER, SYSCALL
<1>7. CASE v = 33
  <2>1. KeyboardHandler
    BY <1>1, <1>4, <1>6, <1>7 DEF main_interrupt_handler
  <2>2. \E irq \in Lines : pic.serving = {irq}
    BY <1>3, <1>7 DEF Lines, PIC1_OFFSET, IRQ_TIMER, IRQ_KEYBOARD
  <2>3. /\ pic_ack(pic) \in PicStates
        /\ pic_ack(pic).serving = {}
        /\ pic_ack(pic).masked = pic.masked
    BY <1>3, <2>2, AckFacts
  <2>4. /\ pic_ack(pic_ack(pic)) \in PicStates
        /\ pic_ack(pic_ack(pic)).serving = {}
        /\ pic_ack(pic_ack(pic)).masked = pic.masked
    BY <2>3, AckFacts
  <2>5. pic' \in PicStates /\ pic'.masked = pic.masked /\ pic'.serving = {}
    BY <2>1, <2>3, <2>4 DEF KeyboardHandler
  <2>6. Contexts'
    BY <1>5, <2>1 DEF KeyboardHandler, Contexts
  <2> QED
    BY <1>1, <1>5, <2>1, <2>5, <2>6, HandlerReturns DEF KeyboardHandler
<1>8. ASSUME v # 33, v # 32
      PROVE  pic.serving = {} /\ running # Nobody
  BY <1>3, <1>6, <1>8 DEF Lines, PIC1_OFFSET, IRQ_TIMER, IRQ_KEYBOARD
<1>9. CASE v = 48
  <2>1. SyscallHandler
    <3>1. Frame("int_number") # Number(PIC1_OFFSET + IRQ_KEYBOARD) /\ Frame("int_number") = Number(SYSCALL)
      BY <1>4, <1>6, <1>9
    <3>2. Frame("int_number") # Number(PIC1_OFFSET + IRQ_TIMER)
      BY <1>4, <1>6, <1>9
    <3> QED
      BY <3>1, <3>2 DEF main_interrupt_handler
  <2>2. pic' \in PicStates /\ pic'.masked = pic.masked /\ pic'.serving = {}
    BY <1>3, <1>8, <1>9, <2>1 DEF SyscallHandler
  <2>3. ASSUME CreateProcess \/ UNCHANGED <<context, active_process_count>>, GoTo("return")
        PROVE  InterruptsInv'
    <3>1. /\ context' \in [Processes -> [Registers -> Words]]
          /\ active_process_count' \in 0 .. PROCESS_COUNT_MAX
          /\ active_process_count' >= active_process_count
          /\ Contexts'
      <4>1. CASE CreateProcess
        BY <1>5, <4>1, CreateProcessFacts
      <4>2. CASE UNCHANGED <<context, active_process_count>>
        BY <1>5, <4>2 DEF Contexts
      <4> QED
        BY <2>3, <4>1, <4>2
    <3> QED
      BY <1>1, <1>8, <1>9, <2>1, <2>2, <2>3, <3>1, HandlerReturns DEF SyscallHandler
  <2>4. ASSUME GoTo("unmapped_access") \/ GoTo("cluster_search"),
               UNCHANGED <<context, active_process_count>>
        PROVE  InterruptsInv'
    BY <1>1, <1>2, <1>6, <1>9, <2>1, <2>4, StuckInv DEF SyscallHandler
  <2> QED
    BY <2>1, <2>3, <2>4 DEF SyscallHandler
<1>10. CASE v = 32
  <2>1. TimerHandler
    <3>1. Frame("int_number") # Number(PIC1_OFFSET + IRQ_KEYBOARD) /\ Frame("int_number") # Number(SYSCALL)
      BY <1>4, <1>6, <1>10
    <3>2. Frame("int_number") = Number(PIC1_OFFSET + IRQ_TIMER)
      BY <1>4, <1>6, <1>10
    <3> QED
      BY <3>1, <3>2 DEF main_interrupt_handler
  <2> QED
    BY <1>1, <1>2, <1>6, <1>10, <2>1, TimerHandlerInv
<1>11. CASE v \notin {32, 33, 48}
  <2>1. NoHandler
    <3>1. Frame("int_number") # Number(PIC1_OFFSET + IRQ_KEYBOARD) /\ Frame("int_number") # Number(SYSCALL)
      BY <1>4, <1>6, <1>11
    <3>2. Frame("int_number") # Number(PIC1_OFFSET + IRQ_TIMER)
      BY <1>4, <1>6, <1>11
    <3> QED
      BY <3>1, <3>2 DEF main_interrupt_handler
  <2>2. pic' \in PicStates /\ pic'.masked = pic.masked /\ pic'.serving = {}
    BY <1>3, <1>8, <1>11, <2>1 DEF NoHandler
  <2>3. Contexts'
    BY <1>5, <2>1 DEF NoHandler, Contexts
  <2> QED
    BY <1>1, <1>5, <2>1, <2>2, <2>3, HandlerReturns DEF NoHandler
<1> QED
  BY <1>7, <1>9, <1>10, <1>11

-----------------------------------------------------------------------------
(* Out of the kernel *)

Resumed(regs, frame) ==
  /\ iflag' = (frame[3][3] = "eflags")
  /\ stack' = IF frame[2] = UserCode THEN <<>> ELSE SubSeq(frame, 4, Len(frame))
  /\ cpu' = [r \in AllRegisters |-> cpu'[r]]
  /\ cpu'["eip"] = frame[1]
  /\ cpu'["cs"] = frame[2]
  /\ cpu'["eflags"] = frame[3]
  /\ cpu'["esp"] = IF frame[2] = UserCode THEN frame[4] ELSE regs["esp"]
  /\ cpu'["ss"] = IF frame[2] = UserCode THEN frame[5] ELSE regs["ss"]
  /\ \A r \in Registers : r \notin {"eip", "eflags", "esp"} => cpu'[r] = regs[r]

\* What iret takes from its frame, with and without a change of privilege.
LEMMA IretFacts ==
  ASSUME NEW regs \in [AllRegisters -> Words], regs["cs"] = KernelCode,
         NEW frame, frame[2] \in {KernelCode, UserCode},
         Iret(regs, frame)
  PROVE  Resumed(regs, frame)
<1> DEFINE outer == frame[2] = UserCode
<1>1. Privilege(frame[2]) > Privilege(regs["cs"]) <=> outer
  <2>1. Privilege(regs["cs"]) = 0 /\ Privilege(UserCode) = 3 /\ Privilege(KernelCode) = 0
    BY SelectorFacts
  <2>2. CASE frame[2] = UserCode
    BY <2>1, <2>2
  <2>3. CASE frame[2] = KernelCode
    BY <2>1, <2>3, SelectorFacts
  <2> QED
    BY <2>2, <2>3
<1>2. /\ cpu' = [regs EXCEPT !["eip"] = frame[1], !["cs"] = frame[2], !["eflags"] = frame[3],
                             !["esp"] = IF outer THEN frame[4] ELSE @,
                             !["ss"] = IF outer THEN frame[5] ELSE @]
      /\ iflag' = (frame[3][3] = "eflags")
      /\ stack' = IF outer THEN <<>> ELSE SubSeq(frame, 4, Len(frame))
  BY <1>1 DEF Iret
<1>3. \A r \in AllRegisters :
        cpu'[r] = IF r = "eip" THEN frame[1] ELSE IF r = "cs" THEN frame[2]
                  ELSE IF r = "eflags" THEN frame[3]
                  ELSE IF r = "esp" THEN (IF outer THEN frame[4] ELSE regs["esp"])
                  ELSE IF r = "ss" THEN (IF outer THEN frame[5] ELSE regs["ss"])
                  ELSE regs[r]
  BY <1>2
<1>4. cpu' = [r \in AllRegisters |-> cpu'[r]]
  BY <1>2
<1>5. /\ "eip" \in AllRegisters /\ "cs" \in AllRegisters /\ "eflags" \in AllRegisters
      /\ "esp" \in AllRegisters /\ "ss" \in AllRegisters
  BY DEF AllRegisters, General
<1>6. iflag' = (frame[3][3] = "eflags")
  BY <1>2, Zenon
<1>7. \A r \in Registers : r \notin {"eip", "eflags", "esp"} => cpu'[r] = regs[r]
  BY <1>3, RegisterFacts
<1> QED
  BY <1>2, <1>3, <1>4, <1>5, <1>6, <1>7 DEF Resumed

LEMMA PopFacts ==
  /\ \A r \in AllRegisters : r \in {PopOrder[i] : i \in DOMAIN PopOrder} <=> r \in Plain
  /\ \A r \in Plain : /\ Position(r, PopOrder) = Position(r, InterruptFrame)
                      /\ Position(r, PopOrder) \in 1 .. 12
  /\ \A r \in DataSegments : Position(r, PopOrder) \in 9 .. 12
  /\ Len(PopOrder) = 12
<1>1. /\ DOMAIN PopOrder = 1 .. 12
      /\ Len(PopOrder) = 12
  BY DEF PopOrder
<1>2. {PopOrder[i] : i \in 1 .. 12} =
        {"edi", "esi", "ebp", "skipped", "ebx", "edx", "ecx", "eax", "gs", "fs", "es", "ds"}
  BY DEF PopOrder
<1>3. Plain = {"edi", "esi", "ebp", "ebx", "edx", "ecx", "eax", "gs", "fs", "es", "ds"}
  BY DEF Plain, Registers, General, DataSegments
<1>4. "skipped" \notin AllRegisters
  BY DEF AllRegisters, General, DataSegments
<1>5. /\ Position("edi", PopOrder) = 1 /\ Position("esi", PopOrder) = 2
      /\ Position("ebp", PopOrder) = 3 /\ Position("ebx", PopOrder) = 5
  BY DEF Position, PopOrder
<1>6. /\ Position("edx", PopOrder) = 6 /\ Position("ecx", PopOrder) = 7
      /\ Position("eax", PopOrder) = 8 /\ Position("gs", PopOrder) = 9
  BY DEF Position, PopOrder
<1>7. /\ Position("fs", PopOrder) = 10 /\ Position("es", PopOrder) = 11
      /\ Position("ds", PopOrder) = 12
  BY DEF Position, PopOrder
<1>8. /\ Position("edi", InterruptFrame) = 1 /\ Position("esi", InterruptFrame) = 2
      /\ Position("ebp", InterruptFrame) = 3 /\ Position("ebx", InterruptFrame) = 5
  BY DEF Position, InterruptFrame, CPURegister
<1>9. /\ Position("edx", InterruptFrame) = 6 /\ Position("ecx", InterruptFrame) = 7
      /\ Position("eax", InterruptFrame) = 8 /\ Position("gs", InterruptFrame) = 9
  BY DEF Position, InterruptFrame, CPURegister
<1>10. /\ Position("fs", InterruptFrame) = 10 /\ Position("es", InterruptFrame) = 11
       /\ Position("ds", InterruptFrame) = 12
  BY DEF Position, InterruptFrame, CPURegister
<1>11. \A r \in AllRegisters : r \in {PopOrder[i] : i \in DOMAIN PopOrder} <=> r \in Plain
  BY <1>1, <1>2, <1>3, <1>4
<1>12. \A r \in Plain : /\ Position(r, PopOrder) = Position(r, InterruptFrame)
                        /\ Position(r, PopOrder) \in 1 .. 12
  BY <1>3, <1>5, <1>6, <1>7, <1>8, <1>9, <1>10
<1>13. \A r \in DataSegments : Position(r, PopOrder) \in 9 .. 12
  BY <1>6, <1>7 DEF DataSegments
<1> QED
  BY <1>1, <1>11, <1>12, <1>13

\* What is popped, and what is left for iret.
Popped(regs, frame) ==
  /\ regs \in [AllRegisters -> Words]
  /\ regs["cs"] = KernelCode /\ regs["esp"] = cpu["esp"] /\ regs["ss"] = cpu["ss"]
  /\ \A r \in Plain : regs[r] = stack[Position(r, InterruptFrame)]
  /\ frame \in Seq(Words)
  /\ Len(frame) = Len(stack) - 14
  /\ \A i \in 1 .. Len(stack) - 14 : frame[i] = stack[14 + i]
  /\ Iret(regs, frame)

LEMMA ReturnPop ==
  ASSUME InterruptsInv, Return, NEW n, n \in 17 .. 36, n = Len(stack)
  PROVE  \E regs, frame : Popped(regs, frame)
<1>1. /\ cpu \in [AllRegisters -> Words] /\ stack \in Seq(Words)
      /\ At("return")
  BY DEF InterruptsInv, Typed, Return
<1>3. cpu["cs"] = KernelCode
  BY <1>1, ModeFacts DEF InterruptsInv, At
<1>4. PICK frame : frame = SubSeq(stack, 15, Len(stack))
  OBVIOUS
<1>5. PICK regs : regs = [r \in AllRegisters |->
                            IF r \in Plain THEN stack[Position(r, PopOrder)] ELSE cpu[r]]
  OBVIOUS
<1>6. Iret(regs, frame)
  <2>1. DOMAIN cpu = AllRegisters /\ Len(PopOrder) + 3 = 15
    BY <1>1, PopFacts
  <2>2. regs = [r \in DOMAIN cpu |->
                  IF r \in {PopOrder[i] : i \in DOMAIN PopOrder}
                  THEN stack[Position(r, PopOrder)] ELSE cpu[r]]
    BY <1>5, <2>1, PopFacts
  <2> QED
    BY <1>4, <2>1, <2>2 DEF Return
<1>7. 15 \in 1 .. Len(stack) + 1
  <2>1. 15 \in 1 .. n + 1
    BY ONLY n \in 17 .. 36
  <2> QED
    BY <2>1, Zenon
<1>8. /\ frame \in Seq(Words)
      /\ Len(frame) = Len(stack) - 15 + 1
      /\ \A i \in 1 .. Len(stack) - 15 + 1 : frame[i] = stack[15 + i - 1]
  BY <1>1, <1>4, <1>7, SubSeqFacts, Zenon
<1>m. \A i \in 1 .. n - 14 : frame[i] = stack[14 + i]
  <2>2. \A i \in 1 .. n - 15 + 1 : frame[i] = stack[15 + i - 1]
    BY <1>8, Zenon
  <2>3. n - 15 + 1 = n - 14 /\ \A i \in 1 .. n - 14 : 15 + i - 1 = 14 + i
    OBVIOUS
  <2> QED
    BY <2>2, <2>3, Zenon
<1>9. \A i \in 1 .. 12 : stack[i] \in Words
  <2>1. \A i \in 1 .. n : stack[i] \in Words
    BY <1>1, SeqFacts, Zenon
  <2>2. \A i \in 1 .. 12 : i \in 1 .. n
    BY ONLY n \in 17 .. 36
  <2> QED
    BY <2>1, <2>2, Zenon
<1>10. regs \in [AllRegisters -> Words]
  BY <1>1, <1>5, <1>9, PopFacts
<1>11. regs["cs"] = KernelCode /\ regs["esp"] = cpu["esp"] /\ regs["ss"] = cpu["ss"]
  BY <1>3, <1>5, RegisterFacts DEF Plain
<1>12. \A r \in Plain : regs[r] = stack[Position(r, InterruptFrame)]
  <2>1. \A r \in Plain : r \in AllRegisters
    BY RegisterFacts DEF Plain
  <2> QED
    BY <1>5, <2>1, PopFacts
<1>13. Len(frame) = Len(stack) - 14
  <2>1. Len(frame) = n - 15 + 1 /\ n - 15 + 1 = n - 14
    BY <1>8
  <2> QED
    BY <2>1, Zenon
<1> QED
  BY <1>6, <1>8, <1>10, <1>11, <1>12, <1>13, <1>m, Zenon DEF Popped

\* A return undoes the entry: everything comes off the stack, esp from the part of iret.
LEMMA ReturnEffect ==
  ASSUME InterruptsInv, Return, ~Nested
  PROVE  /\ iflag' = TRUE
         /\ stack' = <<>>
         /\ cpu' = [r \in AllRegisters |-> cpu'[r]]
         /\ \A r \in Plain : cpu'[r] = stack[Position(r, InterruptFrame)]
         /\ cpu'["eip"] = stack[15] /\ cpu'["cs"] = stack[16] /\ cpu'["eflags"] = stack[17]
         /\ running # Nobody => cpu'["esp"] = stack[18] /\ cpu'["ss"] = stack[19]
         /\ running = Nobody => cpu'["esp"] = cpu["esp"] /\ cpu'["ss"] = cpu["ss"]
<1>1. /\ cpu \in [AllRegisters -> Words] /\ stack \in Seq(Words)
      /\ At("return")
  BY DEF InterruptsInv, Typed, Return
<1>2. /\ stack[17][3] = "eflags"
      /\ running # Nobody => Len(stack) = 19 /\ stack[16] = UserCode
      /\ running = Nobody => Len(stack) = 17 /\ stack[16] = KernelCode
  BY <1>1 DEF InterruptsInv, InHandler
<1>n. PICK n : n = Len(stack)
  OBVIOUS
<1>3. n \in 17 .. 36
  <2>1. n = 17 \/ n = 19
    BY <1>2, <1>n, Zenon
  <2> QED
    BY <2>1
<1>4. PICK regs, frame : Popped(regs, frame)
  BY <1>n, <1>3, ReturnPop
<1>5. /\ regs \in [AllRegisters -> Words]
      /\ regs["cs"] = KernelCode /\ regs["esp"] = cpu["esp"] /\ regs["ss"] = cpu["ss"]
      /\ \A r \in Plain : regs[r] = stack[Position(r, InterruptFrame)]
      /\ Iret(regs, frame)
  BY <1>4, Zenon DEF Popped
<1>8. /\ frame \in Seq(Words)
      /\ Len(frame) = Len(stack) - 14
      /\ \A i \in 1 .. n - 14 : frame[i] = stack[14 + i]
  BY <1>4, <1>n, Zenon DEF Popped
<1>9. frame[1] = stack[15] /\ frame[2] = stack[16] /\ frame[3] = stack[17]
  <2>1. n = 17 \/ n = 19
    BY <1>2, <1>n, Zenon
  <2>2. /\ 1 \in 1 .. n - 14 /\ 2 \in 1 .. n - 14 /\ 3 \in 1 .. n - 14
        /\ 14 + 1 = 15 /\ 14 + 2 = 16 /\ 14 + 3 = 17
    BY <2>1
  <2> QED
    BY <1>8, <2>2, Zenon
<1>10. ASSUME running # Nobody
       PROVE  frame[4] = stack[18] /\ frame[5] = stack[19]
  <2>1. n = 19
    BY <1>2, <1>10, <1>n, Zenon
  <2>2. 4 \in 1 .. n - 14 /\ 5 \in 1 .. n - 14 /\ 14 + 4 = 18 /\ 14 + 5 = 19
    BY <2>1
  <2> QED
    BY <1>8, <2>2, Zenon
<1>15. frame[2] \in {KernelCode, UserCode} /\ frame[3][3] = "eflags"
  BY <1>2, <1>9
<1>16. Resumed(regs, frame)
  BY <1>5, <1>15, IretFacts
<1>17. /\ iflag' = (frame[3][3] = "eflags")
       /\ stack' = IF frame[2] = UserCode THEN <<>> ELSE SubSeq(frame, 4, Len(frame))
       /\ cpu' = [r \in AllRegisters |-> cpu'[r]]
       /\ cpu'["eip"] = frame[1]
       /\ cpu'["cs"] = frame[2]
       /\ cpu'["eflags"] = frame[3]
       /\ cpu'["esp"] = IF frame[2] = UserCode THEN frame[4] ELSE regs["esp"]
       /\ cpu'["ss"] = IF frame[2] = UserCode THEN frame[5] ELSE regs["ss"]
       /\ \A r \in Registers : r \notin {"eip", "eflags", "esp"} => cpu'[r] = regs[r]
  BY <1>16, Zenon DEF Resumed
<1>18. \A r \in Plain : cpu'[r] = stack[Position(r, InterruptFrame)]
  <2>1. \A r \in Plain : cpu'[r] = regs[r]
    BY <1>17 DEF Plain
  <2> QED
    BY <1>5, <2>1
<1>19. frame[2] = UserCode <=> running # Nobody
  BY <1>2, <1>9, SelectorFacts
<1>20. stack' = <<>>
  <2>1. CASE frame[2] = UserCode
    BY <1>17, <2>1
  <2>2. CASE frame[2] # UserCode
    <3>1. Len(frame) = 3
      BY <1>2, <1>8, <1>19, <2>2
    <3>2. stack' = SubSeq(frame, 4, 3)
      BY <1>17, <2>2, <3>1
    <3> QED
      BY <3>2, SubSeqEmpty
  <2> QED
    BY <2>1, <2>2
<1>21. iflag' = TRUE
  BY <1>15, <1>17
<1> QED
  BY <1>5, <1>9, <1>10, <1>17, <1>18, <1>19, <1>20, <1>21

LEMMA OuterReturnInv ==
  ASSUME InterruptsInv, Return, ~Nested
  PROVE  InterruptsInv'
<1>1. /\ iflag' = TRUE
      /\ stack' = <<>>
      /\ cpu' = [r \in AllRegisters |-> cpu'[r]]
      /\ \A r \in Plain : cpu'[r] = stack[Position(r, InterruptFrame)]
      /\ cpu'["eip"] = stack[15] /\ cpu'["cs"] = stack[16] /\ cpu'["eflags"] = stack[17]
      /\ running # Nobody => cpu'["esp"] = stack[18] /\ cpu'["ss"] = stack[19]
      /\ running = Nobody => cpu'["esp"] = cpu["esp"] /\ cpu'["ss"] = cpu["ss"]
  BY ReturnEffect
<1>2. /\ UNCHANGED <<context, running, active_process_count, pic>>
      /\ At("return")
      /\ cpu \in [AllRegisters -> Words] /\ stack \in Seq(Words)
  BY DEF Return, InterruptsInv, Typed
<1>3. cpu["ss"] = KernelData /\ pic.serving = {}
  BY <1>2, ModeFacts DEF InterruptsInv, InHandler, At
<1>4. \A i \in 1 .. Len(stack) : stack[i] \in Words
  BY <1>2, SeqFacts, Zenon
<1>5. /\ stack[17][3] = "eflags"
      /\ running # Nobody =>
           /\ Len(stack) = 19
           /\ stack[16] = UserCode
           /\ stack[19] = UserData
           /\ \A i \in 9 .. 12 : stack[i] = UserData
           /\ stack[15][2] \in {0, 1}
      /\ running = Nobody =>
           /\ Len(stack) = 17
           /\ \A i \in 9 .. 12 : stack[i] = KernelData
           /\ stack[15] = Code("kernel_setup", stack[15][2])
           /\ stack[15][2] \in {4, 5}
           /\ stack[16] = KernelCode
           /\ SetupDone(stack[15][2])
  BY <1>2 DEF InterruptsInv, InHandler
<1>6. \A i \in 1 .. 17 : stack[i] \in Words
  <2>1. CASE Len(stack) = 19
    BY <1>4, <2>1
  <2>2. CASE Len(stack) = 17
    BY <1>4, <2>2
  <2> QED
    BY <1>5, <2>1, <2>2, Zenon
<1>7. cpu' \in [AllRegisters -> Words]
  <2>1. \A r \in Plain : cpu'[r] \in Words
    BY <1>1, <1>6, FrameFacts, PlainFacts
  <2>2. cpu'["eip"] \in Words /\ cpu'["cs"] \in Words /\ cpu'["eflags"] \in Words
    BY <1>1, <1>6
  <2>3. cpu'["ss"] \in Words
    BY <1>1, <1>3, <1>5, SelectorFacts
  <2>4. cpu'["esp"] \in Words
    <3>1. CASE running # Nobody
      <4>0. 18 \in 1 .. 19
        OBVIOUS
      <4>1. 18 \in 1 .. Len(stack)
        BY <1>5, <3>1, <4>0, Zenon
      <4> QED
        BY <1>1, <1>4, <3>1, <4>1, Zenon
    <3>2. CASE running = Nobody
      BY <1>1, <1>2, <3>2, RegisterFacts DEF AllRegisters
    <3> QED
      BY <3>1, <3>2
  <2>5. \A r \in AllRegisters : cpu'[r] \in Words
    BY <2>1, <2>2, <2>3, <2>4, PlainFacts
  <2> QED
    BY <1>1, <2>5
<1>8. Typed'
  <2>1. iflag' \in BOOLEAN
    BY <1>1
  <2>2. stack' \in Seq(Words)
    BY <1>1, EmptySeq, Zenon
  <2> QED
    BY <1>2, <1>7, <2>1, <2>2 DEF InterruptsInv, Typed
<1>9. Started' /\ Contexts'
  BY <1>2 DEF InterruptsInv, Started, Contexts
<1>10. CASE running # Nobody
  <2>1. cpu'["cs"] = UserCode /\ cpu'["ss"] = UserData
    BY <1>1, <1>5, <1>10
  <2>2. \A r \in DataSegments : cpu'[r] = UserData
    BY <1>1, <1>5, <1>10, FrameFacts, PlainFacts
  <2>3. UserFile(cpu')
    BY <1>1, <1>5, <1>7, <1>10, <2>2, RegisterFacts DEF UserFile
  <2>4. InUser'
    BY <1>1, <1>2, <1>3, <1>10, <2>3 DEF InUser
  <2> QED
    BY <1>8, <1>9, <2>1, <2>4, UserPlace
<1>11. CASE running = Nobody
  <2>1. cpu'["cs"] = KernelCode /\ cpu'["ss"] = KernelData
    BY <1>1, <1>3, <1>5, <1>11
  <2>2. \A r \in DataSegments : cpu'[r] = KernelData
    BY <1>1, <1>5, <1>11, FrameFacts, PlainFacts
  <2>3. PICK n : n = stack[15][2]
    OBVIOUS
  <2>4. n \in {4, 5} /\ SetupDone(n) /\ stack[15] = Code("kernel_setup", n)
    BY <1>5, <1>11, <2>3
  <2>5. /\ "kernel_setup" \in Places
        /\ Code("kernel_setup", n)[3] = "kernel_setup"
        /\ Code("kernel_setup", n)[2] = n
    BY <2>4, CodeFacts DEF Places
  <2>6. cpu'["eip"] = Code("kernel_setup", n)
    BY <1>1, <2>4
  <2>7. cpu'["eip"][3] = "kernel_setup" /\ cpu'["eip"][2] = n
    BY <2>5, <2>6
  <2>8. SetupDone(n)'
    BY <1>2, <2>4 DEF SetupDone
  <2>9. InSetup'
    BY <1>1, <1>2, <1>3, <1>5, <1>11, <2>2, <2>4, <2>6, <2>7, <2>8 DEF InSetup, SegmentsAre
  <2>10. InNested'
    <3>1. Len(stack)' = 0 /\ 0 \in 0 .. 19
      BY <1>1
    <3> QED
      BY <3>1, ShortStack
  <2> QED
    BY <1>8, <1>9, <2>1, <2>5, <2>7, <2>9, <2>10, KernelPlace
<1> QED
  BY <1>10, <1>11

\* The return from the page fault: back to the access, on the frame of the call.
LEMMA NestedReturnEffect ==
  ASSUME InterruptsInv, Return, Nested
  PROVE  /\ Stuck /\ FaultAbove(17) /\ At("return")
         /\ iflag' = FALSE
         /\ stack' \in Seq(Words) /\ Len(stack') = 19
         /\ \A i \in 1 .. 19 : stack'[i] = stack[17 + i]
         /\ cpu' \in [AllRegisters -> Words]
         /\ cpu'["cs"] = KernelCode /\ cpu'["ss"] = KernelData
         /\ cpu'["eip"] = Code("unmapped_access", SYSCALL)
         /\ SegmentsAre(KernelData)'
<1>1. At("return") /\ Stuck /\ FaultAbove(17) /\ \A i \in 9 .. 12 : stack[i] = KernelData
  BY DEF Return, InterruptsInv, InNested, At
<1>2. /\ Len(stack) = 36
      /\ stack[15] = Code("unmapped_access", SYSCALL)
      /\ stack[16] = KernelCode
      /\ stack[17][3] = "masked"
  BY <1>1 DEF FaultAbove
<1>3. PICK regs, frame : Popped(regs, frame)
  <2>1. 36 \in 17 .. 36
    OBVIOUS
  <2> QED
    BY <1>2, <2>1, ReturnPop, Zenon
<1>4. /\ regs \in [AllRegisters -> Words]
      /\ regs["cs"] = KernelCode /\ regs["esp"] = cpu["esp"] /\ regs["ss"] = cpu["ss"]
      /\ \A r \in Plain : regs[r] = stack[Position(r, InterruptFrame)]
      /\ frame \in Seq(Words)
      /\ Len(frame) = Len(stack) - 14
      /\ \A i \in 1 .. Len(stack) - 14 : frame[i] = stack[14 + i]
      /\ Iret(regs, frame)
  BY <1>3, Zenon DEF Popped
<1>5. Len(frame) = 22 /\ \A i \in 1 .. 22 : frame[i] = stack[14 + i]
  <2>1. 36 - 14 = 22
    OBVIOUS
  <2> QED
    BY <1>2, <1>4, <2>1, Zenon
<1>6. frame[1] = stack[15] /\ frame[2] = stack[16] /\ frame[3] = stack[17]
  <2>1. /\ 1 \in 1 .. 22 /\ 2 \in 1 .. 22 /\ 3 \in 1 .. 22
        /\ 14 + 1 = 15 /\ 14 + 2 = 16 /\ 14 + 3 = 17
    OBVIOUS
  <2> QED
    BY <1>5, <2>1, Zenon
<1>7. Resumed(regs, frame)
  <2>1. frame[2] \in {KernelCode, UserCode}
    BY <1>2, <1>6
  <2> QED
    BY <1>4, <2>1, IretFacts
<1>8. frame[2] # UserCode
  BY <1>2, <1>6, SelectorFacts
<1>9. /\ iflag' = (frame[3][3] = "eflags")
      /\ stack' = SubSeq(frame, 4, Len(frame))
      /\ cpu' = [r \in AllRegisters |-> cpu'[r]]
      /\ cpu'["eip"] = frame[1]
      /\ cpu'["cs"] = frame[2]
      /\ cpu'["eflags"] = frame[3]
      /\ cpu'["esp"] = regs["esp"]
      /\ cpu'["ss"] = regs["ss"]
      /\ \A r \in Registers : r \notin {"eip", "eflags", "esp"} => cpu'[r] = regs[r]
  BY <1>7, <1>8, Zenon DEF Resumed
<1>10. iflag' = FALSE
  BY <1>2, <1>6, <1>9
<1>11. /\ stack' \in Seq(Words)
       /\ Len(stack') = Len(frame) - 4 + 1
       /\ \A i \in 1 .. Len(frame) - 4 + 1 : stack'[i] = frame[4 + i - 1]
  <2>1. 4 \in 1 .. Len(frame) + 1
    BY <1>5
  <2>2. frame \in Seq(Words)
    BY <1>4
  <2>3. stack' = SubSeq(frame, 4, Len(frame))
    BY <1>9
  <2> QED
    BY <2>1, <2>2, <2>3, SubSeqFacts, Zenon
<1>12. Len(stack') = 19 /\ \A i \in 1 .. 19 : stack'[i] = stack[17 + i]
  <2>1. 22 - 4 + 1 = 19
    OBVIOUS
  <2>2. Len(stack') = 19 /\ \A i \in 1 .. 19 : stack'[i] = frame[4 + i - 1]
    BY <1>5, <1>11, <2>1, Zenon
  <2>3. \A i \in 1 .. 19 : 4 + i - 1 \in 1 .. 22 /\ 14 + (4 + i - 1) = 17 + i
    OBVIOUS
  <2> QED
    BY <1>5, <2>2, <2>3, Zenon
<1>13. cpu["ss"] = KernelData /\ cpu \in [AllRegisters -> Words]
  BY <1>1, ModeFacts DEF InterruptsInv, Typed, At
<1>14. /\ cpu'["cs"] = KernelCode /\ cpu'["ss"] = KernelData
       /\ cpu'["eip"] = Code("unmapped_access", SYSCALL)
  BY <1>2, <1>4, <1>6, <1>9, <1>13
<1>15. \A r \in Plain : cpu'[r] = regs[r]
  BY <1>9 DEF Plain
<1>16. SegmentsAre(KernelData)'
  <2>1. \A r \in DataSegments : cpu'[r] = stack[Position(r, InterruptFrame)]
    BY <1>4, <1>15, PlainFacts
  <2> QED
    BY <1>1, <2>1, FrameFacts DEF SegmentsAre
<1>17. cpu' \in [AllRegisters -> Words]
  <2>1. \A i \in 1 .. 36 : stack[i] \in Words
    BY <1>2, SeqFacts, Zenon DEF InterruptsInv, Typed
  <2>2. cpu'["eip"] \in Words /\ cpu'["eflags"] \in Words
    BY <1>6, <1>9, <2>1
  <2>3. cpu'["cs"] \in Words /\ cpu'["ss"] \in Words
    BY <1>14, SelectorFacts
  <2>4. cpu'["esp"] \in Words
    BY <1>4, <1>9, RegisterFacts DEF AllRegisters
  <2>5. \A r \in Plain : cpu'[r] \in Words
    BY <1>4, <1>15, PlainFacts
  <2> QED
    BY <1>9, <2>2, <2>3, <2>4, <2>5, PlainFacts
<1> QED
  BY <1>1, <1>10, <1>11, <1>12, <1>14, <1>16, <1>17

LEMMA NestedReturnInv ==
  ASSUME InterruptsInv, Return, Nested
  PROVE  InterruptsInv'
<1>1. /\ Stuck /\ FaultAbove(17) /\ At("return")
      /\ iflag' = FALSE
      /\ stack' \in Seq(Words) /\ Len(stack') = 19
      /\ \A i \in 1 .. 19 : stack'[i] = stack[17 + i]
      /\ cpu' \in [AllRegisters -> Words]
      /\ cpu'["cs"] = KernelCode /\ cpu'["ss"] = KernelData
      /\ cpu'["eip"] = Code("unmapped_access", SYSCALL)
      /\ SegmentsAre(KernelData)'
  BY NestedReturnEffect
<1>2. UNCHANGED <<context, running, active_process_count, pic>>
  BY DEF Return
<1>3. "unmapped_access" \in Places /\ SYSCALL \in Nat
  BY DEF Places, SYSCALL
<1>4. cpu'["eip"][3] = "unmapped_access"
  <2>1. Code("unmapped_access", SYSCALL)[3] = "unmapped_access"
    BY <1>3, CodeFacts, Zenon
  <2> QED
    BY <1>1, <2>1, Zenon
<1>5. Typed' /\ Started' /\ Contexts'
  <2>1. iflag' \in BOOLEAN
    BY <1>1
  <2> QED
    BY <1>1, <1>2, <2>1 DEF InterruptsInv, Typed, Started, Contexts
<1>6. stack'[13] = Number(SYSCALL)
  BY <1>1 DEF FaultAbove
<1>7. InCall'
  <2>1. Stuck'
    BY <1>1, <1>2 DEF Stuck
  <2> QED
    BY <1>1, <1>6, <2>1 DEF InCall
<1>8. InNested'
  BY <1>1, ShortStack
<1> QED
  BY <1>1, <1>3, <1>4, <1>5, <1>7, <1>8, KernelPlace

LEMMA ReturnInv == InterruptsInv /\ Return => InterruptsInv'
BY OuterReturnInv, NestedReturnInv

(***************************************************************************)
(* A fault in a system call goes further down the stack, with an error     *)
(* code and with interrupts off (interrupt.c:86-121, intsetup.s:76-130).   *)
(***************************************************************************)
LEMMA SyscallPageFaultEffect ==
  ASSUME InterruptsInv, SyscallPageFault
  PROVE  /\ At("unmapped_access") /\ Stuck
         /\ Len(stack) = 19 /\ stack[13] = Number(SYSCALL)
         /\ iflag' = FALSE
         /\ stack' \in Seq(Words) /\ Len(stack') = 23
         /\ stack'[2] = Code("unmapped_access", SYSCALL)
         /\ stack'[3] = KernelCode
         /\ stack'[4][3] = "masked"
         /\ \A i \in 1 .. 19 : stack'[4 + i] = stack[i]
         /\ cpu' \in [AllRegisters -> Words]
         /\ cpu'["cs"] = KernelCode /\ cpu'["ss"] = KernelData
         /\ cpu'["eip"] = Code("stub", PAGE_FAULT)
         /\ SegmentsAre(KernelData)'
         /\ UNCHANGED <<context, running, active_process_count, pic>>
<1>1. At("unmapped_access") /\ Enter(PAGE_FAULT, <<Number(0)>>) /\ pic' = pic
  BY DEF SyscallPageFault
<1>2. /\ Stuck /\ cpu["eip"] = Code("unmapped_access", SYSCALL)
      /\ Len(stack) = 19 /\ stack[13] = Number(SYSCALL)
  BY <1>1 DEF InterruptsInv, InCall
<1>3. /\ ~UserMode
      /\ cpu["cs"] = KernelCode /\ cpu["ss"] = KernelData
      /\ cpu \in [AllRegisters -> Words] /\ stack \in Seq(Words)
  BY <1>1, ModeFacts DEF InterruptsInv, Typed, At
<1>4. Flags = <<Kernel, 0, "masked">> /\ Flags \in Words
  BY <1>2 DEF Flags, Stuck, Words, Names, Kernel
<1>5. PICK inner : inner = <<cpu["eip"], cpu["cs"], Flags>>
  OBVIOUS
<1>6. PICK code : code = <<Number(0)>>
  OBVIOUS
<1>7. PICK below : below = inner \o stack
  OBVIOUS
<1>8. /\ stack' = code \o below
      /\ cpu' = [cpu EXCEPT !["cs"] = KernelCode, !["ss"] = cpu["ss"],
                            !["esp"] = <<Kernel, 0, "esp">>,
                            !["eip"] = Code("stub", PAGE_FAULT)]
      /\ iflag' = (iflag /\ ~interrupt_descriptor_table[PAGE_FAULT].masks)
      /\ UNCHANGED <<context, running, active_process_count>>
  BY <1>1, <1>3, <1>5, <1>6, <1>7 DEF Enter
<1>9. /\ inner \in Seq(Words) /\ Len(inner) = 3
      /\ inner[1] = cpu["eip"] /\ inner[2] = KernelCode /\ inner[3] = Flags
  BY <1>3, <1>4, <1>5, RegisterFacts DEF AllRegisters
<1>10. code \in Seq(Words) /\ Len(code) = 1
  BY <1>6, NumberFacts
<1>11. Joined(inner, stack, below)
  BY <1>3, <1>7, <1>9, ConcatFacts
<1>12. /\ below \in Seq(Words) /\ Len(below) = 22
       /\ \A i \in 1 .. 3 : below[i] = inner[i]
       /\ \A i \in 1 .. 19 : below[3 + i] = stack[i]
  <2>1. 3 + 19 = 22
    OBVIOUS
  <2> QED
    BY <1>2, <1>9, <1>11, <2>1, Zenon DEF Joined
<1>13. Joined(code, below, stack')
  BY <1>8, <1>10, <1>12, ConcatFacts
<1>14. /\ stack' \in Seq(Words) /\ Len(stack') = 23
       /\ \A i \in 1 .. 22 : stack'[1 + i] = below[i]
  <2>1. 1 + 22 = 23
    OBVIOUS
  <2> QED
    BY <1>10, <1>12, <1>13, <2>1, Zenon DEF Joined
<1>15. \A i \in 1 .. 19 : stack'[4 + i] = stack[i]
  <2>1. \A i \in 1 .. 19 : 3 + i \in 1 .. 22 /\ 1 + (3 + i) = 4 + i
    OBVIOUS
  <2> QED
    BY <1>12, <1>14, <2>1, Zenon
<1>16. /\ stack'[2] = cpu["eip"] /\ stack'[3] = KernelCode /\ stack'[4] = Flags
  <2>1. /\ 1 \in 1 .. 22 /\ 2 \in 1 .. 22 /\ 3 \in 1 .. 22
        /\ 1 \in 1 .. 3 /\ 2 \in 1 .. 3 /\ 3 \in 1 .. 3
        /\ 1 + 1 = 2 /\ 1 + 2 = 3 /\ 1 + 3 = 4
    OBVIOUS
  <2> QED
    BY <1>9, <1>12, <1>14, <2>1, Zenon
<1>17. PICK eip : eip = Code("stub", PAGE_FAULT)
  OBVIOUS
<1>18. eip \in Words
  <2>1. "stub" \in Places /\ PAGE_FAULT \in Nat
    BY DEF Places, PAGE_FAULT
  <2> QED
    BY <1>17, <2>1, CodeFacts, Zenon
<1>19. <<Kernel, 0, "esp">> \in Words
  BY DEF Words, Names, Registers, General, Kernel
<1>20. \A r \in AllRegisters :
         cpu'[r] = IF r = "cs" THEN KernelCode ELSE IF r = "ss" THEN KernelData
                   ELSE IF r = "esp" THEN <<Kernel, 0, "esp">>
                   ELSE IF r = "eip" THEN eip ELSE cpu[r]
  BY <1>3, <1>8, <1>17
<1>21. cpu' \in [AllRegisters -> Words]
  <2>1. cpu' = [r \in AllRegisters |-> cpu'[r]]
    BY <1>3, <1>8
  <2> QED
    BY <1>3, <1>18, <1>19, <1>20, <2>1, SelectorFacts
<1>22. /\ cpu'["cs"] = KernelCode /\ cpu'["ss"] = KernelData
       /\ cpu'["eip"] = Code("stub", PAGE_FAULT)
       /\ SegmentsAre(KernelData)'
  BY <1>2, <1>17, <1>20, RegisterFacts DEF Stuck, SegmentsAre, DataSegments
<1>23. stack'[4][3] = "masked"
  BY <1>4, <1>16
<1>24. iflag' = FALSE
  BY <1>2, <1>8 DEF Stuck
<1>25. stack'[2] = Code("unmapped_access", SYSCALL)
  BY <1>2, <1>16
<1> QED
  BY <1>1, <1>2, <1>8, <1>14, <1>15, <1>16, <1>21, <1>22, <1>23, <1>24, <1>25, Zenon

LEMMA SyscallPageFaultInv == InterruptsInv /\ SyscallPageFault => InterruptsInv'
<1> SUFFICES ASSUME InterruptsInv, SyscallPageFault
             PROVE  InterruptsInv'
  OBVIOUS
<1>1. /\ At("unmapped_access") /\ Stuck
      /\ Len(stack) = 19 /\ stack[13] = Number(SYSCALL)
      /\ iflag' = FALSE
      /\ stack' \in Seq(Words) /\ Len(stack') = 23
      /\ stack'[2] = Code("unmapped_access", SYSCALL)
      /\ stack'[3] = KernelCode
      /\ stack'[4][3] = "masked"
      /\ \A i \in 1 .. 19 : stack'[4 + i] = stack[i]
      /\ cpu' \in [AllRegisters -> Words]
      /\ cpu'["cs"] = KernelCode /\ cpu'["ss"] = KernelData
      /\ cpu'["eip"] = Code("stub", PAGE_FAULT)
      /\ SegmentsAre(KernelData)'
      /\ UNCHANGED <<context, running, active_process_count, pic>>
  BY SyscallPageFaultEffect
<1>2. /\ "stub" \in Places
      /\ cpu'["eip"][1] = Kernel /\ cpu'["eip"][2] = PAGE_FAULT /\ cpu'["eip"][3] = "stub"
  <2>1. "stub" \in Places /\ PAGE_FAULT \in Nat
    BY DEF Places, PAGE_FAULT
  <2> QED
    BY <1>1, <2>1, CodeFacts
<1>3. Typed' /\ Started' /\ Contexts'
  <2>1. iflag' \in BOOLEAN
    BY <1>1
  <2> QED
    BY <1>1, <2>1 DEF InterruptsInv, Typed, Started, Contexts
<1>4. FaultAbove(4)'
  <2>1. stack'[4 + 13] = Number(SYSCALL) /\ Len(stack') = 4 + 19
    BY <1>1
  <2> QED
    BY <1>1, <2>1 DEF FaultAbove
<1>5. Nested'
  BY <1>1 DEF Nested
<1>6. InNested'
  <2>1. InKernel' /\ At("stub")'
    BY <1>1, <1>2, SelectorFacts DEF InKernel, At
  <2>2. Stuck'
    BY <1>1 DEF Stuck
  <2> QED
    BY <1>2, <1>4, <2>1, <2>2 DEF InNested, Vector
<1>7. InStub'
  BY <1>5 DEF InStub
<1> QED
  BY <1>1, <1>2, <1>3, <1>6, <1>7, KernelPlace

\* Every load finds the context, and its own register (ctx_switch.s:23-34).
LEMMA LoadFacts ==
  ASSUME NEW ctx
  PROVE  /\ FieldAt(ctx, 48) = ctx["eip"]
         /\ FieldAt(ctx, 52) = ctx["eflags"]
         /\ FieldAt(ctx, 12) = ctx["esp"]
         /\ DOMAIN Loads = 1 .. 11
         /\ \A i \in 1 .. 11 : Loads[i][1] \in Plain /\ Loaded(ctx, i) = ctx[Loads[i][1]]
         /\ \A r \in Plain : \E i \in 1 .. 11 : Loads[i][1] = r
<1>1. /\ ContextLayout[1] = "edi" /\ ContextLayout[2] = "esi" /\ ContextLayout[3] = "ebp"
      /\ ContextLayout[4] = "esp" /\ ContextLayout[5] = "ebx"
      /\ ContextLayout[6] = "edx" /\ ContextLayout[7] = "ecx"
      /\ ContextLayout[8] = "eax" /\ ContextLayout[9] = "gs" /\ ContextLayout[10] = "fs"
      /\ ContextLayout[11] = "es" /\ ContextLayout[12] = "ds"
      /\ ContextLayout[13] = "eip" /\ ContextLayout[14] = "eflags"
  BY DEF ContextLayout, CPURegister
<1>2. /\ FieldAt(ctx, 48) = ctx["eip"] /\ FieldAt(ctx, 52) = ctx["eflags"]
      /\ FieldAt(ctx, 12) = ctx["esp"]
  BY <1>1 DEF FieldAt
<1>3. /\ FieldAt(ctx, 0) = ctx["edi"] /\ FieldAt(ctx, 4) = ctx["esi"]
      /\ FieldAt(ctx, 8) = ctx["ebp"] /\ FieldAt(ctx, 16) = ctx["ebx"]
      /\ FieldAt(ctx, 20) = ctx["edx"] /\ FieldAt(ctx, 28) = ctx["eax"]
  BY <1>1 DEF FieldAt
<1>4. /\ FieldAt(ctx, 32) = ctx["gs"] /\ FieldAt(ctx, 36) = ctx["fs"]
      /\ FieldAt(ctx, 40) = ctx["es"] /\ FieldAt(ctx, 44) = ctx["ds"]
      /\ FieldAt(ctx, 24) = ctx["ecx"]
  BY <1>1 DEF FieldAt
<1>5. /\ DOMAIN Loads = 1 .. 11
      /\ \A i \in 1 .. 10 : Loads[i][1] # "ecx"
  BY DEF Loads
<1>6. \A i \in 1 .. 11 : Loaded(ctx, i) = FieldAt(ctx, Loads[i][2])
  <2> SUFFICES ASSUME NEW i \in 1 .. 11
               PROVE  Loaded(ctx, i) = FieldAt(ctx, Loads[i][2])
    OBVIOUS
  <2>1. \A j \in 1 .. i - 1 : j \in 1 .. 10
    OBVIOUS
  <2>2. ~\E j \in 1 .. i - 1 : Loads[j][1] = "ecx"
    BY <1>5, <2>1, Zenon
  <2> QED
    BY <2>2, Zenon DEF Loaded
<1>7. \A i \in 1 .. 11 : FieldAt(ctx, Loads[i][2]) = ctx[Loads[i][1]]
  <2> HIDE DEF FieldAt
  <2> QED
    BY <1>3, <1>4 DEF Loads
<1>8. Plain = {"edi", "esi", "ebp", "ebx", "edx", "ecx", "eax", "gs", "fs", "es", "ds"}
  BY DEF Plain, Registers, General, DataSegments
<1>9. \A i \in 1 .. 11 : Loads[i][1] \in Plain
  BY <1>8 DEF Loads
<1>10. /\ Loads[1][1] = "edi" /\ Loads[2][1] = "esi" /\ Loads[3][1] = "ebp"
       /\ Loads[4][1] = "ebx" /\ Loads[5][1] = "edx" /\ Loads[6][1] = "eax"
       /\ Loads[7][1] = "gs" /\ Loads[8][1] = "fs" /\ Loads[9][1] = "es"
       /\ Loads[10][1] = "ds" /\ Loads[11][1] = "ecx"
  BY DEF Loads
<1>11. \A r \in Plain : \E i \in 1 .. 11 : Loads[i][1] = r
  BY <1>8, <1>10
<1> QED
  BY <1>2, <1>5, <1>6, <1>7, <1>9, <1>11, Zenon

LEMMA ContextSwitchEffect ==
  ASSUME InterruptsInv, ContextSwitch, NEW ctx, ctx = context[running]
  PROVE  /\ running # Nobody /\ UserFile(ctx)
         /\ iflag' = TRUE
         /\ stack' = <<>>
         /\ cpu' = [r \in AllRegisters |-> cpu'[r]]
         /\ cpu'["cs"] = UserCode /\ cpu'["ss"] = UserData
         /\ \A r \in Registers : cpu'[r] = ctx[r]
<1>1. /\ cpu \in [AllRegisters -> Words]
      /\ At("process_context_switch")
  BY DEF InterruptsInv, Typed, ContextSwitch
<1>2. running # Nobody /\ UserFile(ctx)
  <2>1. running # Nobody /\ running < active_process_count /\ running \in Processes
    BY <1>1 DEF InterruptsInv, Typed, InSwitch, Started
  <2> QED
    BY <2>1 DEF InterruptsInv, Contexts
<1>3. cpu["cs"] = KernelCode
  BY <1>1, ModeFacts DEF InterruptsInv, At
<1>4. PICK frame : frame = <<FieldAt(ctx, 48), UserCode, FieldAt(ctx, 52),
                             FieldAt(ctx, 12), UserData>>
  OBVIOUS
<1>5. PICK regs : regs = [r \in AllRegisters |->
                            IF \E i \in DOMAIN Loads : Loads[i][1] = r
                            THEN Loaded(ctx, CHOOSE i \in DOMAIN Loads : Loads[i][1] = r)
                            ELSE cpu[r]]
  OBVIOUS
<1>6. Iret(regs, frame)
  <2>1. DOMAIN cpu = AllRegisters
    BY <1>1
  <2> QED
    BY <1>4, <1>5, <2>1, Zenon DEF ContextSwitch
<1>7. /\ frame[1] = ctx["eip"] /\ frame[2] = UserCode /\ frame[3] = ctx["eflags"]
      /\ frame[4] = ctx["esp"] /\ frame[5] = UserData
  BY <1>4, LoadFacts
<1>8. \A r \in Plain : regs[r] = ctx[r]
  <2> SUFFICES ASSUME NEW r \in Plain
               PROVE  regs[r] = ctx[r]
    OBVIOUS
  <2>1. PICK k : k = CHOOSE i \in DOMAIN Loads : Loads[i][1] = r
    OBVIOUS
  <2>2. \E i \in DOMAIN Loads : Loads[i][1] = r
    BY LoadFacts
  <2>3. k \in DOMAIN Loads /\ Loads[k][1] = r
    BY <2>1, <2>2
  <2>4. Loaded(ctx, k) = ctx[r]
    BY <2>3, LoadFacts
  <2>5. r \in AllRegisters
    BY PlainFacts
  <2>6. regs[r] = Loaded(ctx, k)
    BY <1>5, <2>1, <2>2, <2>5
  <2> QED
    BY <2>4, <2>6
<1>9. \A r \in AllRegisters : r \notin Plain => regs[r] = cpu[r]
  <2> SUFFICES ASSUME NEW r \in AllRegisters, r \notin Plain
               PROVE  regs[r] = cpu[r]
    OBVIOUS
  <2>1. ~\E i \in DOMAIN Loads : Loads[i][1] = r
    BY LoadFacts
  <2> QED
    BY <1>5, <2>1
<1>10. regs \in [AllRegisters -> Words]
  <2>1. \A r \in AllRegisters : regs[r] \in Words
    BY <1>1, <1>2, <1>8, <1>9, PlainFacts DEF UserFile
  <2>2. regs = [r \in AllRegisters |-> regs[r]]
    BY <1>5
  <2> QED
    BY <2>1, <2>2
<1>11. regs["cs"] = KernelCode
  BY <1>3, <1>9, PlainFacts
<1>12. frame[2] \in {KernelCode, UserCode} /\ frame[3][3] = "eflags"
  BY <1>2, <1>7 DEF UserFile
<1>13. Resumed(regs, frame)
  BY <1>6, <1>10, <1>11, <1>12, IretFacts
<1>14. /\ iflag' = (frame[3][3] = "eflags")
       /\ stack' = IF frame[2] = UserCode THEN <<>> ELSE SubSeq(frame, 4, Len(frame))
       /\ cpu' = [r \in AllRegisters |-> cpu'[r]]
       /\ cpu'["eip"] = frame[1]
       /\ cpu'["cs"] = frame[2]
       /\ cpu'["eflags"] = frame[3]
       /\ cpu'["esp"] = IF frame[2] = UserCode THEN frame[4] ELSE regs["esp"]
       /\ cpu'["ss"] = IF frame[2] = UserCode THEN frame[5] ELSE regs["ss"]
       /\ \A r \in Registers : r \notin {"eip", "eflags", "esp"} => cpu'[r] = regs[r]
  BY <1>13, Zenon DEF Resumed
<1>15. stack' = <<>>
  BY <1>7, <1>14, Zenon
<1>16. \A r \in Plain : cpu'[r] = ctx[r]
  BY <1>8, <1>14 DEF Plain
<1>17. \A r \in Registers : cpu'[r] = ctx[r]
  BY <1>7, <1>14, <1>16, PlainFacts
<1>18. iflag' = TRUE
  BY <1>12, <1>14
<1> QED
  BY <1>2, <1>7, <1>14, <1>15, <1>17, <1>18

LEMMA ContextSwitchInv == InterruptsInv /\ ContextSwitch => InterruptsInv'
<1> SUFFICES ASSUME InterruptsInv, ContextSwitch
             PROVE  InterruptsInv'
  OBVIOUS
<1>1. PICK ctx : ctx = context[running]
  OBVIOUS
<1>2. /\ running # Nobody /\ UserFile(ctx)
      /\ iflag' = TRUE
      /\ stack' = <<>>
      /\ cpu' = [r \in AllRegisters |-> cpu'[r]]
      /\ cpu'["cs"] = UserCode /\ cpu'["ss"] = UserData
      /\ \A r \in Registers : cpu'[r] = ctx[r]
  BY <1>1, ContextSwitchEffect
<1>3. UNCHANGED <<context, running, active_process_count, pic>> /\ At("process_context_switch")
  BY DEF ContextSwitch
<1>4. cpu' \in [AllRegisters -> Words]
  <2>1. \A r \in AllRegisters : cpu'[r] \in Words
    BY <1>2, SelectorFacts, RegisterFacts DEF UserFile
  <2> QED
    BY <1>2, <2>1
<1>5. Typed'
  <2>1. iflag' \in BOOLEAN
    BY <1>2
  <2>2. stack' \in Seq(Words)
    BY <1>2, EmptySeq, Zenon
  <2> QED
    BY <1>3, <1>4, <2>1, <2>2 DEF InterruptsInv, Typed
<1>6. Started' /\ Contexts'
  BY <1>3 DEF InterruptsInv, Started, Contexts
<1>7. UserFile(cpu')
  BY <1>2, RegisterFacts DEF UserFile
<1>8. InUser'
  <2>1. pic.serving = {}
    BY <1>3 DEF InterruptsInv, InSwitch
  <2> QED
    BY <1>2, <1>3, <1>7, <2>1 DEF InUser
<1> QED
  BY <1>2, <1>5, <1>6, <1>8, UserPlace

-----------------------------------------------------------------------------
(* kernel_setup *)

\* Between two calls of kernel_setup nothing but the processor's next call changes.
LEMMA SetupFacts ==
  ASSUME InterruptsInv, NEW n \in 0 .. 6, Call(n)
  PROVE  /\ At("kernel_setup") /\ cpu["eip"][2] = n
         /\ cpu \in [AllRegisters -> Words]
         /\ cpu["cs"] = KernelCode /\ cpu["ss"] = KernelData
         /\ SegmentsAre(KernelData)
         /\ cpu["eflags"][3] = "eflags"
         /\ iflag <=> n \in 3 .. 5
         /\ SetupDone(n)
         /\ running = Nobody /\ stack = <<>> /\ pic.serving = {}
         /\ pic \in PicStates
<1>1. "kernel_setup" \in Places /\ n \in Nat
  BY DEF Places
<1>2. InKernel /\ cpu["eip"] = Code("kernel_setup", n)
  BY DEF Call
<1>3. At("kernel_setup") /\ cpu["eip"][2] = n
  BY <1>1, <1>2, CodeFacts DEF At
<1>4. cpu["cs"] = KernelCode /\ cpu["ss"] = KernelData
  BY <1>2, ModeFacts DEF InterruptsInv
<1>5. pic \in PicStates /\ cpu \in [AllRegisters -> Words]
  BY DEF InterruptsInv, Typed, PicStates
<1> QED
  BY <1>3, <1>4, <1>5 DEF InterruptsInv, InSetup

LEMMA NextCallInv ==
  ASSUME InterruptsInv, NEW n \in 0 .. 5, Call(n),
         cpu' \in [AllRegisters -> Words],
         cpu'["eip"] = Code("kernel_setup", n + 1),
         cpu'["cs"] = KernelCode, cpu'["ss"] = KernelData,
         SegmentsAre(KernelData)', cpu'["eflags"] = cpu["eflags"],
         iflag' \in BOOLEAN, iflag' <=> n + 1 \in 3 .. 5,
         pic' \in PicStates, pic'.serving = {}, SetupDone(n + 1)',
         context' \in [Processes -> [Registers -> Words]], Contexts',
         active_process_count' \in 0 .. PROCESS_COUNT_MAX,
         UNCHANGED <<stack, running>>
  PROVE  InterruptsInv'
<1>1. /\ cpu["eflags"][3] = "eflags"
      /\ running = Nobody /\ stack = <<>>
  BY SetupFacts
<1>2. /\ "kernel_setup" \in Places
      /\ Code("kernel_setup", n + 1)[3] = "kernel_setup"
      /\ Code("kernel_setup", n + 1)[2] = n + 1
  BY CodeFacts DEF Places
<1>3. cpu'["eip"][3] = "kernel_setup" /\ cpu'["eip"][2] = n + 1
  BY <1>2
<1>4. Typed'
  BY DEF InterruptsInv, Typed, PicStates
<1>5. Started'
  BY <1>1 DEF Started
<1>6. InSetup'
  BY <1>1, <1>3 DEF InSetup
<1>7. InNested'
  <2>1. Len(stack)' = 0 /\ 0 \in 0 .. 19
    BY <1>1
  <2> QED
    BY <2>1, ShortStack
<1> QED
  BY <1>2, <1>3, <1>4, <1>5, <1>6, <1>7, KernelPlace

LEMMA NextCallFacts ==
  ASSUME InterruptsInv, NEW n \in 0 .. 5, Call(n), cpu' = NextCall
  PROVE  /\ cpu' \in [AllRegisters -> Words]
         /\ cpu'["eip"] = Code("kernel_setup", n + 1)
         /\ cpu'["cs"] = KernelCode /\ cpu'["ss"] = KernelData
         /\ SegmentsAre(KernelData)' /\ cpu'["eflags"] = cpu["eflags"]
<1>1. /\ cpu["eip"][2] = n
      /\ cpu \in [AllRegisters -> Words]
      /\ cpu["cs"] = KernelCode /\ cpu["ss"] = KernelData
      /\ SegmentsAre(KernelData)
  BY SetupFacts
<1>2. Code("kernel_setup", n + 1) \in Words
  BY CodeFacts DEF Places
<1>3. cpu' = [cpu EXCEPT !["eip"] = Code("kernel_setup", n + 1)]
  BY <1>1 DEF NextCall
<1> QED
  BY <1>1, <1>2, <1>3, RegisterFacts DEF SegmentsAre

LEMMA SetupInv == InterruptsInv /\ kernel_setup => InterruptsInv'
<1> SUFFICES ASSUME InterruptsInv, kernel_setup
             PROVE  InterruptsInv'
  OBVIOUS
<1>1. /\ iflag \in BOOLEAN
      /\ pic \in PicStates
      /\ context \in [Processes -> [Registers -> Words]]
      /\ active_process_count \in 0 .. PROCESS_COUNT_MAX
      /\ Contexts
  BY DEF InterruptsInv, Typed, PicStates
<1>2. CASE LoadGDT
  <2>1. /\ Call(0) /\ iflag' = FALSE
        /\ UNCHANGED <<stack, context, running, active_process_count, pic>>
    BY <1>2 DEF LoadGDT
  <2>2. /\ cpu["eip"][2] = 0
        /\ cpu \in [AllRegisters -> Words]
        /\ SegmentsAre(KernelData) /\ SetupDone(0)
        /\ pic.serving = {}
    BY <2>1, SetupFacts
  <2>3. cpu' = [cpu EXCEPT !["eip"] = Code("kernel_setup", 0 + 1),
                           !["cs"] = KernelCode, !["ss"] = KernelData,
                           !["ds"] = KernelData, !["es"] = KernelData]
    BY <1>2, <2>2 DEF LoadGDT, NextCall
  <2>4. Code("kernel_setup", 0 + 1) \in Words
    BY CodeFacts DEF Places
  <2>5. /\ cpu' \in [AllRegisters -> Words]
        /\ cpu'["eip"] = Code("kernel_setup", 0 + 1)
        /\ cpu'["cs"] = KernelCode /\ cpu'["ss"] = KernelData
        /\ cpu'["eflags"] = cpu["eflags"]
    BY <2>2, <2>3, <2>4, SelectorFacts, RegisterFacts
  <2>6. SegmentsAre(KernelData)'
    BY <2>2, <2>3, RegisterFacts DEF SegmentsAre, DataSegments
  <2>7. Contexts' /\ SetupDone(0 + 1)'
    BY <1>1, <2>1, <2>2 DEF Contexts, SetupDone
  <2>8. 0 \in 0 .. 5 /\ ~(0 + 1 \in 3 .. 5)
    OBVIOUS
  <2> QED
    BY <1>1, <2>1, <2>2, <2>5, <2>6, <2>7, <2>8, NextCallInv
<1>3. CASE pic_remap
  <2>1. /\ Call(1) /\ cpu' = NextCall
        /\ pic' = [requested |-> {}, masked |-> Lines, serving |-> {}]
        /\ UNCHANGED <<iflag, stack, context, running, active_process_count>>
    BY <1>3 DEF pic_remap, Lines
  <2>2. SetupDone(1) /\ (iflag <=> 1 \in 3 .. 5) /\ 1 \in 0 .. 5
    BY <2>1, SetupFacts
  <2>3. pic' \in PicStates /\ pic'.serving = {}
    BY <2>1 DEF PicStates
  <2>4. Contexts' /\ SetupDone(1 + 1)'
    BY <1>1, <2>1, <2>2 DEF Contexts, SetupDone
  <2>5. iflag' <=> 1 + 1 \in 3 .. 5
    BY <2>1, <2>2
  <2> QED
    BY <1>1, <2>1, <2>2, <2>3, <2>4, <2>5, NextCallFacts, NextCallInv
<1>4. CASE initialize_idt
  <2>1. /\ Call(2) /\ cpu' = NextCall /\ iflag' = TRUE
        /\ UNCHANGED <<stack, context, running, active_process_count, pic>>
    BY <1>4 DEF initialize_idt
  <2>2. SetupDone(2) /\ pic.serving = {} /\ 2 \in 0 .. 5
    BY <2>1, SetupFacts
  <2>3. Contexts' /\ SetupDone(2 + 1)'
    BY <1>1, <2>1, <2>2 DEF Contexts, SetupDone
  <2>4. iflag' <=> 2 + 1 \in 3 .. 5
    BY <2>1
  <2> QED
    BY <1>1, <2>1, <2>2, <2>3, <2>4, NextCallFacts, NextCallInv
<1>5. CASE activate_keyboard_interrupt
  <2>1. /\ Call(3) /\ cpu' = NextCall
        /\ pic' = [pic EXCEPT !.masked = @ \ {IRQ_KEYBOARD}]
        /\ UNCHANGED <<iflag, stack, context, running, active_process_count>>
    BY <1>5 DEF activate_keyboard_interrupt
  <2>2. SetupDone(3) /\ pic.serving = {} /\ (iflag <=> 3 \in 3 .. 5) /\ 3 \in 0 .. 5
    BY <2>1, SetupFacts
  <2>3. /\ pic' \in PicStates /\ pic'.serving = {}
        /\ pic'.masked = pic.masked \ {IRQ_KEYBOARD}
    BY <1>1, <2>1, <2>2 DEF PicStates
  <2>4. pic'.masked = {IRQ_TIMER}
    BY <2>2, <2>3 DEF SetupDone, Lines, IRQ_TIMER, IRQ_KEYBOARD
  <2>5. Contexts' /\ SetupDone(3 + 1)'
    BY <1>1, <2>1, <2>2, <2>4 DEF Contexts, SetupDone
  <2>6. iflag' <=> 3 + 1 \in 3 .. 5
    BY <2>1, <2>2
  <2> QED
    BY <1>1, <2>1, <2>2, <2>3, <2>5, <2>6, NextCallFacts, NextCallInv
<1>6. CASE CreateShell
  <2>1. /\ Call(4) /\ cpu' = NextCall /\ CreateProcess
        /\ UNCHANGED <<iflag, stack, running, pic>>
    BY <1>6 DEF CreateShell
  <2>2. SetupDone(4) /\ pic.serving = {} /\ (iflag <=> 4 \in 3 .. 5) /\ 4 \in 0 .. 5
    BY <2>1, SetupFacts
  <2>3. /\ context' \in [Processes -> [Registers -> Words]]
        /\ active_process_count' \in 0 .. PROCESS_COUNT_MAX
        /\ active_process_count' = active_process_count + 1
        /\ Contexts'
    BY <2>1, CreateProcessFacts
  <2>4. SetupDone(4 + 1)'
    BY <2>1, <2>2, <2>3 DEF SetupDone
  <2>5. iflag' <=> 4 + 1 \in 3 .. 5
    BY <2>1, <2>2
  <2> QED
    BY <1>1, <2>1, <2>2, <2>3, <2>4, <2>5, NextCallFacts, NextCallInv
<1>7. CASE scheduler_init
  <2>1. /\ Call(5) /\ cpu' = NextCall /\ iflag' = FALSE
        /\ pic' = [pic EXCEPT !.masked = @ \ {IRQ_TIMER}]
        /\ UNCHANGED <<stack, context, running, active_process_count>>
    BY <1>7 DEF scheduler_init
  <2>2. SetupDone(5) /\ pic.serving = {} /\ 5 \in 0 .. 5
    BY <2>1, SetupFacts
  <2>3. /\ pic' \in PicStates /\ pic'.serving = {}
        /\ pic'.masked = pic.masked \ {IRQ_TIMER}
    BY <1>1, <2>1, <2>2 DEF PicStates
  <2>4. pic'.masked = {}
    BY <2>2, <2>3 DEF SetupDone
  <2>5. Contexts' /\ SetupDone(5 + 1)'
    BY <1>1, <2>1, <2>2, <2>4 DEF Contexts, SetupDone
  <2>6. ~iflag' /\ ~(5 + 1 \in 3 .. 5)
    BY <2>1
  <2> QED
    BY <1>1, <2>1, <2>2, <2>3, <2>5, <2>6, NextCallFacts, NextCallInv
<1>8. CASE StartScheduler
  <2>1. /\ Call(6) /\ GoTo("process_context_switch") /\ running' = NextProcess
        /\ UNCHANGED <<iflag, stack, context, active_process_count, pic>>
    BY <1>8 DEF StartScheduler
  <2>2. /\ SetupDone(6) /\ pic.serving = {} /\ ~iflag
        /\ cpu \in [AllRegisters -> Words]
        /\ cpu["cs"] = KernelCode /\ cpu["ss"] = KernelData
        /\ cpu["eip"][2] = 6
    <3>1. 6 \in 0 .. 6 /\ 6 \notin 3 .. 5
      OBVIOUS
    <3> QED
      BY <2>1, <3>1, SetupFacts
  <2>3. active_process_count \in 1 .. PROCESS_COUNT_MAX /\ pic.masked = {}
    BY <1>1, <2>2, InterruptsAssumption DEF SetupDone
  <2>4. running \in Processes \cup {Nobody}
    BY DEF InterruptsInv, Typed
  <2>5. /\ running' \in Processes /\ running' # Nobody
        /\ running' < active_process_count
    BY <2>1, <2>3, <2>4, NextProcessFacts
  <2>6. PICK v \in Nat : v = Vector
    BY <2>2 DEF Vector
  <2>7. "process_context_switch" \in Places
    BY DEF Places
  <2>8. /\ cpu' \in [AllRegisters -> Words]
        /\ cpu'["eip"][3] = "process_context_switch"
        /\ \A r \in AllRegisters : r # "eip" => cpu'[r] = cpu[r]
    BY <2>1, <2>2, <2>6, <2>7, GoToFacts
  <2>9. cpu'["cs"] = KernelCode /\ cpu'["ss"] = KernelData
    BY <2>2, <2>8, RegisterFacts
  <2>10. Typed'
    BY <2>1, <2>5, <2>8 DEF InterruptsInv, Typed
  <2>11. Started' /\ Contexts' /\ InSwitch'
    BY <1>1, <2>1, <2>2, <2>3, <2>5 DEF Started, Contexts, InSwitch
  <2>12. InNested'
    <3>1. 6 \in 0 .. 6
      OBVIOUS
    <3>2. stack = <<>>
      BY <2>1, <3>1, SetupFacts
    <3>3. Len(stack)' = 0 /\ 0 \in 0 .. 19
      BY <2>1, <3>2
    <3> QED
      BY <3>3, ShortStack
  <2> QED
    BY <2>7, <2>8, <2>9, <2>10, <2>11, <2>12, KernelPlace
<1> QED
  BY <1>2, <1>3, <1>4, <1>5, <1>6, <1>7, <1>8 DEF kernel_setup

LEMMA StutterInv == InterruptsInv /\ UNCHANGED vars => InterruptsInv'
<1> SUFFICES ASSUME InterruptsInv, UNCHANGED vars
             PROVE  InterruptsInv'
  OBVIOUS
<1> USE DEF vars, InterruptsInv
<1>1. Typed' /\ Selectors' /\ Started' /\ Contexts' /\ SomePlace'
  BY DEF Typed, Selectors, Started, Contexts, SomePlace, InKernel
<1>2. InUser' /\ InSwitch' /\ InSetup'
  BY DEF InUser, InSwitch, InSetup, UserMode, InKernel, At, SegmentsAre, SetupDone
<1>3. InStub'
  BY DEF InStub, InKernel, At, SegmentsAre, SetupDone, ServesVector, Nested
<1>4. InHandler'
  BY DEF InHandler, InKernel, At, SegmentsAre, SetupDone, ServesVector, Nested
<1>5. InCall' /\ InNested'
  BY DEF InCall, InNested, Nested, Stuck, FaultAbove, SegmentsAre, InKernel, At, Vector
<1> QED
  BY <1>1, <1>2, <1>3, <1>4, <1>5

LEMMA NextInv == InterruptsInv /\ [InterruptsNext]_vars => InterruptsInv'
<1> SUFFICES ASSUME InterruptsInv, [InterruptsNext]_vars
             PROVE  InterruptsInv'
  OBVIOUS
<1>1. CASE Tick
  BY <1>1, RequestInv DEF Tick, Lines
<1>2. CASE KeyPress
  BY <1>2, RequestInv DEF KeyPress, Lines
<1>3. CASE HardwareInterrupt
  BY <1>3, HardwareInterruptInv
<1>4. CASE Program
  BY <1>4, UserStepInv, SoftwareInterruptInv, ExceptionInv DEF Program
<1>5. CASE KernelStep
  BY <1>5, StubInv, HandlerInv, ReturnInv, ContextSwitchInv, SetupInv, SyscallPageFaultInv,
     StutterInv DEF KernelStep, ClusterSearch
<1>6. CASE UNCHANGED vars
  BY <1>6, StutterInv
<1> QED
  BY <1>1, <1>2, <1>3, <1>4, <1>5, <1>6 DEF InterruptsNext

(***************************************************************************)
(* The invariant of entry, handler, switch and return holds in every state,*)
(* for any number of slots and any programs (intsetup.s, interrupt.c,      *)
(* scheduler.c, ctx_switch.s).                                             *)
(***************************************************************************)
THEOREM InterruptsInvariant == InterruptsSpec => []InterruptsInv
<1>1. InterruptsInit => InterruptsInv
  BY InitInv
<1>2. InterruptsInv /\ [InterruptsNext]_vars => InterruptsInv'
  BY NextInv
<1> QED
  BY <1>1, <1>2, PTL DEF InterruptsSpec

\* Every register, every word of the stack and of a context is a word of the machine.
THEOREM InterruptsTypeCorrect == InterruptsSpec => []InterruptsTypeOK
<1>1. InterruptsInv => InterruptsTypeOK
  <2> SUFFICES ASSUME InterruptsInv
               PROVE  InterruptsTypeOK
    OBVIOUS
  <2>1. \A part \in DOMAIN pic : pic[part] \subseteq {IRQ_TIMER, IRQ_KEYBOARD}
    <3>1. pic \in [requested : SUBSET Lines, masked : SUBSET Lines, serving : SUBSET Lines]
      BY DEF InterruptsInv, Typed
    <3>2. DOMAIN pic = {"requested", "masked", "serving"}
      BY <3>1
    <3>3. /\ pic["requested"] \subseteq Lines
          /\ pic["masked"] \subseteq Lines
          /\ pic["serving"] \subseteq Lines
      BY <3>1
    <3> QED
      BY <3>2, <3>3 DEF Lines
  <2> QED
    BY <2>1 DEF InterruptsInv, Typed, InterruptsTypeOK, AllRegisters
<1> QED
  BY <1>1, InterruptsInvariant, PTL

(***************************************************************************)
(* Whatever the vector, the C handler finds the frame it is compiled for,  *)
(* and nothing else on the stack but the frame of the system call that     *)
(* faulted (intsetup.s:5-130, interrupt.h:135-139).                        *)
(***************************************************************************)
THEOREM FrameIsWhole == InterruptsSpec => []OneFrame
<1>1. InterruptsInv => OneFrame
  <2> SUFFICES ASSUME InterruptsInv
               PROVE  OneFrame
    OBVIOUS
  <2>1. At("kernel_setup") => stack = <<>>
    BY DEF InterruptsInv, InSetup
  <2>2. ASSUME At("unmapped_access")
        PROVE  Frame("int_number") = Number(SYSCALL) /\ Len(stack) = Len(InterruptFrame) + 2
    <3>1. stack[13] = Number(SYSCALL) /\ Len(stack) = 19
      BY <2>2 DEF InterruptsInv, InCall
    <3> QED
      BY <3>1, FrameFacts, LayoutFacts DEF Frame
  <2>3. ASSUME At("main_interrupt_handler") \/ At("return")
        PROVE  /\ ~iflag
               /\ Frame("int_number")[3] = "number"
               /\ \/ Frame("cs") = UserCode /\ Len(stack) = Len(InterruptFrame) + 2
                  \/ /\ Frame("cs") = KernelCode /\ running = Nobody
                     /\ Len(stack) = Len(InterruptFrame)
                  \/ /\ Frame("cs") = KernelCode /\ Frame("int_number") = Number(PAGE_FAULT)
                     /\ Len(stack) = Len(InterruptFrame) + (Len(InterruptFrame) + 2)
                     /\ stack[Len(InterruptFrame) + Position("int_number", InterruptFrame)]
                          = Number(SYSCALL)
    <3>1. Frame("int_number") = stack[13] /\ Frame("cs") = stack[16]
      BY FrameFacts DEF Frame
    <3>2. ~iflag
      BY <2>3 DEF InterruptsInv, InHandler, InNested, Stuck
    <3>3. CASE Nested
      <4>1. FaultAbove(17) /\ stack[13] = Number(PAGE_FAULT)
        BY <2>3, <3>3 DEF InterruptsInv, InNested, At
      <4>2. stack[16] = KernelCode /\ stack[30] = Number(SYSCALL) /\ Len(stack) = 36
        BY <4>1 DEF FaultAbove
      <4>3. Frame("int_number")[3] = "number"
        BY <3>1, <4>1, NumberFacts DEF PAGE_FAULT
      <4>4. /\ Len(InterruptFrame) = 17
            /\ Position("int_number", InterruptFrame) = 13
            /\ 17 + 13 = 30 /\ 17 + (17 + 2) = 36
        BY FrameFacts, LayoutFacts
      <4> QED
        BY <3>1, <3>2, <4>1, <4>2, <4>3, <4>4, Zenon
    <3>4. ASSUME ~Nested
          PROVE  Frame("int_number")[3] = "number"
      <4>1. stack[13] = Number(Vector) /\ Vector \in 0 .. 63
        BY <2>3, <3>4 DEF InterruptsInv, InHandler, Vector
      <4> QED
        BY <3>1, <4>1, NumberFacts
    <3>5. CASE ~Nested /\ running # Nobody
      <4>1. Len(stack) = 19 /\ stack[16] = UserCode
        BY <2>3, <3>5 DEF InterruptsInv, InHandler
      <4> QED
        BY <3>1, <3>2, <3>4, <3>5, <4>1, LayoutFacts
    <3>6. CASE ~Nested /\ running = Nobody
      <4>1. Len(stack) = 17 /\ stack[16] = KernelCode
        BY <2>3, <3>6 DEF InterruptsInv, InHandler
      <4> QED
        BY <3>1, <3>2, <3>4, <3>6, <4>1, LayoutFacts
    <3> QED
      BY <3>3, <3>5, <3>6
  <2> QED
    BY <2>1, <2>2, <2>3, Zenon DEF OneFrame
<1> QED
  BY <1>1, InterruptsInvariant, PTL

(***************************************************************************)
(* User code runs with user selectors in every segment register, the C     *)
(* code of the kernel with the kernel's (gdt.c:8-106, intsetup.s:48-53).   *)
(***************************************************************************)
THEOREM SelectorsAreLoadable == InterruptsSpec => []SelectorsFit
<1>1. InterruptsInv => SelectorsFit
  <2> SUFFICES ASSUME InterruptsInv
               PROVE  SelectorsFit
    OBVIOUS
  <2>1. /\ DescriptorOf(KernelCode) = Descriptor("code", 0)
        /\ DescriptorOf(KernelData) = Descriptor("data", 0)
        /\ DescriptorOf(UserCode) = Descriptor("code", 3)
        /\ DescriptorOf(UserData) = Descriptor("data", 3)
    BY DEF DescriptorOf, global_descriptor_table, KernelCode, KernelData, UserCode,
           UserData, Selector
  <2>2. CASE UserMode
    <3>1. /\ cpu["cs"] = UserCode /\ cpu["ss"] = UserData
          /\ \A r \in DataSegments : cpu[r] = UserData
      BY <2>2, ModeFacts DEF InterruptsInv, InUser, UserFile
    <3> QED
      BY <2>1, <3>1, SelectorFacts DEF SelectorsFit
  <2>3. CASE ~UserMode
    <3>1. /\ cpu["cs"] = KernelCode /\ cpu["ss"] = KernelData
          /\ At("main_interrupt_handler") => \A r \in DataSegments : cpu[r] = KernelData
      BY <2>3, ModeFacts DEF InterruptsInv, InHandler, InNested, Stuck, SegmentsAre
    <3> QED
      BY <2>1, <2>3, <3>1, SelectorFacts DEF SelectorsFit
  <2> QED
    BY <2>2, <2>3
<1> QED
  BY <1>1, InterruptsInvariant, PTL

(***************************************************************************)
(* The handler of a device runs for a request of the device alone, and the *)
(* service it started is over when a program goes on (idt.c:26-32,         *)
(* interrupt.c:206-231).                                                   *)
(***************************************************************************)
THEOREM DevicesAreServed == InterruptsSpec => []ServedOnRequest
<1>1. InterruptsInv => ServedOnRequest
  <2> SUFFICES ASSUME InterruptsInv
               PROVE  ServedOnRequest
    OBVIOUS
  <2>1. UserMode => pic.serving = {}
    BY DEF InterruptsInv, InUser
  <2>2. ASSUME NEW irq \in {IRQ_TIMER, IRQ_KEYBOARD},
               At("main_interrupt_handler"),
               Frame("int_number") = Number(PIC1_OFFSET + irq)
        PROVE  pic.serving = {irq}
    <3>1. PICK v : v = Vector
      OBVIOUS
    <3>2. /\ v \in 0 .. 63
          /\ Frame("int_number") = Number(v)
          /\ pic.serving = {line \in Lines : v = PIC1_OFFSET + line}
      BY <2>2, <3>1, HandlerFacts
    <3>3. PIC1_OFFSET + irq \in Nat /\ v \in Nat
      BY <3>2 DEF PIC1_OFFSET, IRQ_TIMER, IRQ_KEYBOARD
    <3>4. v = PIC1_OFFSET + irq
      BY <2>2, <3>2, <3>3, NumberFacts
    <3> QED
      BY <3>2, <3>4 DEF Lines, PIC1_OFFSET, IRQ_TIMER, IRQ_KEYBOARD
  <2> QED
    BY <2>1, <2>2 DEF ServedOnRequest
<1> QED
  BY <1>1, InterruptsInvariant, PTL

-----------------------------------------------------------------------------
(* A processor for every process *)

\* Two register files that agree on every register.
LEMMA SameFile ==
  ASSUME NEW f, NEW g, f = [r \in Registers |-> f[r]], g = [r \in Registers |-> g[r]],
         \A r \in Registers : f[r] = g[r]
  PROVE  f = g
<1>1. [r \in Registers |-> f[r]] = [r \in Registers |-> g[r]]
  OBVIOUS
<1> QED
  BY <1>1, Zenon

\* A process is created, and not running unless some process is.
LEMMA CreatedFacts ==
  InterruptsInv =>
    /\ Created \subseteq Processes
    /\ running # Nobody => running \in Created
    /\ running = Nobody => running \notin Processes
    /\ \A p \in Processes : p \in Created <=> p < active_process_count
<1> SUFFICES ASSUME InterruptsInv
             PROVE  /\ Created \subseteq Processes
                    /\ running # Nobody => running \in Created
                    /\ running = Nobody => running \notin Processes
                    /\ \A p \in Processes : p \in Created <=> p < active_process_count
  OBVIOUS
<1>1. /\ running \in Processes \cup {Nobody}
      /\ active_process_count \in 0 .. PROCESS_COUNT_MAX
      /\ running # Nobody => running < active_process_count
  BY DEF InterruptsInv, Typed, Started
<1>2. Created \subseteq Processes
  BY <1>1, InterruptsAssumption DEF Created, Processes
<1>3. \A p \in Processes : p \in Created <=> p < active_process_count
  BY <1>1, InterruptsAssumption DEF Created, Processes
<1>4. running = Nobody => running \notin Processes
  BY InterruptsAssumption DEF Processes, Nobody
<1> QED
  BY <1>1, <1>2, <1>3, <1>4

LEMMA WaitingFile ==
  InterruptsInv =>
    /\ \A p \in Processes : p \notin Created => RegisterFile(p) = Fresh(p)
    /\ \A p \in Created : p # running \/ At("process_context_switch") => RegisterFile(p) = context[p]
<1> SUFFICES ASSUME InterruptsInv
             PROVE  /\ \A p \in Processes : p \notin Created => RegisterFile(p) = Fresh(p)
                    /\ \A p \in Created : p # running \/ At("process_context_switch")
                         => RegisterFile(p) = context[p]
  OBVIOUS
<1>1. ASSUME NEW p \in Processes, p \notin Created
      PROVE  RegisterFile(p) = Fresh(p)
  BY <1>1, Zenon DEF RegisterFile
<1>2. ASSUME NEW p \in Created, p # running \/ At("process_context_switch")
      PROVE  RegisterFile(p) = context[p]
  <2>1. At("process_context_switch") => ~UserMode /\ ~Pushing
    BY DEF UserMode, At, Pushing
  <2> QED
    BY <1>2, <2>1, Zenon DEF RegisterFile
<1> QED
  BY <1>1, <1>2

LEMMA UserModeFile ==
  InterruptsInv /\ UserMode =>
    \A p : p = running => RegisterFile(p) = [r \in Registers |-> cpu[r]]
<1> SUFFICES ASSUME InterruptsInv, UserMode
             PROVE  RegisterFile(running) = [r \in Registers |-> cpu[r]]
  OBVIOUS
<1>1. running \in Created /\ ~At("process_context_switch") /\ ~At("stub")
  BY CreatedFacts DEF InterruptsInv, InUser, UserMode, At
<1> QED
  BY <1>1, Zenon DEF RegisterFile, Pushing

\* The kernel is deep in an entry: the frame of its process is the outermost one.
Deep ==
  /\ running # Nobody
  /\ InKernel
  /\ ~At("process_context_switch")
  /\ Len(stack) >= 19

Outermost(r) == stack[Len(stack) - 19 + Position(r, InterruptFrame)]

LEMMA OuterFile ==
  InterruptsInv /\ Deep => \A p : p = running => RegisterFile(p) = [r \in Registers |-> Outermost(r)]
<1> SUFFICES ASSUME InterruptsInv, Deep
             PROVE  RegisterFile(running) = [r \in Registers |-> Outermost(r)]
  OBVIOUS
<1>1. /\ running \in Created /\ ~At("process_context_switch")
      /\ ~UserMode
  BY CreatedFacts DEF UserMode, Deep
<1>2. Len(InterruptFrame) = 17 /\ Len(InterruptFrame) + 2 = 19
  BY LayoutFacts
<1>3. ~Pushing
  <2>1. Len(stack) \in Nat /\ Len(stack) >= 19
    BY SeqFacts DEF InterruptsInv, Typed, Deep
  <2> QED
    BY <1>2, <2>1 DEF Pushing
<1>4. PICK f : f = [r \in Registers |-> Outermost(r)]
  OBVIOUS
<1>5. RegisterFile(running) = [r \in Registers |->
          stack[Len(stack) - (Len(InterruptFrame) + 2) + Position(r, InterruptFrame)]]
  BY <1>1, <1>3, Zenon DEF RegisterFile
<1> QED
  BY <1>2, <1>5, Zenon DEF Outermost

LEMMA HandlerFile ==
  InterruptsInv /\ ~Nested /\ running # Nobody /\ (At("main_interrupt_handler") \/ At("return"))
    => \A p : p = running => RegisterFile(p) = [r \in Registers |-> Frame(r)]
<1> SUFFICES ASSUME InterruptsInv, ~Nested, running # Nobody,
                    At("main_interrupt_handler") \/ At("return")
             PROVE  RegisterFile(running) = [r \in Registers |-> Frame(r)]
  OBVIOUS
<1>1. Len(stack) = 19
  BY DEF InterruptsInv, InHandler
<1>2. Deep
  BY <1>1 DEF Deep, At
<1>3. \A r \in Registers : Outermost(r) = Frame(r)
  <2> SUFFICES ASSUME NEW r \in Registers
               PROVE  Outermost(r) = Frame(r)
    OBVIOUS
  <2>1. PICK i : i = Position(r, InterruptFrame)
    OBVIOUS
  <2>2. i \in 1 .. 17
    BY <2>1, FrameFacts
  <2>3. 19 - 19 + i = i
    BY <2>2
  <2> QED
    BY <1>1, <2>1, <2>3, Zenon DEF Outermost, Frame
<1> QED
  BY <1>2, <1>3, OuterFile

LEMMA StubFile ==
  InterruptsInv /\ ~Nested /\ running # Nobody /\ At("stub") =>
    \E f : /\ \A p : p = running => RegisterFile(p) = f
           /\ f = [r \in Registers |-> f[r]]
           /\ f["eip"] = stack[ErrorCodes(Vector) + 1]
           /\ f["eflags"] = stack[ErrorCodes(Vector) + 3]
           /\ f["esp"] = stack[ErrorCodes(Vector) + 4]
           /\ \A r \in Plain : f[r] = cpu[r]
<1> SUFFICES ASSUME InterruptsInv, ~Nested, running # Nobody, At("stub")
             PROVE  \E f : /\ RegisterFile(running) = f
                           /\ f = [r \in Registers |-> f[r]]
                           /\ f["eip"] = stack[ErrorCodes(Vector) + 1]
                           /\ f["eflags"] = stack[ErrorCodes(Vector) + 3]
                           /\ f["esp"] = stack[ErrorCodes(Vector) + 4]
                           /\ \A r \in Plain : f[r] = cpu[r]
  OBVIOUS
<1>1. /\ running \in Created /\ ~At("process_context_switch")
      /\ ~UserMode
  BY CreatedFacts DEF UserMode, At
<1>2. PICK e \in {0, 1} : e = ErrorCodes(Vector)
  BY DEF ErrorCodes
<1>3. Len(stack) = e + 5 /\ stack \in Seq(Words)
  BY <1>2 DEF InterruptsInv, Typed, InStub, Vector
<1>4. PICK pushed : pushed = SubSeq(stack, Len(stack) - 4, Len(stack))
  OBVIOUS
<1>5. PICK f : f = [r \in Registers |->
                      CASE r = "eip" -> pushed[1] [] r = "eflags" -> pushed[3]
                        [] r = "esp" -> pushed[4] [] OTHER -> cpu[r]]
  OBVIOUS
<1>6. RegisterFile(running) = f
  <2>1. e + 5 < 17
    OBVIOUS
  <2>2. Pushing
    BY <1>3, <2>1, LayoutFacts, Zenon DEF Pushing
  <2> QED
    BY <1>1, <1>4, <1>5, <2>2, Zenon DEF RegisterFile
<1>7. f = [r \in Registers |-> f[r]]
  BY <1>5
<1>8. f["eip"] = pushed[1] /\ f["eflags"] = pushed[3] /\ f["esp"] = pushed[4]
  BY <1>5, RegisterFacts
<1>9. \A r \in Plain : f[r] = cpu[r]
  BY <1>5, PlainFacts
<1>10. PICK m : m = Len(stack) - 4
  OBVIOUS
<1>11. m = e + 1 /\ m \in 1 .. Len(stack) + 1 /\ Len(stack) - m + 1 = 5
  <2>1. PICK n : n = Len(stack)
    OBVIOUS
  <2>2. n = e + 5 /\ m = n - 4
    BY <1>3, <1>10, <2>1, Zenon
  <2>3. m = e + 1 /\ m \in 1 .. n + 1 /\ n - m + 1 = 5
    BY <2>2
  <2> QED
    BY <2>1, <2>3, Zenon
<1>12. \A i \in 1 .. 5 : pushed[i] = stack[m + i - 1]
  <2>1. pushed = SubSeq(stack, m, Len(stack))
    BY <1>4, <1>10, Zenon
  <2>2. \A i \in 1 .. Len(stack) - m + 1 : pushed[i] = stack[m + i - 1]
    BY <1>3, <1>11, <2>1, SubSeqFacts, Zenon
  <2> QED
    BY <1>11, <2>2, Zenon
<1>13. pushed[1] = stack[e + 1] /\ pushed[3] = stack[e + 3] /\ pushed[4] = stack[e + 4]
  BY <1>11, <1>12
<1>14. f["eip"] = stack[e + 1] /\ f["eflags"] = stack[e + 3] /\ f["esp"] = stack[e + 4]
  BY <1>8, <1>13, Zenon
<1>15. \A p : p = running => RegisterFile(p) = f
  BY <1>6, Zenon
<1> QED
  BY <1>2, <1>7, <1>9, <1>14, <1>15

\* No process sees a change of its registers.
Steady == \A p \in Processes : RegisterFile(p)' = RegisterFile(p)

\* The facts about register files, one step later.
LEMMA LaterFiles ==
  InterruptsInv' =>
    /\ (/\ \A p \in Processes : p \notin Created => RegisterFile(p) = Fresh(p)
        /\ \A p \in Created : p # running \/ At("process_context_switch")
             => RegisterFile(p) = context[p])'
    /\ (UserMode => \A p : p = running => RegisterFile(p) = [r \in Registers |-> cpu[r]])'
    /\ (~Nested /\ running # Nobody /\ (At("main_interrupt_handler") \/ At("return"))
         => \A p : p = running => RegisterFile(p) = [r \in Registers |-> Frame(r)])'
    /\ (Deep => \A p : p = running => RegisterFile(p) = [r \in Registers |-> Outermost(r)])'
<1>1. InterruptsInv' =>
        (/\ \A p \in Processes : p \notin Created => RegisterFile(p) = Fresh(p)
         /\ \A p \in Created : p # running \/ At("process_context_switch")
              => RegisterFile(p) = context[p])'
  BY WaitingFile, PTL
<1>2. InterruptsInv' =>
        (UserMode => \A p : p = running => RegisterFile(p) = [r \in Registers |-> cpu[r]])'
  BY UserModeFile, PTL
<1>3. InterruptsInv' =>
        (~Nested /\ running # Nobody /\ (At("main_interrupt_handler") \/ At("return"))
         => \A p : p = running => RegisterFile(p) = [r \in Registers |-> Frame(r)])'
  BY HandlerFile, PTL
<1>4. InterruptsInv' =>
        (Deep => \A p : p = running => RegisterFile(p) = [r \in Registers |-> Outermost(r)])'
  BY OuterFile, PTL
<1> QED
  BY <1>1, <1>2, <1>3, <1>4, Zenon

LEMMA LaterStub ==
  InterruptsInv' =>
    (~Nested /\ running # Nobody /\ At("stub") =>
       \E f : /\ \A p : p = running => RegisterFile(p) = f
              /\ f = [r \in Registers |-> f[r]]
              /\ f["eip"] = stack[ErrorCodes(Vector) + 1]
              /\ f["eflags"] = stack[ErrorCodes(Vector) + 3]
              /\ f["esp"] = stack[ErrorCodes(Vector) + 4]
              /\ \A r \in Plain : f[r] = cpu[r])'
BY StubFile, PTL

\* The registers of a process that waits are in its control block.
LEMMA OthersSteady ==
  ASSUME InterruptsInv, InterruptsInv',
         UNCHANGED <<context, running, active_process_count>>,
         \A p \in Processes : p = running => RegisterFile(p)' = RegisterFile(p)
  PROVE  Steady
<1> SUFFICES ASSUME NEW p \in Processes
             PROVE  RegisterFile(p)' = RegisterFile(p)
  BY DEF Steady
<1>1. Created' = Created
  BY DEF Created
<1>2. CASE p \notin Created
  BY <1>1, <1>2, WaitingFile, LaterFiles
<1>3. CASE p \in Created /\ p # running
  BY <1>1, <1>3, WaitingFile, LaterFiles
<1>4. CASE p = running
  BY <1>4
<1> QED
  BY <1>2, <1>3, <1>4

\* Frames come and go above the outermost one.
LEMMA DeepSteady ==
  ASSUME InterruptsInv, InterruptsInv', Deep, Deep',
         UNCHANGED <<context, running, active_process_count>>,
         NEW d, d \in Nat, Len(stack) = d + 19,
         NEW c, c \in Nat, Len(stack)' = c + 19,
         \A i \in 1 .. 19 : stack'[c + i] = stack[d + i]
  PROVE  Steady
<1>1. \A r \in Registers : Outermost(r)' = Outermost(r)
  <2> SUFFICES ASSUME NEW r \in Registers
               PROVE  Outermost(r)' = Outermost(r)
    OBVIOUS
  <2>1. PICK i : i = Position(r, InterruptFrame)
    OBVIOUS
  <2>2. i \in 1 .. 17
    BY <2>1, FrameFacts
  <2>3. i \in 1 .. 19
    BY <2>2
  <2>4. Outermost(r) = stack[d + i]
    <3>1. Len(stack) - 19 + i = d + i
      BY <2>2
    <3> QED
      BY <2>1, <3>1, Zenon DEF Outermost
  <2>5. Outermost(r)' = stack'[c + i]
    <3>1. Len(stack)' - 19 + i = c + i
      BY <2>2
    <3> QED
      BY <2>1, <3>1, Zenon DEF Outermost
  <2> QED
    BY <2>3, <2>4, <2>5, Zenon
<1>2. \A p \in Processes : p = running => RegisterFile(p)' = RegisterFile(p)
  <2>1. \A p \in Processes : p = running => RegisterFile(p) = [r \in Registers |-> Outermost(r)]
    BY OuterFile
  <2>2. \A p \in Processes : p = running => RegisterFile(p)' = [r \in Registers |-> Outermost(r)']
    BY LaterFiles
  <2> QED
    BY <1>1, <2>1, <2>2
<1> QED
  BY <1>2, OthersSteady

\* An entry of the kernel: the program's words wait on the stack.
LEMMA EnterSteady ==
  ASSUME InterruptsInv, InterruptsInv', UserMode,
         NEW v \in 0 .. 63, NEW code \in Seq(Words),
         Len(code) = ErrorCodes(v),
         Enter(v, code)
  PROVE  Steady
<1>1. /\ stack'[ErrorCodes(v) + 1] = cpu["eip"]
      /\ stack'[ErrorCodes(v) + 3] = cpu["eflags"]
      /\ stack'[ErrorCodes(v) + 4] = cpu["esp"]
      /\ cpu'["cs"] = KernelCode
      /\ cpu'["eip"] = Code("stub", v)
      /\ \A r \in Plain : cpu'[r] = cpu[r]
      /\ UNCHANGED <<context, running, active_process_count>>
      /\ Len(stack') = ErrorCodes(v) + 5
  BY EnterEffect
<1>2. v \in Nat /\ "stub" \in Places
  BY DEF Places
<1>n. ~Nested'
  <2>1. ErrorCodes(v) + 5 \in 0 .. 19
    BY DEF ErrorCodes
  <2> QED
    BY <1>1, <2>1, ShortStack
<1>3. Vector' = v /\ At("stub")' /\ running # Nobody
  BY <1>1, <1>2, CodeFacts, SelectorFacts DEF Vector, At, InKernel, InterruptsInv, InUser
<1>4. PICK f : /\ \A p : p = running' => RegisterFile(p)' = f
               /\ f = [r \in Registers |-> f[r]]
               /\ f["eip"] = (stack[ErrorCodes(Vector) + 1])'
               /\ f["eflags"] = (stack[ErrorCodes(Vector) + 3])'
               /\ f["esp"] = (stack[ErrorCodes(Vector) + 4])'
               /\ \A r \in Plain : f[r] = cpu'[r]
  BY <1>1, <1>n, <1>3, LaterStub
<1>5. /\ f["eip"] = cpu["eip"] /\ f["eflags"] = cpu["eflags"] /\ f["esp"] = cpu["esp"]
      /\ \A r \in Plain : f[r] = cpu[r]
  BY <1>1, <1>3, <1>4, Zenon
<1>6. \A r \in Registers : f[r] = cpu[r]
  BY <1>5, PlainFacts
<1>7. f = [r \in Registers |-> cpu[r]]
  BY <1>4, <1>6
<1>8. \A p \in Processes : p = running => RegisterFile(p)' = RegisterFile(p)
  BY <1>1, <1>4, <1>7, UserModeFile
<1> QED
  BY <1>1, <1>8, OthersSteady

LEMMA UnchangedSteady ==
  UNCHANGED <<cpu, stack, context, running, active_process_count>> => Steady
<1> SUFFICES ASSUME UNCHANGED <<cpu, stack, context, running, active_process_count>>,
                    NEW p \in Processes
             PROVE  RegisterFile(p)' = RegisterFile(p)
  BY DEF Steady
<1>1. /\ Created' = Created
      /\ UserMode' = UserMode
      /\ \A place : At(place)' = At(place)
      /\ \A r : Frame(r)' = Frame(r)
      /\ Pushing' = Pushing
  BY DEF Created, UserMode, At, InKernel, Frame, Pushing
<1> QED
  BY <1>1 DEF RegisterFile

LEMMA HardwareInterruptSteady ==
  ASSUME InterruptsInv, InterruptsInv', HardwareInterrupt
  PROVE  Steady /\ UNCHANGED <<running, active_process_count>>
<1>1. Deliverable # {} /\ iflag
  BY DEF HardwareInterrupt, Deliverable
<1>2. Deliverable \subseteq Lines
  BY DEF Deliverable, InterruptsInv, Typed
<1>3. PICK v : v = PIC1_OFFSET + Highest(Deliverable)
  OBVIOUS
<1>4. v \in 0 .. 63 /\ ErrorCodes(v) = 0
  <2>1. PICK irq : irq = Highest(Deliverable)
    OBVIOUS
  <2>2. irq \in Lines
    BY <1>1, <1>2, <2>1, HighestFacts
  <2> QED
    BY <1>3, <2>1, <2>2
       DEF Lines, IRQ_TIMER, IRQ_KEYBOARD, PIC1_OFFSET, ErrorCodes, ErrorCodeVectors
<1>5. Enter(v, <<>>)
  BY <1>3 DEF HardwareInterrupt
<1>6. UNCHANGED <<context, running, active_process_count>>
  BY <1>5 DEF Enter
<1>7. CASE UserMode
  <2>1. <<>> \in Seq(Words) /\ Len(<<>>) = 0
    BY EmptySeq
  <2> QED
    BY <1>4, <1>5, <1>6, <1>7, <2>1, EnterSteady
<1>8. CASE ~UserMode
  <2>1. At("kernel_setup")
    BY <1>1, <1>8 DEF InterruptsInv, SomePlace, Places, At, InStub, InHandler, InSwitch, UserMode,
                      InCall, InNested, Stuck
  <2>2. running = Nobody
    BY <2>1 DEF InterruptsInv, InSetup
  <2> QED
    BY <1>6, <2>2, CreatedFacts, OthersSteady
<1> QED
  BY <1>7, <1>8

LEMMA SoftwareInterruptSteady ==
  ASSUME InterruptsInv, InterruptsInv', NEW v \in SoftwareVectors, SoftwareInterrupt(v)
  PROVE  Steady /\ UNCHANGED <<running, active_process_count>>
<1>1. UserMode /\ v \in Nat
  BY InterruptsAssumption DEF SoftwareInterrupt
<1>2. Privilege(cpu["cs"]) = 3
  BY <1>1, ModeFacts, SelectorFacts DEF InterruptsInv
<1>3. CASE Callable(v)
  <2>1. v \in 48 .. 63
    BY <1>2, <1>3 DEF Callable, interrupt_descriptor_table
  <2>2. ErrorCodes(v) = 0
    BY <2>1 DEF ErrorCodes, ErrorCodeVectors
  <2>3. <<>> \in Seq(Words) /\ Len(<<>>) = 0
    BY EmptySeq
  <2>4. Enter(v, <<>>) /\ v \in 0 .. 63
    BY <1>3, <2>1 DEF SoftwareInterrupt
  <2>5. UNCHANGED <<running, active_process_count>>
    BY <2>4 DEF Enter
  <2> QED
    BY <1>1, <2>2, <2>3, <2>4, <2>5, EnterSteady
<1>4. CASE ~Callable(v)
  <2>1. ErrorCodes(GENERAL_PROTECTION) = 1 /\ GENERAL_PROTECTION \in 0 .. 63
    BY DEF ErrorCodes, ErrorCodeVectors, GENERAL_PROTECTION
  <2>2. /\ <<Number(8 * v + 2)>> \in Seq(Words)
        /\ Len(<<Number(8 * v + 2)>>) = 1
    BY <1>1, NumberFacts
  <2>3. Enter(GENERAL_PROTECTION, <<Number(8 * v + 2)>>)
    BY <1>4 DEF SoftwareInterrupt
  <2>4. UNCHANGED <<running, active_process_count>>
    BY <2>3 DEF Enter
  <2> QED
    BY <1>1, <2>1, <2>2, <2>3, <2>4, EnterSteady
<1> QED
  BY <1>3, <1>4

LEMMA ExceptionSteady ==
  ASSUME InterruptsInv, InterruptsInv', NEW v \in Exceptions, Exception(v)
  PROVE  Steady /\ UNCHANGED <<running, active_process_count>>
<1>1. UserMode /\ v \in 0 .. 31 /\ v # 21 /\ v # 29
  BY InterruptsAssumption DEF Exception
<1> DEFINE code == IF v \in ProcessorErrorCodes THEN <<Number(0)>> ELSE <<>>
<1>2. v \in ProcessorErrorCodes <=> v \in ErrorCodeVectors
  BY <1>1 DEF ProcessorErrorCodes, ErrorCodeVectors
<1>3. code \in Seq(Words) /\ Len(code) = ErrorCodes(v)
  BY <1>2, NumberFacts DEF ErrorCodes
<1>4. Enter(v, code) /\ v \in 0 .. 63
  BY <1>1 DEF Exception
<1> HIDE DEF code
<1>5. UNCHANGED <<running, active_process_count>>
  BY <1>4 DEF Enter
<1> QED
  BY <1>1, <1>3, <1>4, <1>5, EnterSteady

\* The frame holds the registers in the order of struct CPURegister.
LEMMA StubSteady ==
  ASSUME InterruptsInv, InterruptsInv', Stub
  PROVE  Steady /\ UNCHANGED <<running, active_process_count>>
<1>1. UNCHANGED <<context, running, active_process_count>> /\ At("stub")
  BY DEF Stub
<1>2. CASE running = Nobody
  BY <1>1, <1>2, CreatedFacts, OthersSteady
<1>3. CASE running # Nobody /\ ~Nested
  <2>1. PICK v : v = Vector
    OBVIOUS
  <2>2. PICK e : e = ErrorCodes(v)
    OBVIOUS
  <2>3. /\ v \in 0 .. 63
        /\ \A i \in 1 .. 12 : i # 4 => stack'[i] = cpu[CPURegister[i]]
        /\ stack'[4] = stack[e + 4]
        /\ \A i \in 1 .. 5 : stack'[14 + i] = stack[e + i]
    BY <1>3, <2>1, <2>2, StubEffect
  <2>4. PICK f : /\ \A p : p = running => RegisterFile(p) = f
                 /\ f = [r \in Registers |-> f[r]]
                 /\ f["eip"] = stack[e + 1]
                 /\ f["eflags"] = stack[e + 3]
                 /\ f["esp"] = stack[e + 4]
                 /\ \A r \in Plain : f[r] = cpu[r]
    BY <1>1, <1>3, <2>1, <2>2, StubFile
  <2>5. At("main_interrupt_handler")'
    <3>1. v \in Nat /\ "main_interrupt_handler" \in Places
      BY <2>3 DEF Places
    <3>2. cpu \in [AllRegisters -> Words] /\ cpu["cs"] = KernelCode
      BY <1>1, ModeFacts DEF InterruptsInv, Typed, At
    <3>3. /\ cpu'["eip"] = Code("main_interrupt_handler", v)
          /\ cpu'["cs"] = cpu["cs"]
      BY <2>1, <3>2, RegisterFacts DEF Stub, Vector
    <3> QED
      BY <3>1, <3>2, <3>3, CodeFacts, SelectorFacts DEF At, InKernel
  <2>6. \A r \in Registers : Frame(r)' = stack'[Position(r, InterruptFrame)]
    BY DEF Frame
  <2>7. stack'[15] = stack[e + 1] /\ stack'[17] = stack[e + 3]
    BY <2>3
  <2>8. Frame("eip")' = f["eip"] /\ Frame("eflags")' = f["eflags"]
    BY <2>4, <2>6, <2>7, FrameFacts, RegisterFacts
  <2>9. Frame("esp")' = f["esp"]
    <3>1. Position("esp", InterruptFrame) = 4
      BY FrameFacts
    <3> QED
      BY <2>3, <2>4, <2>6, <3>1, RegisterFacts
  <2>10. \A r \in Plain : Frame(r)' = f[r]
    <3> SUFFICES ASSUME NEW r \in Plain
                 PROVE  Frame(r)' = f[r]
      OBVIOUS
    <3>1. PICK i : i = Position(r, InterruptFrame)
      OBVIOUS
    <3>2. i \in 1 .. 12 /\ i # 4 /\ CPURegister[i] = r
      BY <3>1, FrameFacts
    <3>3. stack'[i] = cpu[r]
      BY <2>3, <3>2
    <3> QED
      BY <2>4, <2>6, <3>1, <3>3, PlainFacts
  <2>11. \A r \in Registers : Frame(r)' = f[r]
    BY <2>8, <2>9, <2>10, PlainFacts
  <2>n. ~Nested'
    <3>1. Len(stack') = 19 /\ 19 \in 0 .. 19
      BY <1>3, <2>1, <2>2, StubEffect
    <3> QED
      BY <3>1, ShortStack
  <2>12. \A p \in Processes : p = running => RegisterFile(p)' = [r \in Registers |-> Frame(r)']
    BY <1>1, <1>3, <2>n, <2>5, LaterFiles
  <2>13. f = [r \in Registers |-> Frame(r)']
    BY <2>4, <2>11
  <2> QED
    BY <1>1, <2>4, <2>12, <2>13, OthersSteady
<1>4. CASE Nested
  <2>1. /\ Stuck /\ FaultAbove(4) /\ At("stub")
        /\ Len(stack') = 13 + Len(stack)
        /\ \A i \in 1 .. 23 : stack'[13 + i] = stack[i]
    BY <1>4, NestedStubEffect
  <2>2. Len(stack) = 4 + 19 /\ Len(stack)' = 17 + 19
    BY <2>1 DEF FaultAbove
  <2>3. \A i \in 1 .. 19 : stack'[17 + i] = stack[4 + i]
    <3>1. \A i \in 1 .. 19 : 4 + i \in 1 .. 23 /\ 13 + (4 + i) = 17 + i
      OBVIOUS
    <3> QED
      BY <2>1, <3>1, Zenon
  <2>4. Deep
    BY <2>1, <2>2 DEF Deep, Stuck, At
  <2>5. Deep'
    <3>1. Nested'
      BY <2>2 DEF Nested
    <3>2. (Stuck /\ InKernel /\ (At("stub") \/ At("main_interrupt_handler") \/ At("return")))'
      BY <3>1 DEF InterruptsInv, InNested
    <3> QED
      BY <2>2, <3>2 DEF Deep, Stuck, At
  <2> QED
    BY <1>1, <2>2, <2>3, <2>4, <2>5, DeepSteady
<1> QED
  BY <1>2, <1>3, <1>4

\* What a step of the handler or of kernel_setup changes for the processes: nothing,
\* or one of them is created, or another one gets the processor.
LEMMA CreateProcessStep ==
  ASSUME InterruptsInv, InterruptsInv', CreateProcess, running' = running,
         \A p \in Processes : p = running => RegisterFile(p)' = RegisterFile(p)
  PROVE  /\ Steady
         /\ \E p \in Processes \ Created : Created' = Created \cup {p}
<1> DEFINE n == active_process_count
<1>1. /\ n \in Processes /\ n \notin Created
      /\ active_process_count' = n + 1
      /\ context \in [Processes -> [Registers -> Words]]
      /\ context' = [context EXCEPT ![n] = Fresh(n)]
  BY InterruptsAssumption DEF InterruptsInv, Typed, CreateProcess, Processes, Created
<1>2. Created' = Created \cup {n}
  BY <1>1 DEF Created, Processes
<1>3. \A p \in Processes : p = running => p \in Created
  BY CreatedFacts
<1>4. ASSUME NEW p \in Processes
      PROVE  RegisterFile(p)' = RegisterFile(p)
  <2>1. CASE p = running
    BY <2>1
  <2>2. CASE p = n /\ p # running
    <3>1. RegisterFile(p) = Fresh(p)
      BY <1>1, <2>2, WaitingFile
    <3>2. RegisterFile(p)' = context'[p]
      BY <1>2, <2>2, LaterFiles
    <3> QED
      BY <1>1, <2>2, <3>1, <3>2
  <2>3. CASE p # n /\ p # running /\ p \in Created
    BY <1>1, <1>2, <2>3, WaitingFile, LaterFiles
  <2>4. CASE p # n /\ p # running /\ p \notin Created
    BY <1>1, <1>2, <2>4, WaitingFile, LaterFiles
  <2> QED
    BY <2>1, <2>2, <2>3, <2>4
<1> QED
  BY <1>1, <1>2, <1>4 DEF Steady

\* The handler leaves the frame of the process it was entered from alone.
LEMMA ReturningFile ==
  ASSUME InterruptsInv, InterruptsInv', At("main_interrupt_handler"),
         NEW place, place \in Places, place # "process_context_switch", GoTo(place),
         UNCHANGED <<stack, running>>,
         NEW p \in Processes, p = running
  PROVE  RegisterFile(p)' = RegisterFile(p)
<1>1. running # Nobody
  BY CreatedFacts
<1>2. PICK v : v = Vector
  OBVIOUS
<1>3. v \in Nat /\ cpu \in [AllRegisters -> Words] /\ cpu["cs"] = KernelCode
  <2>1. v \in 0 .. 63
    BY <1>2, HandlerFacts
  <2> QED
    BY <2>1, ModeFacts DEF InterruptsInv, Typed, At
<1>4. cpu'["eip"][3] = place /\ cpu'["cs"] = KernelCode
  BY <1>2, <1>3, GoToFacts, RegisterFacts
<1>5. Len(stack) = 19 \/ Len(stack) = 36
  <2>1. CASE ~Nested
    BY <1>1, <2>1 DEF InterruptsInv, InHandler
  <2>2. CASE Nested
    BY <2>2 DEF InterruptsInv, InNested, FaultAbove, At
  <2> QED
    BY <2>1, <2>2
<1>n. PICK n : n = Len(stack)
  OBVIOUS
<1>l. n >= 19
  <2>1. n = 19 \/ n = 36
    BY <1>5, <1>n, Zenon
  <2> QED
    BY ONLY <2>1
<1>6. Deep
  BY <1>1, <1>n, <1>l DEF Deep, At
<1>7. Deep'
  <2>1. /\ running' # Nobody /\ Len(stack)' >= 19
        /\ InKernel'
    BY <1>1, <1>4, <1>n, <1>l, SelectorFacts DEF InKernel
  <2> QED
    BY <1>4, <2>1 DEF Deep, At
<1>8. RegisterFile(p) = [r \in Registers |-> Outermost(r)]
  BY <1>6, OuterFile
<1>9. RegisterFile(p)' = [r \in Registers |-> Outermost(r)']
  BY <1>7, LaterFiles
<1>10. \A r \in Registers : Outermost(r)' = Outermost(r)
  BY DEF Outermost
<1> QED
  BY <1>8, <1>9, <1>10

LEMMA TimerHandlerStep ==
  ASSUME InterruptsInv, InterruptsInv', At("main_interrupt_handler"), TimerHandler,
         ~Nested, running # Nobody
  PROVE  /\ Steady
         /\ Created' = Created /\ running' \in Created
<1>1. Created' = Created
  BY DEF TimerHandler, Created
<1>2. At("process_context_switch")'
  <2>1. PICK v : v = Vector
    OBVIOUS
  <2>2. v \in 0 .. 63
    BY <2>1, HandlerFacts
  <2>3. /\ v \in Nat /\ "process_context_switch" \in Places
        /\ cpu \in [AllRegisters -> Words] /\ cpu["cs"] = KernelCode
    BY <2>2, ModeFacts DEF Places, InterruptsInv, Typed, At
  <2>4. /\ cpu'["eip"][3] = "process_context_switch"
        /\ cpu'["cs"] = KernelCode
    BY <2>1, <2>3, GoToFacts, RegisterFacts DEF TimerHandler
  <2> QED
    BY <2>4, SelectorFacts DEF At, InKernel
<1>3. running' # Nobody
  BY <1>2 DEF InterruptsInv, InSwitch
<1>4. running' \in Created
  <2>1. (running # Nobody => running \in Created)'
    <3>1. InterruptsInv' => (running # Nobody => running \in Created)'
      BY CreatedFacts, PTL
    <3> QED
      BY <3>1
  <2> QED
    BY <1>1, <1>3, <2>1
<1>5. /\ running \in Created /\ running \in Processes
      /\ context \in [Processes -> [Registers -> Words]]
      /\ context' = [context EXCEPT ![running] = [r \in Registers |-> Frame(r)]]
  BY CreatedFacts DEF InterruptsInv, Typed, TimerHandler
<1>6. ASSUME NEW p \in Processes
      PROVE  RegisterFile(p)' = RegisterFile(p)
  <2>1. CASE p \notin Created
    BY <1>1, <2>1, WaitingFile, LaterFiles
  <2>2. CASE p \in Created /\ p # running
    <3>1. RegisterFile(p) = context[p]
      BY <2>2, WaitingFile
    <3>2. RegisterFile(p)' = context'[p]
      BY <1>1, <1>2, <2>2, LaterFiles
    <3> QED
      BY <1>5, <2>2, <3>1, <3>2
  <2>3. CASE p = running
    <3>1. RegisterFile(p) = [r \in Registers |-> Frame(r)]
      BY <2>3, HandlerFile
    <3>2. RegisterFile(p)' = context'[p]
      BY <1>1, <1>2, <1>5, <2>3, LaterFiles
    <3> QED
      BY <1>5, <2>3, <3>1, <3>2
  <2> QED
    BY <2>1, <2>2, <2>3
<1> QED
  BY <1>1, <1>4, <1>6 DEF Steady

\* A step of the kernel, as the processes see it.
KernelOutcome ==
  /\ Steady
  /\ \/ Created' = Created /\ running' = running
     \/ running' = running /\ \E p \in Processes \ Created : Created' = Created \cup {p}
     \/ Created' = Created /\ running' \in Created

LEMMA HandlerStep ==
  ASSUME InterruptsInv, InterruptsInv', main_interrupt_handler
  PROVE  KernelOutcome
<1>1. At("main_interrupt_handler")
  BY DEF main_interrupt_handler
<1>2. PICK v : v = Vector
  OBVIOUS
<1>3. /\ v \in 0 .. 63
      /\ Frame("int_number") = Number(v)
      /\ running = Nobody => v = PIC1_OFFSET + IRQ_KEYBOARD
      /\ Nested => v = PAGE_FAULT
  BY <1>1, <1>2, HandlerFacts
<1>4. \/ KeyboardHandler \/ SyscallHandler \/ NoHandler
      \/ TimerHandler /\ running # Nobody /\ ~Nested
  <2>1. v \in Nat /\ PIC1_OFFSET + IRQ_KEYBOARD = 33
    BY <1>3 DEF PIC1_OFFSET, IRQ_KEYBOARD
  <2>2. CASE v = 33
    <3>1. Frame("int_number") = Number(PIC1_OFFSET + IRQ_KEYBOARD)
      BY <1>3, <2>1, <2>2
    <3>2. Number(SYSCALL) # Number(PIC1_OFFSET + IRQ_KEYBOARD)
      BY NumberFacts DEF SYSCALL, PIC1_OFFSET, IRQ_KEYBOARD
    <3>3. Number(PIC1_OFFSET + IRQ_TIMER) # Number(PIC1_OFFSET + IRQ_KEYBOARD)
      BY NumberFacts DEF IRQ_TIMER, PIC1_OFFSET, IRQ_KEYBOARD
    <3> QED
      BY <3>1, <3>2, <3>3 DEF main_interrupt_handler
  <2>3. CASE v # 33
    <3>1. running # Nobody
      BY <1>3, <2>1, <2>3
    <3>2. Frame("int_number") # Number(PIC1_OFFSET + IRQ_KEYBOARD)
      BY <1>3, <2>1, <2>3, NumberFacts
    <3>3. Number(SYSCALL) # Number(PIC1_OFFSET + IRQ_TIMER)
      BY NumberFacts DEF SYSCALL, PIC1_OFFSET, IRQ_TIMER
    <3>4. Nested => Frame("int_number") # Number(PIC1_OFFSET + IRQ_TIMER)
      BY <1>3, NumberFacts DEF PAGE_FAULT, PIC1_OFFSET, IRQ_TIMER
    <3> QED
      BY <3>1, <3>2, <3>3, <3>4 DEF main_interrupt_handler
  <2> QED
    BY <2>2, <2>3
<1>5. CASE KeyboardHandler \/ NoHandler
  <2>1. /\ GoTo("return")
        /\ UNCHANGED <<stack, context, running, active_process_count>>
    BY <1>5 DEF KeyboardHandler, NoHandler
  <2>2. \A p \in Processes : p = running => RegisterFile(p)' = RegisterFile(p)
    BY <1>1, <2>1, ReturningFile DEF Places
  <2>3. Steady
    BY <2>1, <2>2, OthersSteady
  <2> QED
    BY <2>1, <2>3 DEF KernelOutcome, Created
<1>6. CASE SyscallHandler
  <2>1. /\ GoTo("return") \/ GoTo("unmapped_access") \/ GoTo("cluster_search")
        /\ UNCHANGED <<stack, running>>
        /\ CreateProcess \/ UNCHANGED <<context, active_process_count>>
    BY <1>6 DEF SyscallHandler
  <2>2. \A p \in Processes : p = running => RegisterFile(p)' = RegisterFile(p)
    <3>1. \A place \in {"return", "unmapped_access", "cluster_search"} :
            place \in Places /\ place # "process_context_switch"
      BY DEF Places
    <3> QED
      BY <1>1, <2>1, <3>1, ReturningFile
  <2>3. CASE CreateProcess
    BY <2>1, <2>2, <2>3, CreateProcessStep DEF KernelOutcome
  <2>4. CASE UNCHANGED <<context, active_process_count>>
    <3>1. Steady
      BY <2>1, <2>2, <2>4, OthersSteady
    <3> QED
      BY <2>1, <2>4, <3>1 DEF KernelOutcome, Created
  <2> QED
    BY <2>1, <2>3, <2>4
<1>7. CASE TimerHandler /\ running # Nobody /\ ~Nested
  BY <1>1, <1>7, TimerHandlerStep DEF KernelOutcome
<1> QED
  BY <1>4, <1>5, <1>6, <1>7

LEMMA ReturnStep ==
  ASSUME InterruptsInv, InterruptsInv', Return
  PROVE  KernelOutcome
<1>1. /\ UNCHANGED <<context, running, active_process_count>>
      /\ At("return")
  BY DEF Return
<1>2. ASSUME ~Nested, NEW p \in Processes, p = running
      PROVE  RegisterFile(p)' = RegisterFile(p)
  <2>1. running # Nobody
    BY <1>2, CreatedFacts
  <2>2. stack[16] = UserCode
    BY <1>1, <1>2, <2>1 DEF InterruptsInv, InHandler
  <2>3. /\ \A r \in Plain : cpu'[r] = stack[Position(r, InterruptFrame)]
        /\ cpu'["eip"] = stack[15] /\ cpu'["cs"] = stack[16] /\ cpu'["eflags"] = stack[17]
        /\ cpu'["esp"] = stack[18]
    BY <1>2, <2>1, ReturnEffect
  <2>4. UserMode'
    BY <2>2, <2>3, SelectorFacts DEF UserMode, InKernel
  <2>5. RegisterFile(p)' = [r \in Registers |-> cpu'[r]]
    BY <1>1, <1>2, <2>4, LaterFiles
  <2>6. RegisterFile(p) = [r \in Registers |-> Frame(r)]
    BY <1>1, <1>2, <2>1, HandlerFile
  <2>7. \A r \in Plain : cpu'[r] = Frame(r)
    BY <2>3 DEF Frame
  <2>8. cpu'["eip"] = Frame("eip") /\ cpu'["eflags"] = Frame("eflags")
    BY <2>3, FrameFacts DEF Frame
  <2>9. cpu'["esp"] = Frame("esp")
    <3>1. Frame("esp") = stack[4]
      BY FrameFacts DEF Frame
    <3>2. stack[4] = stack[18]
      BY <1>1, <1>2, <2>1 DEF InterruptsInv, InHandler
    <3> QED
      BY <2>3, <3>1, <3>2
  <2>10. \A r \in Registers : cpu'[r] = Frame(r)
    BY <2>7, <2>8, <2>9, PlainFacts
  <2> QED
    BY <2>5, <2>6, <2>10
<1>3. CASE ~Nested
  <2>1. Steady
    BY <1>1, <1>2, <1>3, OthersSteady
  <2> QED
    BY <1>1, <2>1 DEF KernelOutcome, Created
<1>4. CASE Nested
  <2>1. /\ Stuck /\ FaultAbove(17) /\ At("return")
        /\ Len(stack') = 19
        /\ \A i \in 1 .. 19 : stack'[i] = stack[17 + i]
        /\ cpu'["cs"] = KernelCode
        /\ cpu'["eip"] = Code("unmapped_access", SYSCALL)
    BY <1>4, NestedReturnEffect
  <2>2. Len(stack) = 17 + 19 /\ Len(stack)' = 0 + 19
    BY <2>1 DEF FaultAbove
  <2>3. \A i \in 1 .. 19 : stack'[0 + i] = stack[17 + i]
    <3>1. \A i \in 1 .. 19 : 0 + i = i
      OBVIOUS
    <3> QED
      BY <2>1, <3>1, Zenon
  <2>4. Deep
    BY <2>1, <2>2 DEF Deep, Stuck, At
  <2>5. Deep'
    <3>1. "unmapped_access" \in Places /\ SYSCALL \in Nat
      BY DEF Places, SYSCALL
    <3>2. Code("unmapped_access", SYSCALL)[3] = "unmapped_access"
      BY <3>1, CodeFacts, Zenon
    <3>3. cpu'["eip"][3] # "process_context_switch"
      BY <2>1, <3>2
    <3>4. running' # Nobody
      BY <1>1, <2>1 DEF Stuck
    <3>5. InKernel'
      BY <2>1, SelectorFacts DEF InKernel
    <3> QED
      BY <2>2, <3>3, <3>4, <3>5 DEF Deep, At
  <2>6. Steady
    BY <1>1, <2>2, <2>3, <2>4, <2>5, DeepSteady
  <2> QED
    BY <1>1, <2>6 DEF KernelOutcome, Created
<1> QED
  BY <1>3, <1>4

LEMMA SyscallPageFaultStep ==
  ASSUME InterruptsInv, InterruptsInv', SyscallPageFault
  PROVE  KernelOutcome
<1>1. /\ At("unmapped_access") /\ Stuck
      /\ Len(stack) = 19
      /\ Len(stack') = 23
      /\ \A i \in 1 .. 19 : stack'[4 + i] = stack[i]
      /\ cpu'["cs"] = KernelCode
      /\ cpu'["eip"] = Code("stub", PAGE_FAULT)
      /\ UNCHANGED <<context, running, active_process_count>>
  BY SyscallPageFaultEffect
<1>2. Len(stack) = 0 + 19 /\ Len(stack)' = 4 + 19
  BY <1>1
<1>3. \A i \in 1 .. 19 : stack'[4 + i] = stack[0 + i]
  <2>1. \A i \in 1 .. 19 : 0 + i = i
    OBVIOUS
  <2> QED
    BY <1>1, <2>1, Zenon
<1>4. Deep
  BY <1>1 DEF Deep, Stuck, At
<1>5. Deep'
  <2>1. "stub" \in Places /\ PAGE_FAULT \in Nat
    BY DEF Places, PAGE_FAULT
  <2>2. Code("stub", PAGE_FAULT)[3] = "stub"
    BY <2>1, CodeFacts, Zenon
  <2>3. cpu'["eip"][3] # "process_context_switch"
    BY <1>1, <2>2
  <2>4. running' # Nobody
    BY <1>1 DEF Stuck
  <2>5. InKernel'
    BY <1>1, SelectorFacts DEF InKernel
  <2> QED
    BY <1>2, <2>3, <2>4, <2>5 DEF Deep, At
<1>6. Steady
  BY <1>1, <1>2, <1>3, <1>4, <1>5, DeepSteady
<1> QED
  BY <1>1, <1>6 DEF KernelOutcome, Created

LEMMA ContextSwitchStep ==
  ASSUME InterruptsInv, InterruptsInv', ContextSwitch
  PROVE  KernelOutcome
<1>1. /\ UNCHANGED <<context, running, active_process_count>>
      /\ At("process_context_switch")
  BY DEF ContextSwitch
<1>2. ASSUME NEW p \in Processes, p = running
      PROVE  RegisterFile(p)' = RegisterFile(p)
  <2>1. PICK ctx : ctx = context[running]
    OBVIOUS
  <2>2. /\ running # Nobody
        /\ cpu'["cs"] = UserCode
        /\ \A r \in Registers : cpu'[r] = ctx[r]
    BY <2>1, ContextSwitchEffect
  <2>3. UserMode'
    BY <2>2, SelectorFacts DEF UserMode, InKernel
  <2>4. RegisterFile(p)' = [r \in Registers |-> cpu'[r]]
    BY <1>1, <1>2, <2>3, LaterFiles
  <2>5. RegisterFile(p) = ctx
    BY <1>1, <1>2, <2>1, <2>2, CreatedFacts, WaitingFile
  <2>6. ctx \in [Registers -> Words]
    BY <1>2, <2>1 DEF InterruptsInv, Typed
  <2>7. ctx = [r \in Registers |-> ctx[r]]
    BY <2>6
  <2>8. [r \in Registers |-> cpu'[r]] = [r \in Registers |-> ctx[r]]
    BY <2>2
  <2> QED
    BY <2>4, <2>5, <2>7, <2>8, Zenon
<1>3. Steady
  BY <1>1, <1>2, OthersSteady
<1> QED
  BY <1>1, <1>3 DEF KernelOutcome, Created

LEMMA SetupStep ==
  ASSUME InterruptsInv, InterruptsInv', kernel_setup
  PROVE  KernelOutcome
<1>1. PICK n \in 0 .. 6 : Call(n)
  BY DEF kernel_setup, LoadGDT, pic_remap, initialize_idt, activate_keyboard_interrupt,
         CreateShell, scheduler_init, StartScheduler
<1>2. running = Nobody /\ running \notin Processes
  BY <1>1, SetupFacts, CreatedFacts
<1>3. CASE LoadGDT \/ pic_remap \/ initialize_idt \/ activate_keyboard_interrupt \/ scheduler_init
  <2>1. UNCHANGED <<context, running, active_process_count>>
    BY <1>3 DEF LoadGDT, pic_remap, initialize_idt, activate_keyboard_interrupt, scheduler_init
  <2>2. Steady
    BY <1>2, <2>1, OthersSteady
  <2> QED
    BY <2>1, <2>2 DEF KernelOutcome, Created
<1>4. CASE CreateShell
  <2>1. CreateProcess /\ running' = running
    BY <1>4 DEF CreateShell
  <2>2. \A p \in Processes : p = running => RegisterFile(p)' = RegisterFile(p)
    BY <1>2
  <2> QED
    BY <2>1, <2>2, CreateProcessStep DEF KernelOutcome
<1>5. CASE StartScheduler
  <2>1. /\ UNCHANGED <<context, active_process_count>>
        /\ GoTo("process_context_switch")
        /\ Call(6)
    BY <1>5 DEF StartScheduler
  <2>2. Created' = Created
    BY <2>1 DEF Created
  <2>3. At("process_context_switch")'
    <3>1. /\ cpu["eip"][2] = 6 /\ cpu \in [AllRegisters -> Words] /\ cpu["cs"] = KernelCode
      <4>1. 6 \in 0 .. 6
        OBVIOUS
      <4> QED
        BY <2>1, <4>1, SetupFacts
    <3>2. PICK v \in Nat : v = Vector
      BY <3>1 DEF Vector
    <3>3. "process_context_switch" \in Places
      BY DEF Places
    <3>4. /\ cpu'["eip"][3] = "process_context_switch"
          /\ cpu'["cs"] = KernelCode
      BY <2>1, <3>1, <3>2, <3>3, GoToFacts, RegisterFacts
    <3> QED
      BY <3>4, SelectorFacts DEF At, InKernel
  <2>4. running' # Nobody
    BY <2>3 DEF InterruptsInv, InSwitch
  <2>5. running' \in Created
    <3>1. InterruptsInv' => (running # Nobody => running \in Created)'
      BY CreatedFacts, PTL
    <3> QED
      BY <2>2, <2>4, <3>1
  <2>6. ASSUME NEW p \in Processes
        PROVE  RegisterFile(p)' = RegisterFile(p)
    <3>1. p # running
      BY <1>2
    <3>2. CASE p \notin Created
      BY <2>2, <3>2, WaitingFile, LaterFiles
    <3>3. CASE p \in Created
      BY <2>1, <2>2, <2>3, <3>1, <3>3, WaitingFile, LaterFiles
    <3> QED
      BY <3>2, <3>3
  <2> QED
    BY <2>2, <2>5, <2>6 DEF KernelOutcome, Steady
<1> QED
  BY <1>3, <1>4, <1>5 DEF kernel_setup

\* An instruction is the one thing that changes the registers of a process: its own.
LEMMA UserStepExecutes ==
  ASSUME InterruptsInv, InterruptsInv', UserStep
  PROVE  /\ running \in Created /\ Created' = Created /\ running' = running
         /\ \A p \in Processes :
              RegisterFile(p)' = IF p = running THEN Executed(RegisterFile(p)) ELSE RegisterFile(p)
<1>1. /\ UNCHANGED <<context, running, active_process_count>>
      /\ UserMode
  BY DEF UserStep
<1>2. running # Nobody /\ running \in Created /\ Created' = Created
  BY <1>1, CreatedFacts DEF InterruptsInv, InUser, Created
<1>3. UserMode'
  <2>1. cpu'["cs"] = cpu["cs"]
    BY RegisterFacts DEF UserStep, InterruptsInv, Typed
  <2> QED
    BY <1>1, <2>1 DEF UserMode, InKernel
<1>4. ASSUME NEW p \in Processes, p = running
      PROVE  RegisterFile(p)' = Executed(RegisterFile(p))
  <2>1. PICK f : f = [r \in Registers |-> cpu[r]]
    OBVIOUS
  <2>2. RegisterFile(p) = f
    BY <1>1, <1>4, <2>1, UserModeFile
  <2>3. RegisterFile(p)' = [r \in Registers |-> cpu'[r]]
    BY <1>1, <1>3, <1>4, LaterFiles
  <2>4. \A r \in Registers : cpu'[r] = Executed(f)[r]
    BY <2>1, RegisterFacts DEF UserStep, InterruptsInv, Typed
  <2>5. Executed(f) = [r \in Registers |-> Executed(f)[r]]
    BY DEF Executed
  <2>6. [r \in Registers |-> cpu'[r]] = [r \in Registers |-> Executed(f)[r]]
    BY <2>4
  <2> QED
    BY <2>2, <2>3, <2>5, <2>6, Zenon
<1>5. ASSUME NEW p \in Processes, p # running
      PROVE  RegisterFile(p)' = RegisterFile(p)
  BY <1>1, <1>2, <1>5, WaitingFile, LaterFiles
<1> QED
  BY <1>1, <1>2, <1>4, <1>5

(***************************************************************************)
(* The entry stubs, the C handler, the control blocks and the switch give  *)
(* every process a processor of its own: nothing but an instruction of the *)
(* process changes its registers, wherever they are kept meanwhile         *)
(* (intsetup.s, interrupt.c:206-231, ctx_switch.s).                        *)
(***************************************************************************)
THEOREM ProcessorOfItsOwn == InterruptsSpec => OwnProcessor
<1> DEFINE file == [p \in Processes |-> RegisterFile(p)]
<1>1. InterruptsInit => Abstract!Init
  <2> SUFFICES ASSUME InterruptsInit
               PROVE  Abstract!Init
    OBVIOUS
  <2>1. InterruptsInv /\ running = Nobody /\ Created = {}
    BY InitInv DEF InterruptsInit, Created
  <2>2. \A p \in Processes : RegisterFile(p) = Fresh(p)
    BY <2>1, WaitingFile
  <2>3. running \notin Processes
    BY <2>1, CreatedFacts
  <2> QED
    BY <2>1, <2>2, <2>3 DEF Abstract!Init
<1>2. InterruptsInv /\ InterruptsInv' /\ [InterruptsNext]_vars
        => [Abstract!Next]_<<file, Created, running>>
  <2> SUFFICES ASSUME InterruptsInv, InterruptsInv', [InterruptsNext]_vars
               PROVE  [Abstract!Next]_<<file, Created, running>>
    OBVIOUS
  <2>1. ASSUME KernelOutcome
        PROVE  [Abstract!Next]_<<file, Created, running>>
    <3>1. file' = file
      BY <2>1 DEF KernelOutcome, Steady
    <3>2. CASE Created' = Created /\ running' = running
      BY <3>1, <3>2
    <3>3. CASE running' = running /\ \E p \in Processes \ Created : Created' = Created \cup {p}
      BY <3>1, <3>3 DEF Abstract!Next, Abstract!Create
    <3>4. CASE Created' = Created /\ running' \in Created
      BY <3>1, <3>4 DEF Abstract!Next, Abstract!Switch
    <3> QED
      BY <2>1, <3>2, <3>3, <3>4 DEF KernelOutcome
  <2>2. ASSUME Steady, UNCHANGED <<running, active_process_count>>
        PROVE  KernelOutcome
    BY <2>2 DEF KernelOutcome, Created
  <2>3. CASE Tick \/ KeyPress
    BY <2>1, <2>2, <2>3, UnchangedSteady DEF Tick, KeyPress, Request
  <2>4. CASE HardwareInterrupt
    BY <2>1, <2>2, <2>4, HardwareInterruptSteady
  <2>5. CASE UserStep
    <3>1. /\ running \in Created /\ Created' = Created /\ running' = running
          /\ \A p \in Processes :
               RegisterFile(p)' = IF p = running THEN Executed(RegisterFile(p)) ELSE RegisterFile(p)
      BY <2>5, UserStepExecutes
    <3>2. running \in Processes
      BY <3>1, CreatedFacts
    <3>3. file' = [file EXCEPT ![running] = Executed(file[running])]
      BY <3>1, <3>2
    <3> QED
      BY <3>1, <3>3 DEF Abstract!Next, Abstract!Execute
  <2>6. ASSUME NEW v \in SoftwareVectors, SoftwareInterrupt(v)
        PROVE  [Abstract!Next]_<<file, Created, running>>
    BY <2>1, <2>2, <2>6, SoftwareInterruptSteady
  <2>7. ASSUME NEW v \in Exceptions, Exception(v)
        PROVE  [Abstract!Next]_<<file, Created, running>>
    BY <2>1, <2>2, <2>7, ExceptionSteady
  <2>8. CASE Stub
    BY <2>1, <2>2, <2>8, StubSteady
  <2>9. CASE main_interrupt_handler
    BY <2>1, <2>9, HandlerStep
  <2>10. CASE Return
    BY <2>1, <2>10, ReturnStep
  <2>11. CASE ContextSwitch
    BY <2>1, <2>11, ContextSwitchStep
  <2>12. CASE kernel_setup
    BY <2>1, <2>12, SetupStep
  <2>13. CASE ClusterSearch \/ UNCHANGED vars
    BY <2>1, <2>2, <2>13, UnchangedSteady DEF ClusterSearch, vars
  <2>14. CASE SyscallPageFault
    BY <2>1, <2>14, SyscallPageFaultStep
  <2> QED
    BY <2>3, <2>4, <2>5, <2>6, <2>7, <2>8, <2>9, <2>10, <2>11, <2>12, <2>13, <2>14
       DEF InterruptsNext, Program, KernelStep
<1> QED
  BY <1>1, <1>2, InterruptsInvariant, PTL DEF InterruptsSpec, OwnProcessor, Abstract!Spec

=============================================================================
