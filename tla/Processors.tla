----------------------------- MODULE Processors -----------------------------
(***************************************************************************)
(* What the interrupt entry and the context switch promise together: every *)
(* process seems to have a processor of its own, whose registers change    *)
(* only by the process's own instructions.                                 *)
(***************************************************************************)
CONSTANTS Processes, Registers,
  Fresh(_),       \* the registers a process starts with
  Executed(_)     \* the registers after an instruction of the process

VARIABLES file, alive, current

Init ==
  /\ file = [p \in Processes |-> Fresh(p)]
  /\ alive = {}
  /\ current \notin Processes

Create == \E p \in Processes \ alive : alive' = alive \cup {p} /\ UNCHANGED <<file, current>>

Execute ==
  /\ current \in alive
  /\ file' = [file EXCEPT ![current] = Executed(file[current])]
  /\ UNCHANGED <<alive, current>>

Switch == current' \in alive /\ UNCHANGED <<file, alive>>

Next == Create \/ Execute \/ Switch

Spec == Init /\ [][Next]_<<file, alive, current>>
=============================================================================
