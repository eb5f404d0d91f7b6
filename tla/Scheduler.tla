------------------------------ MODULE Scheduler ------------------------------
(***************************************************************************)
(* The round-robin scheduler (src/src/scheduler.c) as operators on the     *)
(* process table.  The timer interrupt saves the interrupted context and   *)
(* switches; the same switch starts the first process at boot.             *)
(***************************************************************************)
EXTENDS Process

ReadySlots(pl) == {i \in Slots : pl[i].state = READY}

\* Mutant: the context is saved in slot 0, whoever was RUNNING.
SaveToFirstSlot(pl, ctx) == [pl EXCEPT ![0].ctx = ctx]

\* scheduler_save_context_to_current_running_pcb(): nothing is saved when no
\* control block is RUNNING.
SaveContext(pl, ctx) ==
  LET run == process_get_current_running_pcb_pointer(pl)
  IN  IF run = NULL THEN pl ELSE [pl EXCEPT ![run].ctx = ctx]

\* Without a RUNNING block the switch starts from _process_list[0].
SwitchFrom(pl) ==
  LET run == process_get_current_running_pcb_pointer(pl)
  IN  IF run = NULL THEN 0 ELSE run

\* Mutant: the search ends at the last slot.
SwitchToWithoutWrap(pl, cur) ==
  LET after == {i \in ReadySlots(pl) : i > cur}
  IN  IF after # {} THEN Min(after) ELSE cur

\* The first READY slot after "cur" in cyclic order, and "cur" if there is none.
SwitchTo(pl, cur) ==
  LET after  == {i \in ReadySlots(pl) : i > cur}
      before == {i \in ReadySlots(pl) : i < cur}
  IN  CASE after # {}                  -> Min(after)
        [] after = {} /\ before # {}   -> Min(before)
        [] after = {} /\ before = {}   -> cur

\* Mutant: the process switched from stays RUNNING.
SwitchStatesKeepRunning(pl, cur, next) ==
  [i \in Slots |-> IF i = next THEN [pl[i] EXCEPT !.state = RUNNING] ELSE pl[i]]

\* The state changes of scheduler_switch_to_next_process().
SwitchStates(pl, cur, next) ==
  [i \in Slots |->
     IF i = next THEN [pl[i] EXCEPT !.state = RUNNING]
     ELSE IF i = cur THEN [pl[i] EXCEPT !.state = READY]
     ELSE pl[i]]
=============================================================================
