---------------------------- MODULE MCInterrupts ----------------------------
(* The entry and the switch for TLC: three processes, calls of a system     *)
(* vector, an unused one, a hardware vector and an absent one, exceptions   *)
(* with and without an error code.                                          *)
EXTENDS Interrupts
=============================================================================
