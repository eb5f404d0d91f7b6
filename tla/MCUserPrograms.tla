--------------------------- MODULE MCUserPrograms ---------------------------
(* The shipped programs for TLC. *)
EXTENDS UserPrograms

MCBufferSizes == {1048576}
=============================================================================
