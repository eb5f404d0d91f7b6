------------------------------ MODULE MCKernel ------------------------------
(* Kernel for TLC: any process may make any process system call. *)
EXTENDS Kernel

\* 1 MiB, as every program is created with, and one that needs 11 frames
MCBufferSizes == {1048576, 41943040}
=============================================================================
