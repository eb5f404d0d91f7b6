----------------------------- MODULE FAT32Store -----------------------------
(***************************************************************************)
(* The driver and its disk implement a file store.  The tree is the one on *)
(* the disk once the writes of the call in progress are made; it and the   *)
(* last answer are functions of the driver's state, and are variables here *)
(* so that each step computes them once.                                   *)
(***************************************************************************)
EXTENDS FAT32

VARIABLES store, answer

NodeRead(r) ==
  IF r.op = "read_directory"
  THEN IF r.got.data.kind = "dir" THEN Folder ELSE Damaged
  ELSE FileOf(r.got.data, r.got.filesize)

Answer(r) ==
  IF r.op \in {"read", "read_directory"} /\ r.ret = 0
  THEN [path |-> r.path, node |-> NodeRead(r)]
  ELSE [path |-> <<>>, node |-> Absent]

Observed == (\E d \in {FinalDisk'} : store' = Tree(d)) /\ answer' = Answer(result')

StoreInit == Init /\ store = Tree(FinalDisk) /\ answer = Answer(result)
StoreNext == Next /\ Observed
StoreSpec == StoreInit /\ [][StoreNext]_<<vars, store, answer>>

Abstract ==
  INSTANCE FileStore WITH Paths <- Paths, FileNodes <- FileNodes, store <- store, answer <- answer

(***************************************************************************)
(* What is read is what was written, through any history of creations and  *)
(* deletions that reuses and scatters clusters, and through the loss of    *)
(* memory with the power; what is deleted is gone, and no call changes     *)
(* anything at a path other than its own.                                  *)
(***************************************************************************)
StoreRefined == Abstract!Spec
=============================================================================
