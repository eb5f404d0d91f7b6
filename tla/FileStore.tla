------------------------------ MODULE FileStore ------------------------------
(***************************************************************************)
(* What a file system promises: a tree of folders and files in which a     *)
(* name is there once it is created and until it is removed, and reading a *)
(* file gives what was written to it.  Nothing of clusters, tables, chains *)
(* or of the memory that is lost with the power.                           *)
(***************************************************************************)
EXTENDS Integers, Sequences, SequencesExt

CONSTANTS Paths,       \* the paths in use, non-empty sequences of names
          FileNodes    \* the values of a file

VARIABLES store,       \* what is at each path
          answer       \* the last thing read: where, and what

Absent == [kind |-> "absent"]
Folder == [kind |-> "folder"]
Nodes == {Absent, Folder} \cup FileNodes
NoAnswer == [path |-> <<>>, node |-> Absent]

Children(path) == {p \in Paths : Len(p) = Len(path) + 1 /\ Front(p) = path}

HasParent(path) == IF Len(path) = 1 THEN TRUE ELSE store[Front(path)] = Folder

Init ==
  /\ store = [p \in Paths |-> Absent]
  /\ answer = NoAnswer

Create(path, node) ==
  /\ store[path] = Absent
  /\ HasParent(path)
  /\ store' = [store EXCEPT ![path] = node]
  /\ answer' = NoAnswer

Delete(path) ==
  /\ store[path] # Absent
  /\ \A p \in Children(path) : store[p] = Absent
  /\ store' = [store EXCEPT ![path] = Absent]
  /\ answer' = NoAnswer

Read(path) ==
  /\ store[path] # Absent
  /\ answer' = [path |-> path, node |-> store[path]]
  /\ UNCHANGED store

\* A request that is refused, or the power going off and on.
Forget == answer' = NoAnswer /\ UNCHANGED store

Next ==
  \/ \E path \in Paths, node \in {Folder} \cup FileNodes : Create(path, node)
  \/ \E path \in Paths : Delete(path) \/ Read(path)
  \/ Forget

Spec == Init /\ [][Next]_<<store, answer>>
=============================================================================
