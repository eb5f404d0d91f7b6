------------------------------- MODULE MCShell -------------------------------
(* The shell for TLC: five clusters after formatting, two of them taken by an *)
(* inserted file; folders with room for three entries, two levels of them;    *)
(* one of the two names is the beginning of the other.                        *)
EXTENDS Shell

MCPaths == UNION {[1 .. n -> Names] : n \in 1 .. MaxDepth + 1}
MCInserted == <<<<"a", 40, 1>>>>
MCInsertedLonger == <<<<"ab", 40, 1>>>>

MCLonger == [name \in Names \cup {Root} |-> IF name = "a" THEN {"ab"} ELSE {}]
=============================================================================
