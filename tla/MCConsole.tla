----------------------------- MODULE MCConsole -----------------------------
(* The console for TLC: a screen of three rows of three, a prompt of two    *)
(* parts, commands that print more than a row or a new line.                *)
EXTENDS Console

MCPrompt == <<<<Plain("/")>>, <<Plain("$")>>>>
MCOutputs == {[k \in 1 .. 4 |-> Plain("o")], <<Newline>>}
=============================================================================
