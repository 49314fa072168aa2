----------------------------- MODULE MCIntrDemo -----------------------------
(* Instances of IntrDemo: two processes, and one that gets the pid of the first
   when that has exited. *)
EXTENDS IntrDemo

CONSTANTS first, second, reuse

MCProcess == {first, second, reuse}
MCPidOf == [p \in MCProcess |-> IF p = second THEN 2 ELSE 1]

\* A process registers itself, or gives its registration back.
MCOwnPid == [p \in MCProcess |-> {MCPidOf[p], 0}]
\* Any pid, also one that no process has.
MCAnyPid == [p \in MCProcess |-> 0 .. 3]
=============================================================================
