------------------------------- MODULE MCPipe -------------------------------
(* Small instances of Pipe for TLC; every time slice is one tick.          *)
EXTENDS Pipe

MCPriority == [t \in Threads |-> 0]
=============================================================================
