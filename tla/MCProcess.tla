----------------------------- MODULE MCProcess ------------------------------
(* Small instances of Process for TLC; every time slice is one tick.  The  *)
(* pages for task_structs are alike, so runs of safety properties may      *)
(* permute them.                                                           *)
EXTENDS Process, TLC

MCPriority == [t \in Threads |-> 0]
MCStatuses == {-1}
PageSymmetry == Permutations(Pages)
=============================================================================
