------------------------------- MODULE MCSync -------------------------------
(* Small instances of Sync for TLC: two or three tasks besides idle.       *)
EXTENDS Sync

CONSTANTS main, initp, idle, p1, chan, pool

MCThreads == {main, initp, idle}
MCThreads4 == {main, initp, idle, p1}
MCPriority == [t \in MCThreads |-> 1]
MCPriority4 == [t \in MCThreads4 |-> IF t = idle THEN 0 ELSE 1]
=============================================================================
