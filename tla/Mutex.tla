-------------------------------- MODULE Mutex -------------------------------
(***************************************************************************)
(* What a struct lock of thread/sync.c promises its callers: a reentrant   *)
(* lock with at most one owner.  Only the task on the processor operates   *)
(* on a lock, and the owner gives it up after as many releases as          *)
(* acquisitions.  Each operation is one step.                              *)
(***************************************************************************)
EXTENDS Naturals

CONSTANTS Threads, Locks, NULL

VARIABLES cur,     \* the task on the processor
          owner,   \* the task each lock belongs to, or NULL
          depth    \* acquisitions of the owner not yet released

vars == <<cur, owner, depth>>

Init ==
  /\ cur \in Threads
  /\ owner = [l \in Locks |-> NULL]
  /\ depth = [l \in Locks |-> 0]

Acquire(l) ==
  /\ owner[l] = NULL
  /\ owner' = [owner EXCEPT ![l] = cur]
  /\ depth' = [depth EXCEPT ![l] = 1]

Reenter(l) ==
  /\ owner[l] = cur
  /\ depth' = [depth EXCEPT ![l] = @ + 1]
  /\ UNCHANGED owner

Leave(l) ==
  /\ owner[l] = cur /\ depth[l] > 1
  /\ depth' = [depth EXCEPT ![l] = @ - 1]
  /\ UNCHANGED owner

Release(l) ==
  /\ owner[l] = cur /\ depth[l] = 1
  /\ owner' = [owner EXCEPT ![l] = NULL]
  /\ depth' = [depth EXCEPT ![l] = 0]

Next ==
  /\ cur' \in Threads
  /\ \/ \E l \in Locks : Acquire(l) \/ Reenter(l) \/ Leave(l) \/ Release(l)
     \/ UNCHANGED <<owner, depth>>

Spec == Init /\ [][Next]_vars
=============================================================================
