--------------------------- MODULE SyncRefinement ---------------------------
(***************************************************************************)
(* Every lock of Sync implements module Mutex, for any number of tasks and *)
(* locks.                                                                  *)
(***************************************************************************)
EXTENDS SyncProofs

-----------------------------------------------------------------------------
(* Refinement.                                                             *)

(* What the step does to lock l as Mutex sees it.                          *)
SameLock(l) == LockOwner(l)' = LockOwner(l) /\ LockDepth(l)' = LockDepth(l)

(* A lock whose owners stay the same, and whose depth stays the same or    *)
(* goes between 0 and 1 while it is being taken or given back, is          *)
(* unchanged for module Mutex.                                             *)
LEMMA SameLockLemma ==
  ASSUME MutualExclusion, MutualExclusion', NEW l \in Locks,
         \A t \in Threads : Owns(t, l)' <=> Owns(t, l),
         \/ holder_repeat_nr'[l] = holder_repeat_nr[l]
         \/ {holder_repeat_nr[l], holder_repeat_nr'[l]} \subseteq {0, 1}
  PROVE  SameLock(l)
<1>1. CASE \A t \in Threads : ~Owns(t, l)
  BY <1>1 DEF SameLock, LockOwner, LockDepth
<1>2. CASE \E t \in Threads : Owns(t, l)
  <2>1. PICK t \in Threads : Owns(t, l) /\ Owns(t, l)'
    BY <1>2
  <2>2. LockOwner(l) = t /\ LockOwner(l)' = t
    BY <2>1 DEF MutualExclusion, LockOwner
  <2>3. LockDepth(l)' = LockDepth(l)
    BY <2>1 DEF LockDepth
  <2> QED
    BY <2>2, <2>3 DEF SameLock
<1> QED
  BY <1>1, <1>2

(* A step that changes no lock is a step of Mutex that only changes cur.   *)
LEMMA StutterLemma ==
  ASSUME sch' \in SchedState, \A l \in Locks : SameLock(l)
  PROVE  AbstractLock!Next
<1>1. sch'.cur \in Threads
  BY DEF SchedState
<1>2. /\ [l \in Locks |-> LockOwner(l)]' = [l \in Locks |-> LockOwner(l)]
      /\ [l \in Locks |-> LockDepth(l)]' = [l \in Locks |-> LockDepth(l)]
  BY DEF SameLock
<1> QED
  BY <1>1, <1>2 DEF AbstractLock!Next

(* A step that changes one lock is a step of Mutex on that lock.           *)
LEMMA OneLockLemma ==
  ASSUME sch' \in SchedState, NEW l \in Locks,
         \A k \in Locks \ {l} : SameLock(k),
         \/ /\ LockOwner(l) = NULL
            /\ LockOwner(l)' = sch.cur /\ LockDepth(l)' = 1
         \/ /\ LockOwner(l) = sch.cur /\ LockOwner(l)' = sch.cur
            /\ LockDepth(l)' = LockDepth(l) + 1
         \/ /\ LockOwner(l) = sch.cur /\ LockOwner(l)' = sch.cur /\ LockDepth(l) > 1
            /\ LockDepth(l)' = LockDepth(l) - 1
         \/ /\ LockOwner(l) = sch.cur /\ LockDepth(l) = 1
            /\ LockOwner(l)' = NULL /\ LockDepth(l)' = 0
  PROVE  AbstractLock!Next
<1>1. sch'.cur \in Threads
  BY DEF SchedState
<1> DEFINE ow == [k \in Locks |-> LockOwner(k)]
           de == [k \in Locks |-> LockDepth(k)]
<1>2. /\ ow' = [ow EXCEPT ![l] = LockOwner(l)'] /\ ow[l] = LockOwner(l)
      /\ de' = [de EXCEPT ![l] = LockDepth(l)'] /\ de[l] = LockDepth(l)
  BY DEF SameLock
<1>3. LockOwner(l)' = LockOwner(l) => ow' = ow
  BY <1>2
<1>4. \/ AbstractLock!Acquire(l) \/ AbstractLock!Reenter(l)
      \/ AbstractLock!Leave(l) \/ AbstractLock!Release(l)
  BY <1>2, <1>3 DEF AbstractLock!Acquire, AbstractLock!Reenter, AbstractLock!Leave,
     AbstractLock!Release
<1> QED
  BY <1>1, <1>4 DEF AbstractLock!Next

(* A step that leaves the locks and the tasks inside them alone is a       *)
(* stuttering step, or a change of the running task, of module Mutex.      *)
LEMMA UntouchedLemma ==
  ASSUME IInv, IInv', LocksUntouched
  PROVE  AbstractLock!Next
<1>1. \A t \in Threads, l \in Locks : Owns(t, l)' <=> Owns(t, l)
  BY DEF LocksUntouched, InLock, Owns, lockVars
<1>2. \A l \in Locks : SameLock(l)
  BY <1>1, SameLockLemma DEF IInv, LocksUntouched, lockVars
<1> QED
  BY <1>2, StutterLemma DEF IInv, TypeOK

(* sema_down takes the lock, or disk_done.                                 *)
LEMMA TakeRefines ==
  ASSUME IInv, IInv', NEW t \in Threads, sema_down_take(t)
  PROVE  AbstractLock!Next
<1>0. PICK s \in Semaphores : s = arg[t]
  BY DEF IInv, PcInv, sema_down_take
<1>1. value[s] = 1 /\ sch.cur = t /\ UNCHANGED lockVars /\ pc[t] \in {"down", "wait"}
  BY <1>0 DEF sema_down_take, IInv, TypeOK, Running
<1>2. /\ value' = [value EXCEPT ![s] = 0]
      /\ pc' = [pc EXCEPT ![t] = IF s = DiskDone THEN "run" ELSE "own"]
      /\ arg' = [arg EXCEPT ![t] = IF s = DiskDone THEN NULL ELSE s]
  BY <1>0, <1>1 DEF sema_down_take, Return, Call, Goto
<1>3. CASE s = DiskDone
  <2>1. LocksUntouched
    BY <1>1, <1>2, <1>3, LocksAssumption DEF LocksUntouched, InLock, IInv, TypeOK, Semaphores
  <2> QED
    BY <2>1, UntouchedLemma
<1>4. CASE s \in Locks
  <2>0. s # DiskDone
    BY <1>4, LocksAssumption
  <2>1. \A u \in Threads : ~Owns(u, s)
    BY <1>1, <1>4 DEF IInv, MutualExclusion
  <2>2. \A k \in Locks \ {s} : \A u \in Threads : Owns(u, k)' <=> Owns(u, k)
    BY <1>0, <1>1, <1>2, <1>4, <2>0 DEF Owns, IInv, TypeOK, lockVars
  <2>3. \A k \in Locks \ {s} : SameLock(k)
    BY <1>1, <2>2, SameLockLemma DEF IInv, lockVars
  <2>4. Owns(t, s)' /\ holder_repeat_nr'[s] = 0
    BY <1>1, <1>2, <1>4, <2>0 DEF Owns, IInv, LockInv, TypeOK, lockVars
  <2>5. LockOwner(s) = NULL
    BY <2>1 DEF LockOwner
  <2>6. LockOwner(s)' = t /\ LockDepth(s)' = 1
    BY <1>4, <2>4 DEF IInv, MutualExclusion, LockOwner, LockDepth
  <2> QED
    BY <1>1, <1>4, <2>3, <2>5, <2>6, OneLockLemma DEF IInv, TypeOK
<1> QED
  BY <1>3, <1>4 DEF Semaphores

(* Re-entry counts up.                                                     *)
LEMMA AcquireRefines ==
  ASSUME IInv, IInv', NEW t \in Threads, NEW l \in Locks, lock_acquire(t, l)
  PROVE  AbstractLock!Next
<1>1. CASE holder[l] # t
  <2>1. LocksUntouched
    BY <1>1 DEF lock_acquire, Call, Goto, LocksUntouched, InLock, IInv, TypeOK, At,
       Running, lockVars, semaVars
  <2> QED
    BY <2>1, UntouchedLemma
<1>2. CASE holder[l] = t
  <2>1. /\ holder_repeat_nr' = [holder_repeat_nr EXCEPT ![l] = @ + 1]
        /\ UNCHANGED <<pc, arg, holder>> /\ pc[t] = "run" /\ sch.cur = t
    BY <1>2 DEF lock_acquire, At, Running
  <2>2. \A u \in Threads, k \in Locks : Owns(u, k)' <=> Owns(u, k)
    BY <2>1 DEF Owns
  <2>3. \A k \in Locks \ {l} : SameLock(k)
    BY <2>1, <2>2, SameLockLemma DEF IInv, TypeOK
  <2>4. holder_repeat_nr[l] \in Nat \ {0} /\ holder_repeat_nr'[l] = holder_repeat_nr[l] + 1
    BY <1>2, <2>1, RepeatAssumption DEF IInv, LockInv, TypeOK
  <2>5. Owns(t, l) /\ Owns(t, l)'
    BY <1>2, <2>2 DEF Owns
  <2>6. LockOwner(l) = t /\ LockOwner(l)' = t
    BY <2>5 DEF IInv, MutualExclusion, LockOwner
  <2>7. LockDepth(l)' = LockDepth(l) + 1
    BY <2>4, <2>5 DEF LockDepth
  <2> QED
    BY <2>1, <2>3, <2>6, <2>7, OneLockLemma DEF IInv, TypeOK
<1> QED
  BY <1>1, <1>2

(* lock_release counts down, or only starts to give the lock up.           *)
LEMMA ReleaseRefines ==
  ASSUME IInv, IInv', NEW t \in Threads, NEW l \in Locks, lock_release(t, l)
  PROVE  AbstractLock!Next
<1>0. /\ holder[l] = t /\ pc[t] = "run" /\ sch.cur = t /\ Owns(t, l)
      /\ holder_repeat_nr[l] \in Nat \ {0}
  <2>1. holder[l] = t /\ pc[t] = "run" /\ sch.cur = t
    BY DEF lock_release, At, Running
  <2>2. LockInv /\ holder_repeat_nr[l] \in Nat
    BY RepeatAssumption DEF IInv, TypeOK
  <2>3. holder_repeat_nr[l] # 0
    BY <2>1, <2>2 DEF LockInv
  <2> QED
    BY <2>1, <2>2, <2>3 DEF Owns
<1>1. CASE holder_repeat_nr[l] > 1
  <2>1. /\ holder_repeat_nr' = [holder_repeat_nr EXCEPT ![l] = @ - 1]
        /\ UNCHANGED <<pc, arg, holder>>
    <3>1. ~(holder_repeat_nr[l] <= 1)
      BY <1>0, <1>1
    <3> QED
      BY <3>1 DEF lock_release
  <2>2. \A u \in Threads, k \in Locks : Owns(u, k)' <=> Owns(u, k)
    BY <2>1 DEF Owns
  <2>3. \A k \in Locks \ {l} : SameLock(k)
    BY <2>1, <2>2, SameLockLemma DEF IInv, TypeOK
  <2>4. holder_repeat_nr'[l] = holder_repeat_nr[l] - 1
    BY <2>1 DEF IInv, TypeOK
  <2>5. LockOwner(l) = t /\ LockOwner(l)' = t
    BY <1>0, <2>2 DEF IInv, MutualExclusion, LockOwner
  <2>6. LockDepth(l) > 1 /\ LockDepth(l)' = LockDepth(l) - 1
    BY <1>0, <1>1, <2>2, <2>4 DEF LockDepth
  <2> QED
    BY <1>0, <2>3, <2>5, <2>6, OneLockLemma DEF IInv, TypeOK
<1>2. CASE ~(holder_repeat_nr[l] > 1)
  <2>1. /\ holder' = [holder EXCEPT ![l] = NULL] /\ UNCHANGED holder_repeat_nr
        /\ pc' = [pc EXCEPT ![t] = "clear"] /\ arg' = [arg EXCEPT ![t] = l]
    <3>1. holder_repeat_nr[l] <= 1
      BY <1>0, <1>2
    <3> QED
      BY <1>2, <3>1 DEF lock_release, Call, Goto
  <2>2. \A u \in Threads : Owns(u, l) => u = t
    BY <1>0 DEF IInv, MutualExclusion
  <2>3. \A u \in Threads, k \in Locks : Owns(u, k)' <=> Owns(u, k)
    <3>1. /\ holder'[l] = NULL /\ pc'[t] = "clear" /\ arg'[t] = l
          /\ \A k \in Locks : k # l => holder'[k] = holder[k]
          /\ \A u \in Threads : u # t => pc'[u] = pc[u] /\ arg'[u] = arg[u]
      <4>1. /\ holder \in [Locks -> Threads \cup {NULL}] /\ pc \in [Threads -> Labels]
            /\ arg \in [Threads -> Semaphores \cup {NULL}]
        BY DEF IInv, TypeOK
      <4> QED
        BY <2>1, <4>1
    <3>2. ASSUME NEW k \in Locks PROVE Owns(t, k)' <=> Owns(t, k)
      <4>0. holder[l] = t /\ pc[t] = "run"
        BY <1>0
      <4>1. CASE k = l
        BY <3>1, <4>0, <4>1 DEF Owns
      <4>2. CASE k # l
        BY <3>1, <4>0, <4>2 DEF Owns
      <4> QED
        BY <4>1, <4>2
    <3>3. ASSUME NEW u \in Threads \ {t}, NEW k \in Locks PROVE Owns(u, k)' <=> Owns(u, k)
      <4>1. CASE k = l
        <5>1. ~Owns(u, l) /\ NULL # u
          BY <2>2, NullAssumption
        <5> QED
          BY <3>1, <4>1, <5>1 DEF Owns
      <4>2. CASE k # l
        BY <3>1, <4>2 DEF Owns
      <4> QED
        BY <4>1, <4>2
    <3> QED
      BY <3>2, <3>3
  <2>4. \A k \in Locks : SameLock(k)
    BY <2>1, <2>3, SameLockLemma DEF IInv
  <2> QED
    BY <2>4, StutterLemma DEF IInv, TypeOK
<1> QED
  BY <1>1, <1>2

(* The stores in the middle of lock_acquire and lock_release do not show.  *)
LEMMA StoreRefines ==
  ASSUME IInv, IInv', NEW t \in Threads,
         set_holder(t) \/ set_repeat(t) \/ clear_repeat(t)
  PROVE  AbstractLock!Next
<1>0. PICK l \in Locks : l = arg[t]
  BY DEF IInv, PcInv, set_holder, set_repeat, clear_repeat, At
<1>1. \A k \in Locks \ {l} : holder_repeat_nr'[k] = holder_repeat_nr[k]
  BY <1>0 DEF set_holder, set_repeat, clear_repeat, IInv, TypeOK
<1>2. {holder_repeat_nr[l], holder_repeat_nr'[l]} \subseteq {0, 1}
  BY <1>0 DEF set_holder, set_repeat, clear_repeat, IInv, TypeOK, LockInv, At
<1>3. \A u \in Threads, k \in Locks : Owns(u, k)' <=> Owns(u, k)
  <2>1. CASE set_holder(t)
    <3>1. holder[l] = NULL
      BY <1>0, <2>1 DEF set_holder, At, IInv, LockInv
    <3> QED
      BY <1>0, <2>1, <3>1, NullAssumption DEF set_holder, At, Goto, Owns, IInv, TypeOK
  <2>2. CASE set_repeat(t)
    BY <1>0, <2>2 DEF set_repeat, At, Return, Call, Goto, Owns, IInv, TypeOK
  <2>3. CASE clear_repeat(t)
    BY <1>0, <2>3 DEF clear_repeat, At, Goto, Owns, IInv, TypeOK
  <2> QED
    BY <2>1, <2>2, <2>3
<1>4. \A k \in Locks : SameLock(k)
  BY <1>1, <1>2, <1>3, SameLockLemma DEF IInv
<1> QED
  BY <1>4, StutterLemma DEF IInv, TypeOK

(* The sema_up of lock_release is where the lock is given up.              *)
LEMMA ReleaseUpRefines ==
  ASSUME IInv, IInv', NEW t \in Threads, release_up(t)
  PROVE  AbstractLock!Next
<1>0. PICK l \in Locks : l = arg[t]
  BY DEF IInv, PcInv, release_up, At
<1>1. /\ holder[l] = NULL /\ holder_repeat_nr[l] = 0 /\ Owns(t, l)
      /\ sch.cur = t /\ UNCHANGED lockVars
      /\ pc' = [pc EXCEPT ![t] = "run"] /\ arg' = [arg EXCEPT ![t] = NULL]
  BY <1>0 DEF IInv, LockInv, Owns, release_up, At, Running, Return, Call, Goto
<1>2. \A u \in Threads : Owns(u, l) => u = t
  BY <1>1 DEF IInv, MutualExclusion
<1>3. \A u \in Threads : ~Owns(u, l)'
  BY <1>1, <1>2, NullAssumption DEF Owns, IInv, TypeOK, lockVars
<1>4. \A k \in Locks \ {l} : \A u \in Threads : Owns(u, k)' <=> Owns(u, k)
  BY <1>0, <1>1 DEF Owns, IInv, TypeOK, lockVars
<1>5. \A k \in Locks \ {l} : SameLock(k)
  BY <1>1, <1>4, SameLockLemma DEF IInv, lockVars
<1>6. LockOwner(l) = t /\ LockDepth(l) = 1
  BY <1>1 DEF IInv, MutualExclusion, LockOwner, LockDepth
<1>7. LockOwner(l)' = NULL /\ LockDepth(l)' = 0
  BY <1>3 DEF LockOwner, LockDepth
<1> QED
  BY <1>1, <1>5, <1>6, <1>7, OneLockLemma DEF IInv, TypeOK

(* No other step has anything to do with a lock.                           *)
LEMMA OthersRefine ==
  ASSUME IInv, IInv',
         \/ \E t \in Threads : \/ sema_down_block(t) \/ cmd_out(t) \/ yield(t) \/ exit(t)
                               \/ intr_disable(t) \/ intr_enable(t)
                               \/ \E child \in Threads : spawn(t, child)
         \/ idle_block \/ idle_hlt \/ timer_interrupt \/ disk_interrupt
  PROVE  AbstractLock!Next
<1> USE DEF LocksUntouched, InLock, lockVars, semaVars, taskVars, Goto, Call, At
<1>1. ASSUME NEW t \in Threads,
             sema_down_block(t) \/ cmd_out(t) \/ yield(t) \/ exit(t)
             \/ intr_disable(t) \/ intr_enable(t)
      PROVE  LocksUntouched
  BY <1>1 DEF sema_down_block, cmd_out, yield, exit, intr_disable, intr_enable, IInv, TypeOK
<1>2. ASSUME NEW t \in Threads, NEW child \in Threads, spawn(t, child)
      PROVE  LocksUntouched
  BY <1>2 DEF spawn, IInv, TypeOK, PcInv
<1>3. ASSUME idle_block \/ idle_hlt \/ timer_interrupt
      PROVE  LocksUntouched
  BY <1>3, IdleAssumption DEF idle_block, idle_hlt, timer_interrupt, wake_hlt, IInv,
     TypeOK, PcInv
<1>4. ASSUME disk_interrupt PROVE LocksUntouched
  <2>1. /\ UNCHANGED <<lockVars, arg>>
        /\ \A l \in Locks : value'[l] = value[l]
    BY <1>4, LocksAssumption DEF disk_interrupt, sema_up, IInv, TypeOK, Semaphores
  <2>2. \A t \in Threads : pc'[t] = pc[t] \/ (~InLock(t) /\ ~InLock(t)')
    BY <1>4, IdleAssumption DEF disk_interrupt, wake_hlt, IInv, TypeOK
  <2> QED
    BY <2>1, <2>2
<1> QED
  BY <1>1, <1>2, <1>3, <1>4, UntouchedLemma

(* lock_acquire and lock_release, with their preemptible stores, implement *)
(* the atomic reentrant lock of module Mutex.                              *)
THEOREM SyncImplementsMutex == Spec => ImplementsMutex
<1>1. Init => AbstractLock!Init
  <2> SUFFICES ASSUME Init PROVE AbstractLock!Init
    OBVIOUS
  <2>1. \A t \in Threads, l \in Locks : ~Owns(t, l)
    BY NullAssumption DEF Init, Owns
  <2>2. \A l \in Locks : LockOwner(l) = NULL /\ LockDepth(l) = 0
    BY <2>1 DEF LockOwner, LockDepth
  <2>3. sch.cur \in Threads
    BY TasksAssumption DEF Init
  <2> QED
    BY <2>2, <2>3 DEF AbstractLock!Init
<1>2. IInv /\ IInv' /\ [Next]_vars => [AbstractLock!Next]_(AbstractLock!vars)
  <2>1. ASSUME IInv, IInv', Next PROVE AbstractLock!Next
    <3>1. ASSUME NEW t \in Threads, Step(t) PROVE AbstractLock!Next
      BY <2>1, <3>1, OthersRefine, TakeRefines, StoreRefines, ReleaseUpRefines DEF Step
    <3>2. ASSUME NEW t \in Threads, Client(t) PROVE AbstractLock!Next
      BY <2>1, <3>2, OthersRefine, AcquireRefines, ReleaseRefines DEF Client
    <3> QED
      BY <2>1, <3>1, <3>2, OthersRefine DEF Next
  <2>2. ASSUME UNCHANGED vars PROVE UNCHANGED AbstractLock!vars
    BY <2>2 DEF vars, AbstractLock!vars, LockOwner, LockDepth, Owns
  <2> QED
    BY <2>1, <2>2
<1> QED
  BY <1>1, <1>2, Invariance, PTL DEF Spec, ImplementsMutex, AbstractLock!Spec
=============================================================================
