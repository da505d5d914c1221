----------------------------- MODULE SyncProofs -----------------------------
(***************************************************************************)
(* What Sync guarantees for any number of tasks and locks, any priorities  *)
(* and any nesting bound: the inductive invariant holds initially, the     *)
(* locks, the semaphores, the disk and the scheduler keep it, and the      *)
(* properties follow from it.                                              *)
(***************************************************************************)
EXTENDS Sync, ThreadProofs

-----------------------------------------------------------------------------
(* The inductive invariant.                                                *)

(* Where a task can be, and on which semaphore.                            *)
PcInv ==
  \A t \in Threads :
    /\ pc[t] \in {"top", "sti", "hlt"} <=> t = Idle
    /\ sch.status[t] = "DIED" => pc[t] = "run"
    /\ pc[t] \in {"down", "wait"} => arg[t] \in Semaphores
    /\ pc[t] \in {"own", "count", "clear", "up"} => arg[t] \in Locks

(* A BLOCKED task other than idle is in one waiters list.                  *)
WaitersInv ==
  \A s \in Semaphores :
    /\ NoDup(waiters[s])
    /\ \A t \in Threads : elem_find(waiters[s], t) <=>
         t # Idle /\ sch.status[t] = "BLOCKED" /\ pc[t] = "wait" /\ arg[t] = s

(* The fields of a lock between the stores of lock_acquire and             *)
(* lock_release.                                                           *)
LockInv ==
  /\ \A t \in Threads :
       /\ pc[t] \in {"own", "clear", "up"} => holder[arg[t]] = NULL
       /\ pc[t] = "count" => holder[arg[t]] = t
       /\ pc[t] \in {"own", "count", "up"} => holder_repeat_nr[arg[t]] = 0
       /\ pc[t] = "clear" => holder_repeat_nr[arg[t]] = 1
  /\ \A l \in Locks :
       /\ value[l] # 0 => holder_repeat_nr[l] = 0
       /\ \A t \in Threads :
            holder[l] = t => holder_repeat_nr[l] # 0 \/ (pc[t] = "count" /\ arg[t] = l)

(* A disk command is pending or completed only while the holder of the     *)
(* channel lock is on its way to take disk_done.                           *)
AtDisk(t) == pc[t] \in {"down", "wait"} /\ arg[t] = DiskDone

DiskInv ==
  /\ \A t \in Threads : AtDisk(t) => holder[ChanLock] = t
  /\ ~(expecting_intr /\ value[DiskDone] # 0)
  /\ expecting_intr \/ value[DiskDone] # 0 => \E t \in Threads : AtDisk(t)

IInv ==
  /\ TypeOK /\ NoPanic /\ Consistent(sch)
  /\ PcInv /\ WaitersInv /\ LockInv /\ MutualExclusion /\ DiskInv /\ NoLostWakeup

-----------------------------------------------------------------------------
(* Frame lemmas: what an action that leaves a part of the state alone      *)
(* preserves.                                                              *)

InLock(t) == pc[t] \in {"own", "count", "clear", "up"}

(* No task moves in or out of the middle of lock_acquire and lock_release, *)
(* and the locks are as they were.                                         *)
LocksUntouched ==
  /\ UNCHANGED lockVars
  /\ \A l \in Locks : value'[l] = value[l]
  /\ \A t \in Threads : \/ pc'[t] = pc[t] /\ arg'[t] = arg[t]
                        \/ ~InLock(t) /\ ~InLock(t)'

(* A step that leaves the locks and the tasks inside them alone keeps the  *)
(* part of the invariant about locks.                                      *)
LEMMA LocksFrame ==
  ASSUME IInv, LocksUntouched
  PROVE  LockInv' /\ MutualExclusion'
<1> USE DEF LocksUntouched, lockVars, InLock
<1>1. LockInv'
  BY DEF IInv, LockInv, PcInv
<1>2. \A t \in Threads, l \in Locks : Owns(t, l)' <=> Owns(t, l)
  BY DEF Owns
<1>3. MutualExclusion'
  BY <1>2 DEF IInv, MutualExclusion
<1> QED
  BY <1>1, <1>3

(* The disk driver is as it was.                                           *)
DiskUntouched ==
  /\ UNCHANGED expecting_intr
  /\ value'[DiskDone] = value[DiskDone]
  /\ \A t \in Threads : AtDisk(t)' <=> AtDisk(t)
  /\ \A t \in Threads : AtDisk(t) => holder'[ChanLock] = holder[ChanLock]

(* The disk part of IInv is kept by a step that leaves the disk and its    *)
(* waiters alone.                                                          *)
LEMMA DiskFrame ==
  ASSUME IInv, DiskUntouched
  PROVE  DiskInv'
BY DEF IInv, DiskInv, DiskUntouched

(* Nobody joins or leaves a waiters list, and no semaphore is given back.  *)
WaitersUntouched ==
  /\ UNCHANGED waiters
  /\ \A s \in Semaphores : value[s] = 0 => value'[s] = 0
  /\ \A t \in Threads \ {Idle} :
       \/ /\ pc'[t] = pc[t] /\ arg'[t] = arg[t]
          /\ \/ sch'.status[t] = sch.status[t]
             \/ sch.status[t] \in Awake /\ sch'.status[t] \in Awake
       \/ pc[t] # "wait" /\ pc'[t] # "wait"

(* Such a step keeps the part of the invariant about waiters.              *)
LEMMA WaitersFrame ==
  ASSUME IInv, WaitersUntouched
  PROVE  WaitersInv' /\ NoLostWakeup'
<1> USE DEF WaitersUntouched, Awake
<1>1. WaitersInv'
  BY DEF IInv, WaitersInv
<1>2. pc[Idle] # "wait"
  BY IdleAssumption DEF IInv, PcInv
<1>3. NoLostWakeup'
  BY <1>2 DEF IInv, NoLostWakeup
<1> QED
  BY <1>1, <1>3

-----------------------------------------------------------------------------
(* The initial state.                                                      *)

(* The state after thread_init satisfies the invariant.                    *)
LEMMA InitLemma == Init => IInv
<1> SUFFICES ASSUME Init PROVE IInv
  OBVIOUS
<1> USE IdleAssumption, PriorityAssumption, TasksAssumption, LocksAssumption,
        NullAssumption, RepeatAssumption
<1>1. TypeOK
  <2>1. <<InitProc, Idle>> \in Seq(Threads)
    OBVIOUS
  <2>2. sch \in SchedState
    BY <2>1 DEF Init, SchedState, TaskStatus
  <2>3. value \in [Semaphores -> {0, 1}] /\ waiters \in [Semaphores -> Seq(Threads)]
    BY DEF Init
  <2>4. /\ holder \in [Locks -> Threads \cup {NULL}]
        /\ holder_repeat_nr \in [Locks -> 0..MaxRepeat]
    BY DEF Init
  <2>6. expecting_intr \in BOOLEAN
    BY DEF Init
  <2>5. /\ intr \in [Threads -> BOOLEAN] /\ old \in [Threads -> BOOLEAN]
        /\ pc \in [Threads -> Labels] /\ arg \in [Threads -> Semaphores \cup {NULL}]
    BY DEF Init, Labels
  <2> QED
    BY <2>2, <2>3, <2>4, <2>5, <2>6 DEF TypeOK
<1>2. NoPanic
  BY DEF Init, NoPanic
<1>3. Consistent(sch)
  <2>1. sch.ready = <<InitProc, Idle>> /\ Len(sch.ready) = 2
        /\ sch.ready[1] = InitProc /\ sch.ready[2] = Idle
    BY DEF Init
  <2>2. NoDup(sch.ready)
    BY <2>1 DEF NoDup
  <2>3. \A t : elem_find(sch.ready, t) <=> t \in {InitProc, Idle}
    BY <2>1 DEF elem_find
  <2>4. ReadyListInv(sch)
    BY <2>2, <2>3 DEF ReadyListInv, Init
  <2>5. CpuInv(sch) /\ IdleInv(sch)
    BY DEF CpuInv, IdleInv, Init
  <2> QED
    BY <2>4, <2>5 DEF Consistent
<1>4. PcInv
  BY DEF Init, PcInv
<1>5. WaitersInv
  BY EmptyLemma DEF Init, WaitersInv
<1>6. LockInv
  BY DEF Init, LockInv
<1>7. MutualExclusion
  BY DEF Init, MutualExclusion, Owns, Semaphores
<1>8. DiskInv
  BY DEF Init, DiskInv, AtDisk, Semaphores
<1>9. NoLostWakeup
  BY DEF Init, NoLostWakeup
<1> QED
  BY <1>1, <1>2, <1>3, <1>4, <1>5, <1>6, <1>7, <1>8, <1>9 DEF IInv

-----------------------------------------------------------------------------
(* The steps of lock_acquire and lock_release, up to sema_up: the          *)
(* scheduler and the semaphores are as they were.                          *)

(* lock_acquire up to its sema_down, or its re-entry, keeps the invariant. *)
LEMMA LockAcquireLemma ==
  ASSUME IInv, NEW t \in Threads, NEW l \in Locks, lock_acquire(t, l)
  PROVE  IInv'
<1> USE DEF lock_acquire, At, Running, semaVars
<1>1. CASE holder[l] # t /\ Call(t, l, "down") /\ UNCHANGED holder_repeat_nr
  <2> USE <1>1 DEF Call, Goto
  <2>1. TypeOK'
    BY DEF IInv, TypeOK, Labels, Semaphores
  <2>2. NoPanic' /\ Consistent(sch)'
    BY DEF IInv, NoPanic
  <2>3. PcInv'
    BY DEF IInv, PcInv, TypeOK, Semaphores, Consistent, CpuInv
  <2>4. WaitersUntouched
    BY DEF WaitersUntouched, IInv, TypeOK
  <2>5. LocksUntouched
    BY DEF LocksUntouched, InLock, lockVars, IInv, TypeOK
  <2>6. DiskUntouched
    BY LocksAssumption DEF DiskUntouched, AtDisk, IInv, TypeOK
  <2> QED
    BY <2>1, <2>2, <2>3, <2>4, <2>5, <2>6, LocksFrame, DiskFrame, WaitersFrame DEF IInv
<1>2. CASE /\ holder[l] = t /\ holder_repeat_nr[l] < MaxRepeat
           /\ holder_repeat_nr' = [holder_repeat_nr EXCEPT ![l] = @ + 1]
           /\ UNCHANGED <<pc, arg>>
  <2>1. TypeOK'
    BY <1>2, RepeatAssumption DEF IInv, TypeOK
  <2>2. NoPanic' /\ Consistent(sch)' /\ PcInv'
    BY <1>2 DEF IInv, NoPanic, PcInv
  <2>4. WaitersUntouched
    BY <1>2 DEF WaitersUntouched
  <2>5. MutualExclusion'
    BY <1>2 DEF IInv, MutualExclusion, Owns
  <2>6. DiskUntouched
    BY <1>2 DEF DiskUntouched, AtDisk
  <2>7. LockInv'
    <3>1. Owns(t, l) /\ value[l] = 0 /\ \A u \in Threads : Owns(u, l) => u = t
      BY <1>2 DEF IInv, MutualExclusion, Owns
    <3>2. \A u \in Threads : InLock(u) => arg[u] # l
      BY <1>2, <3>1 DEF IInv, LockInv, Owns, InLock
    <3> QED
      BY <1>2, <3>1, <3>2 DEF IInv, LockInv, InLock, TypeOK, PcInv
  <2> QED
    BY <2>1, <2>2, <2>4, <2>5, <2>6, <2>7, DiskFrame, WaitersFrame DEF IInv
<1> QED
  BY <1>1, <1>2

(* The store to holder in lock_acquire keeps the invariant.                *)
LEMMA SetHolderLemma ==
  ASSUME IInv, NEW t \in Threads, set_holder(t)
  PROVE  IInv'
<1> USE DEF set_holder, At, Running, semaVars, Goto
<1>0. PICK l \in Locks : l = arg[t]
  BY DEF IInv, PcInv
<1>1. TypeOK'
  BY DEF IInv, TypeOK, Labels
<1>2. NoPanic' /\ Consistent(sch)'
  BY DEF IInv, NoPanic
<1>3. PcInv'
  BY DEF IInv, PcInv, TypeOK
<1>4. WaitersUntouched
  BY DEF WaitersUntouched, IInv, TypeOK
<1>5. /\ holder[l] = NULL /\ Owns(t, l) /\ value[l] = 0 /\ holder_repeat_nr[l] = 0
      /\ \A u \in Threads : Owns(u, l) => u = t
  BY <1>0 DEF IInv, LockInv, MutualExclusion, Owns
<1>6. \A u \in Threads : u # t /\ InLock(u) => arg[u] # l
  BY <1>5 DEF IInv, LockInv, Owns, InLock
<1>7. LockInv'
  BY <1>0, <1>5, <1>6, NullAssumption DEF IInv, LockInv, InLock, TypeOK, PcInv
<1>8. \A u \in Threads, k \in Locks : Owns(u, k)' <=> Owns(u, k)
  BY <1>0, <1>5, <1>6, NullAssumption DEF Owns, IInv, TypeOK, InLock
<1>9. MutualExclusion'
  BY <1>8 DEF IInv, MutualExclusion
<1>10. DiskUntouched
  BY <1>0, <1>5, NullAssumption DEF DiskUntouched, AtDisk, IInv, TypeOK, DiskInv
<1> QED
  BY <1>1, <1>2, <1>3, <1>4, <1>7, <1>9, <1>10, DiskFrame, WaitersFrame DEF IInv

(* The store to holder_repeat_nr in lock_acquire keeps the invariant.      *)
LEMMA SetRepeatLemma ==
  ASSUME IInv, NEW t \in Threads, set_repeat(t)
  PROVE  IInv'
<1> USE DEF set_repeat, At, Running, semaVars, Call, Goto, Return
<1>0. PICK l \in Locks : l = arg[t]
  BY DEF IInv, PcInv
<1>1. holder[l] = t /\ holder_repeat_nr[l] = 0 /\ Owns(t, l) /\ value[l] = 0
      /\ \A u \in Threads : Owns(u, l) => u = t
  BY <1>0 DEF IInv, LockInv, MutualExclusion, Owns
<1>2. sch' = sch
  BY <1>0, <1>1, AssertLemma DEF IInv, TypeOK
<1>3. TypeOK'
  BY <1>0, <1>2, RepeatAssumption DEF IInv, TypeOK, Labels
<1>4. NoPanic' /\ Consistent(sch)'
  BY <1>2 DEF IInv, NoPanic
<1>5. PcInv'
  BY <1>2 DEF IInv, PcInv, TypeOK
<1>6. WaitersUntouched
  BY <1>2 DEF WaitersUntouched, IInv, TypeOK
<1>7. \A u \in Threads : u # t /\ InLock(u) => arg[u] # l
  BY <1>1 DEF IInv, LockInv, Owns, InLock
<1>8. LockInv'
  <2>1. \A u \in Threads :
          /\ pc'[u] \in {"own", "clear", "up"} => holder'[arg'[u]] = NULL
          /\ pc'[u] = "count" => holder'[arg'[u]] = u
          /\ pc'[u] \in {"own", "count", "up"} => holder_repeat_nr'[arg'[u]] = 0
          /\ pc'[u] = "clear" => holder_repeat_nr'[arg'[u]] = 1
    BY <1>0, <1>1, <1>7 DEF IInv, LockInv, InLock, TypeOK, PcInv
  <2>2. \A k \in Locks : value'[k] # 0 => holder_repeat_nr'[k] = 0
    BY <1>0, <1>1 DEF IInv, LockInv, TypeOK
  <2>3. \A k \in Locks, u \in Threads :
          holder'[k] = u => holder_repeat_nr'[k] # 0 \/ (pc'[u] = "count" /\ arg'[u] = k)
    BY <1>0, <1>1 DEF IInv, LockInv, TypeOK
  <2> QED
    BY <2>1, <2>2, <2>3 DEF LockInv
<1>9. \A u \in Threads, k \in Locks : Owns(u, k)' <=> Owns(u, k)
  BY <1>0, <1>1 DEF Owns, IInv, TypeOK
<1>10. MutualExclusion'
  BY <1>9 DEF IInv, MutualExclusion
<1>11. DiskUntouched
  BY <1>0 DEF DiskUntouched, AtDisk, IInv, TypeOK
<1> QED
  BY <1>3, <1>4, <1>5, <1>6, <1>8, <1>10, <1>11, DiskFrame, WaitersFrame DEF IInv

(* The start of lock_release, nested or not, keeps the invariant.          *)
LEMMA LockReleaseLemma ==
  ASSUME IInv, NEW t \in Threads, NEW l \in Locks, lock_release(t, l)
  PROVE  IInv'
<1> USE DEF lock_release, At, Running, semaVars
<1>1. /\ Owns(t, l) /\ value[l] = 0 /\ \A u \in Threads : Owns(u, l) => u = t
      /\ holder_repeat_nr[l] # 0
  BY DEF IInv, MutualExclusion, Owns, LockInv
<1>2. \A u \in Threads : InLock(u) => arg[u] # l
  BY <1>1 DEF IInv, LockInv, Owns, InLock
<1>3. CASE /\ holder_repeat_nr[l] > 1
           /\ holder_repeat_nr' = [holder_repeat_nr EXCEPT ![l] = @ - 1]
           /\ UNCHANGED <<sch, holder, pc, arg>>
  <2>1. TypeOK'
    BY <1>3, RepeatAssumption DEF IInv, TypeOK
  <2>2. NoPanic' /\ Consistent(sch)' /\ PcInv'
    BY <1>3 DEF IInv, NoPanic, PcInv
  <2>3. WaitersUntouched
    BY <1>3 DEF WaitersUntouched
  <2>4. MutualExclusion'
    <3>1. \A u \in Threads, k \in Locks : Owns(u, k)' <=> Owns(u, k)
      BY <1>3 DEF Owns
    <3>2. MutualExclusion /\ value' = value
      BY DEF IInv
    <3> HIDE DEF lock_release, At, Running, semaVars
    <3> QED
      BY <3>1, <3>2 DEF MutualExclusion
  <2>5. DiskUntouched
    BY <1>3 DEF DiskUntouched, AtDisk
  <2>6. LockInv'
    <3>0. /\ LockInv /\ PcInv /\ value' = value /\ holder_repeat_nr \in [Locks -> 0..MaxRepeat]
      BY DEF IInv, TypeOK
    <3> HIDE DEF lock_release, At, Running, semaVars
    <3>1. /\ holder_repeat_nr'[l] # 0 /\ UNCHANGED <<holder, pc, arg>>
          /\ \A k \in Locks : k # l => holder_repeat_nr'[k] = holder_repeat_nr[k]
      BY <1>3, <3>0, RepeatAssumption
    <3>2. \A u \in Threads : InLock(u) => holder_repeat_nr'[arg[u]] = holder_repeat_nr[arg[u]]
      BY <1>2, <3>0, <3>1 DEF PcInv, InLock
    <3>3. \A u \in Threads :
            /\ pc'[u] \in {"own", "clear", "up"} => holder'[arg'[u]] = NULL
            /\ pc'[u] = "count" => holder'[arg'[u]] = u
            /\ pc'[u] \in {"own", "count", "up"} => holder_repeat_nr'[arg'[u]] = 0
            /\ pc'[u] = "clear" => holder_repeat_nr'[arg'[u]] = 1
      BY <3>0, <3>1, <3>2 DEF LockInv, InLock
    <3>4. \A k \in Locks : value'[k] # 0 => holder_repeat_nr'[k] = 0
      BY <1>1, <3>0, <3>1 DEF LockInv
    <3>5. \A k \in Locks, u \in Threads :
            holder'[k] = u => holder_repeat_nr'[k] # 0 \/ (pc'[u] = "count" /\ arg'[u] = k)
      BY <3>0, <3>1 DEF LockInv
    <3> QED
      BY <3>3, <3>4, <3>5 DEF LockInv
  <2> QED
    BY <2>1, <2>2, <2>3, <2>4, <2>5, <2>6, DiskFrame, WaitersFrame DEF IInv
<1>4. CASE /\ holder_repeat_nr[l] <= 1
           /\ sch' = ASSERT(sch, holder_repeat_nr[l] = 1)
           /\ holder' = [holder EXCEPT ![l] = NULL]
           /\ Call(t, l, "clear")
           /\ UNCHANGED holder_repeat_nr
  <2> USE DEF Call, Goto
  <2>0. holder_repeat_nr[l] = 1
    BY <1>1, <1>4, RepeatAssumption DEF IInv, TypeOK
  <2>1. sch' = sch
    BY <1>4, <2>0, AssertLemma DEF IInv, TypeOK
  <2>2. TypeOK'
    BY <1>4, <2>1 DEF IInv, TypeOK, Labels, Semaphores
  <2>3. NoPanic' /\ Consistent(sch)'
    BY <2>1 DEF IInv, NoPanic
  <2>4. PcInv'
    BY <1>4, <2>1 DEF IInv, PcInv, TypeOK, Consistent, CpuInv
  <2>5. WaitersUntouched
    BY <1>4, <2>1 DEF WaitersUntouched, IInv, TypeOK
  <2>6. LockInv'
    <3>0. /\ LockInv /\ value' = value /\ holder_repeat_nr' = holder_repeat_nr
          /\ holder_repeat_nr[l] = 1
          /\ holder'[l] = NULL /\ pc'[t] = "clear" /\ arg'[t] = l
          /\ \A k \in Locks : k # l => holder'[k] = holder[k]
          /\ \A u \in Threads : u # t => pc'[u] = pc[u] /\ arg'[u] = arg[u]
      BY <1>1, <1>4, <2>0 DEF IInv, TypeOK
    <3>1. pc[t] = "run" /\ \A u \in Threads : InLock(u) => arg[u] \in Locks \ {l}
      BY <1>2 DEF IInv, PcInv, InLock
    <3> HIDE DEF lock_release, At, Running, semaVars
    <3>2. \A u \in Threads :
            /\ pc'[u] \in {"own", "clear", "up"} => holder'[arg'[u]] = NULL
            /\ pc'[u] = "count" => holder'[arg'[u]] = u
            /\ pc'[u] \in {"own", "count", "up"} => holder_repeat_nr'[arg'[u]] = 0
            /\ pc'[u] = "clear" => holder_repeat_nr'[arg'[u]] = 1
      BY <3>0, <3>1 DEF LockInv, InLock
    <3>3. \A k \in Locks : value'[k] # 0 => holder_repeat_nr'[k] = 0
      BY <3>0 DEF LockInv
    <3>4. ASSUME NEW k \in Locks, NEW u \in Threads, holder'[k] = u
          PROVE  holder_repeat_nr'[k] # 0 \/ (pc'[u] = "count" /\ arg'[u] = k)
      <4>1. CASE k = l
        BY <3>0, <4>1
      <4>2. CASE k # l
        <5>1. holder_repeat_nr[k] # 0 \/ (pc[u] = "count" /\ arg[u] = k)
          BY <3>0, <3>4, <4>2 DEF LockInv
        <5> QED
          BY <3>0, <3>1, <5>1
      <4> QED
        BY <4>1, <4>2
    <3> QED
      BY <3>2, <3>3, <3>4 DEF LockInv
  <2>7. \A u \in Threads, k \in Locks : Owns(u, k)' <=> Owns(u, k)
    <3>1. \A u \in Threads : u # t => holder[l] # u
      OBVIOUS
    <3> QED
      BY <1>2, <1>4, <3>1, NullAssumption DEF Owns, IInv, TypeOK, InLock
  <2>8. MutualExclusion'
    BY <2>7 DEF IInv, MutualExclusion
  <2>9. DiskUntouched
    BY <1>4, LocksAssumption DEF DiskUntouched, AtDisk, IInv, TypeOK, DiskInv
  <2> QED
    BY <2>2, <2>3, <2>4, <2>5, <2>6, <2>8, <2>9, DiskFrame, WaitersFrame DEF IInv
<1> QED
  BY <1>3, <1>4

(* The store to holder_repeat_nr in lock_release keeps the invariant.      *)
LEMMA ClearRepeatLemma ==
  ASSUME IInv, NEW t \in Threads, clear_repeat(t)
  PROVE  IInv'
<1> USE DEF clear_repeat, At, Running, semaVars, Goto
<1>0. PICK l \in Locks : l = arg[t]
  BY DEF IInv, PcInv
<1>1. /\ holder[l] = NULL /\ Owns(t, l) /\ value[l] = 0
      /\ \A u \in Threads : Owns(u, l) => u = t
  <2>1. LockInv /\ MutualExclusion /\ pc[t] = "clear"
    BY DEF IInv
  <2> HIDE DEF clear_repeat, At, Running, semaVars, Goto
  <2>2. holder[l] = NULL
    BY <1>0, <2>1 DEF LockInv
  <2>3. Owns(t, l)
    BY <1>0, <2>1 DEF Owns
  <2> QED
    BY <2>1, <2>2, <2>3 DEF MutualExclusion
<1>2. \A u \in Threads : u # t /\ InLock(u) => arg[u] # l
  <2>1. LockInv
    BY DEF IInv
  <2> HIDE DEF clear_repeat, At, Running, semaVars, Goto
  <2>2. ASSUME NEW u \in Threads, u # t, InLock(u), arg[u] = l PROVE FALSE
    <3>1. pc[u] # "count"
      BY <1>1, <2>1, <2>2, NullAssumption DEF LockInv
    <3> QED
      BY <1>1, <2>2, <3>1 DEF Owns, InLock
  <2> QED
    BY <2>2
<1>3. TypeOK'
  BY <1>0, RepeatAssumption DEF IInv, TypeOK, Labels
<1>4. NoPanic' /\ Consistent(sch)'
  BY DEF IInv, NoPanic
<1>5. PcInv'
  BY DEF IInv, PcInv, TypeOK
<1>6. WaitersUntouched
  BY DEF WaitersUntouched, IInv, TypeOK
<1>7. LockInv'
  <2>1. /\ LockInv /\ value' = value /\ holder' = holder /\ arg' = arg
        /\ pc[t] = "clear" /\ pc'[t] = "up" /\ holder_repeat_nr'[l] = 0
        /\ \A k \in Locks : k # l => holder_repeat_nr'[k] = holder_repeat_nr[k]
        /\ \A u \in Threads : u # t => pc'[u] = pc[u]
    BY <1>0 DEF IInv, TypeOK
  <2>2. \A u \in Threads : InLock(u) => arg[u] \in Locks
    BY DEF IInv, PcInv, InLock
  <2> HIDE DEF clear_repeat, At, Running, semaVars, Goto
  <2>3. ASSUME NEW u \in Threads
        PROVE  /\ pc'[u] \in {"own", "clear", "up"} => holder'[arg'[u]] = NULL
               /\ pc'[u] = "count" => holder'[arg'[u]] = u
               /\ pc'[u] \in {"own", "count", "up"} => holder_repeat_nr'[arg'[u]] = 0
               /\ pc'[u] = "clear" => holder_repeat_nr'[arg'[u]] = 1
    <3>1. CASE u = t
      BY <1>0, <1>1, <2>1, <3>1
    <3>2. CASE u # t
      <4>1. InLock(u) => holder_repeat_nr'[arg[u]] = holder_repeat_nr[arg[u]]
        BY <1>2, <2>1, <2>2, <3>2
      <4> QED
        BY <2>1, <3>2, <4>1 DEF LockInv, InLock
    <3> QED
      BY <3>1, <3>2
  <2>4. \A k \in Locks : value'[k] # 0 => holder_repeat_nr'[k] = 0
    BY <2>1 DEF LockInv
  <2>5. ASSUME NEW k \in Locks, NEW u \in Threads, holder'[k] = u
        PROVE  holder_repeat_nr'[k] # 0 \/ (pc'[u] = "count" /\ arg'[u] = k)
    <3>1. k # l
      BY <1>1, <2>1, <2>5, NullAssumption
    <3>2. holder_repeat_nr[k] # 0 \/ (pc[u] = "count" /\ arg[u] = k)
      BY <2>1, <2>5 DEF LockInv
    <3>3. pc[u] = "count" => u # t
      BY <2>1
    <3> QED
      BY <2>1, <3>1, <3>2, <3>3
  <2> QED
    BY <2>3, <2>4, <2>5 DEF LockInv
<1>8. \A u \in Threads, k \in Locks : Owns(u, k)' <=> Owns(u, k)
  BY <1>0 DEF Owns, IInv, TypeOK
<1>9. MutualExclusion'
  BY <1>8 DEF IInv, MutualExclusion
<1>10. DiskUntouched
  BY DEF DiskUntouched, AtDisk, IInv, TypeOK
<1> QED
  BY <1>3, <1>4, <1>5, <1>6, <1>7, <1>9, <1>10, DiskFrame, WaitersFrame DEF IInv

-----------------------------------------------------------------------------
(* The semaphores.                                                         *)

(* A turn of the loop of sema_down that blocks keeps the invariant.        *)
LEMMA SemaDownBlockLemma ==
  ASSUME IInv, NEW t \in Threads, sema_down_block(t)
  PROVE  IInv'
<1> USE DEF sema_down_block, Running, Goto
<1>0. PICK s \in Semaphores : s = arg[t]
  BY DEF IInv, PcInv
<1>1. /\ sch \in SchedState /\ Consistent(sch) /\ sch.cur = t /\ t # Idle
      /\ sch.status[t] = "RUNNING" /\ ~elem_find(waiters[s], t) /\ value[s] = 0
      /\ waiters[s] \in Seq(Threads) /\ NoDup(waiters[s])
  BY <1>0 DEF IInv, TypeOK, PcInv, WaitersInv, Consistent, CpuInv
<1>2. sch' = thread_block(sch, "BLOCKED")
  BY <1>0, <1>1, AssertLemma
<1>3. /\ sch' \in SchedState /\ Consistent(sch') /\ sch'.ok = sch.ok
      /\ sch'.status[t] = "BLOCKED" /\ SameSleepersBut(t, sch, sch')
  <2> HIDE DEF sema_down_block
  <2>1. "BLOCKED" \in Blocking
    BY DEF Blocking
  <2> DEFINE r == thread_block(sch, "BLOCKED")
  <2>2. /\ r \in SchedState /\ Consistent(r) /\ r.ok = sch.ok
        /\ r.status[sch.cur] = "BLOCKED" /\ SameSleepersBut(sch.cur, sch, r)
    BY <1>1, <2>1, BlockLemma
  <2> HIDE DEF r
  <2> QED
    BY <1>1, <1>2, <2>2 DEF r
<1>4. PICK q, p : q = waiters[s] /\ p = list_append(q, t)
  OBVIOUS
<1>6. waiters' = [waiters EXCEPT ![s] = p]
  BY <1>0, <1>4
<1>5. /\ p \in Seq(Threads) /\ NoDup(p)
      /\ \A x : elem_find(p, x) <=> elem_find(q, x) \/ x = t
  <2> HIDE DEF sema_down_block
  <2>1. q \in Seq(Threads) /\ NoDup(q) /\ ~elem_find(q, t)
    BY <1>1, <1>4
  <2> QED
    BY <1>4, <2>1, AppendLemma
<1>7. TypeOK'
  <2>1. waiters' \in [Semaphores -> Seq(Threads)]
    BY <1>5, <1>6 DEF IInv, TypeOK
  <2> QED
    BY <1>3, <2>1 DEF IInv, TypeOK, Labels, lockVars
<1>8. NoPanic' /\ Consistent(sch)'
  BY <1>3 DEF NoPanic
<1>9. PcInv'
  <2>1. /\ pc' = [pc EXCEPT ![t] = "wait"] /\ arg' = arg /\ PcInv
        /\ pc \in [Threads -> Labels]
    BY DEF IInv, TypeOK
  <2> HIDE DEF sema_down_block, Running, Goto
  <2>2. \A u \in Threads \ {Idle, t} : sch'.status[u] = "DIED" => sch.status[u] = "DIED"
    BY <1>3 DEF SameSleepersBut, Awake
  <2>3. sch'.status[Idle] # "DIED"
    BY <1>3 DEF Consistent, IdleInv
  <2> QED
    BY <1>0, <1>1, <1>3, <2>1, <2>2, <2>3 DEF PcInv
<1>10. WaitersInv'
  <2>0. pc' = [pc EXCEPT ![t] = "wait"] /\ arg' = arg
    OBVIOUS
  <2> HIDE DEF sema_down_block, Running, Goto
  <2>9. /\ pc \in [Threads -> Labels] /\ DOMAIN waiters = Semaphores
        /\ \A k \in Semaphores : NoDup(waiters[k])
    BY DEF IInv, TypeOK, WaitersInv
  <2>1. ASSUME NEW k \in Semaphores PROVE NoDup(waiters'[k])
    BY <1>5, <1>6, <2>9
  <2>2. ASSUME NEW k \in Semaphores, NEW u \in Threads
        PROVE  elem_find(waiters'[k], u) <=> /\ u # Idle /\ sch'.status[u] = "BLOCKED"
                                             /\ pc'[u] = "wait" /\ arg'[u] = k
    <3>1. elem_find(waiters'[k], u) <=> elem_find(waiters[k], u) \/ (k = s /\ u = t)
      <4>1. CASE k = s
        <5>1. waiters'[k] = p /\ waiters[k] = q
          BY <1>4, <1>6, <2>9, <4>1
        <5> QED
          BY <1>5, <4>1, <5>1
      <4>2. CASE k # s
        BY <1>6, <2>9, <4>2
      <4> QED
        BY <4>1, <4>2
    <3>2. CASE u = t
      <4>1. k # s => ~elem_find(waiters[k], t)
        BY <1>0, <2>2 DEF IInv, WaitersInv
      <4> QED
        BY <1>0, <1>1, <1>3, <2>0, <2>9, <3>1, <3>2, <4>1
    <3>3. CASE u # t
      <4>1. pc'[u] = pc[u] /\ arg'[u] = arg[u]
        BY <2>0, <2>9, <3>3
      <4>2. u # Idle => (sch'.status[u] = "BLOCKED" <=> sch.status[u] = "BLOCKED")
        BY <1>3, <3>3, SMTT(30) DEF SameSleepersBut, Awake
      <4>3. elem_find(waiters[k], u) <=> /\ u # Idle /\ sch.status[u] = "BLOCKED"
                                         /\ pc[u] = "wait" /\ arg[u] = k
        BY DEF IInv, WaitersInv
      <4> QED
        BY <3>1, <3>3, <4>1, <4>2, <4>3, SMTT(30)
    <3> QED
      BY <3>2, <3>3
  <2> QED
    BY <2>1, <2>2, SMTT(30) DEF WaitersInv
<1>11. LocksUntouched
  BY DEF LocksUntouched, InLock, IInv, TypeOK
<1>12. DiskUntouched
  BY DEF DiskUntouched, AtDisk, IInv, TypeOK, lockVars
<1>13. NoLostWakeup'
  <2> SUFFICES ASSUME NEW k \in Semaphores, value'[k] # 0, waiters'[k] # << >>
               PROVE  \E u \in Threads : /\ pc'[u] = "wait" /\ arg'[u] = k
                                         /\ sch'.status[u] \in {"READY", "RUNNING"}
    BY DEF NoLostWakeup
  <2>1. k # s /\ waiters[k] # << >> /\ value[k] # 0
    BY <1>1, <1>6 DEF IInv, TypeOK
  <2>2. PICK u \in Threads : /\ pc[u] = "wait" /\ arg[u] = k
                             /\ sch.status[u] \in {"READY", "RUNNING"}
    BY <2>1 DEF IInv, NoLostWakeup
  <2>3. u # t /\ u # Idle
    BY <1>0, <2>1, <2>2 DEF IInv, PcInv
  <2> QED
    BY <1>3, <2>2, <2>3 DEF SameSleepersBut, Awake, IInv, TypeOK
<1> QED
  BY <1>7, <1>8, <1>9, <1>10, <1>11, <1>12, <1>13, LocksFrame, DiskFrame DEF IInv

-----------------------------------------------------------------------------
(* The end of sema_down, which takes the semaphore, keeps the invariant.   *)
LEMMA SemaDownTakeLemma ==
  ASSUME IInv, NEW t \in Threads, sema_down_take(t)
  PROVE  IInv'
<1> USE DEF sema_down_take, Running
<1>0. PICK s \in Semaphores : s = arg[t]
  BY DEF IInv, PcInv
<1>1. /\ sch \in SchedState /\ Consistent(sch) /\ sch.cur = t /\ t # Idle
      /\ value[s] = 1 /\ sch.status[t] = "RUNNING" /\ NoPanic
  BY <1>0 DEF IInv, TypeOK, PcInv, Consistent, CpuInv
<1>2. sch' = sch
  BY <1>0, <1>1, AssertLemma
<1>3. value' = [value EXCEPT ![s] = 0]
  BY <1>0, <1>1
<1>4. s = DiskDone \/ s \in Locks
  BY DEF Semaphores
<1>5. /\ pc' = [pc EXCEPT ![t] = IF s = DiskDone THEN "run" ELSE "own"]
      /\ arg' = [arg EXCEPT ![t] = IF s = DiskDone THEN NULL ELSE s]
  BY <1>0 DEF Return, Call, Goto
<1>6. TypeOK'
  <2>1. value' \in [Semaphores -> {0, 1}]
    BY <1>3 DEF IInv, TypeOK
  <2>2. pc' \in [Threads -> Labels] /\ arg' \in [Threads -> Semaphores \cup {NULL}]
    BY <1>5 DEF IInv, TypeOK, Labels
  <2>3. intr' \in [Threads -> BOOLEAN] /\ old' \in [Threads -> BOOLEAN]
    BY DEF IInv, TypeOK
  <2> QED
    BY <1>2, <2>1, <2>2, <2>3 DEF IInv, TypeOK, lockVars
<1>7. NoPanic' /\ Consistent(sch)'
  BY <1>1, <1>2 DEF NoPanic
<1>13. /\ PcInv /\ WaitersInv /\ MutualExclusion /\ LockInv
       /\ value \in [Semaphores -> {0, 1}] /\ pc \in [Threads -> Labels]
       /\ arg \in [Threads -> Semaphores \cup {NULL}] /\ waiters' = waiters
       /\ holder' = holder /\ holder_repeat_nr' = holder_repeat_nr
       /\ pc[t] \in {"down", "wait"}
  BY DEF IInv, TypeOK, lockVars
<1>8. PcInv'
  <2> HIDE DEF sema_down_take, Running
  <2> QED
    BY <1>1, <1>2, <1>4, <1>5, <1>13 DEF PcInv
<1>9. WaitersInv'
  <2> HIDE DEF sema_down_take, Running
  <2> QED
    <3>1. \A u \in Threads : u # t => pc'[u] = pc[u] /\ arg'[u] = arg[u]
      BY <1>5, <1>13
    <3>2. sch'.status[t] # "BLOCKED"
      BY <1>1, <1>2
    <3> QED
      BY <1>2, <1>13, <3>1, <3>2 DEF WaitersInv
<1>10. NoLostWakeup'
  <2> SUFFICES ASSUME NEW k \in Semaphores, value'[k] # 0, waiters'[k] # << >>
               PROVE  \E u \in Threads : /\ pc'[u] = "wait" /\ arg'[u] = k
                                         /\ sch'.status[u] \in {"READY", "RUNNING"}
    BY DEF NoLostWakeup
  <2>1. k # s /\ waiters[k] # << >> /\ value[k] # 0
    BY <1>3 DEF IInv, TypeOK
  <2>2. PICK u \in Threads : /\ pc[u] = "wait" /\ arg[u] = k
                             /\ sch.status[u] \in {"READY", "RUNNING"}
    BY <2>1 DEF IInv, NoLostWakeup
  <2>3. u # t
    BY <1>0, <2>1, <2>2
  <2> QED
    BY <1>2, <1>5, <2>2, <2>3 DEF IInv, TypeOK
<1>11. CASE s = DiskDone
  <2>1. LocksUntouched
    BY <1>3, <1>5, <1>11, LocksAssumption DEF LocksUntouched, InLock, IInv, TypeOK, Semaphores
  <2>2. DiskInv'
    <3>1. ~expecting_intr' /\ value'[DiskDone] = 0
      BY <1>0, <1>1, <1>3, <1>11 DEF IInv, DiskInv, TypeOK
    <3>2. \A u \in Threads : AtDisk(u)' => AtDisk(u)
      BY <1>5, <1>11 DEF AtDisk, IInv, TypeOK
    <3> QED
      BY <3>1, <3>2 DEF IInv, DiskInv, lockVars
  <2> QED
    BY <1>6, <1>7, <1>8, <1>9, <1>10, <2>1, <2>2, LocksFrame DEF IInv
<1>12. CASE s \in Locks
  <2>0. s # DiskDone
    BY <1>12, LocksAssumption
  <2>1. /\ \A u \in Threads : ~Owns(u, s)
        /\ holder[s] = NULL /\ holder_repeat_nr[s] = 0
    <3> HIDE DEF sema_down_take, Running
    <3>1. \A u \in Threads : ~Owns(u, s)
      <4>1. value[s] = 0 <=> \E u \in Threads : Owns(u, s)
        <5>1. MutualExclusion
          BY <1>13
        <5>2. \A l \in Locks : value[l] = 0 <=> \E u \in Threads : Owns(u, l)
          BY <5>1 DEF MutualExclusion
        <5> QED
          BY <1>12, <5>2
      <4>2. value[s] # 0
        BY <1>1
      <4> QED
        BY <4>1, <4>2
    <3>2. holder[s] \in Threads \cup {NULL}
      BY <1>12 DEF IInv, TypeOK
    <3>3. holder_repeat_nr[s] = 0
      <4>1. LockInv /\ value[s] # 0
        BY <1>1, <1>13
      <4> QED
        BY <1>12, <4>1 DEF LockInv
    <3> QED
      BY <3>1, <3>2, <3>3 DEF Owns
  <2>2. \A u \in Threads : InLock(u) => arg[u] # s
    <3> HIDE DEF sema_down_take, Running
    <3>1. ASSUME NEW u \in Threads, InLock(u), arg[u] = s PROVE FALSE
      <4>1. pc[u] # "count"
        BY <2>1, <3>1, <1>13, NullAssumption DEF LockInv
      <4> QED
        BY <2>1, <3>1, <4>1 DEF Owns, InLock
    <3> QED
      BY <3>1
  <2>3. \A u \in Threads, k \in Locks : Owns(u, k)' <=> Owns(u, k) \/ (u = t /\ k = s)
    BY <1>0, <1>5, <1>12, <2>0, <2>1 DEF Owns, IInv, TypeOK, lockVars
  <2>4. MutualExclusion'
    <3> HIDE DEF sema_down_take, Running
    <3>1. \A k \in Locks, u, v \in Threads : (Owns(u, k) /\ Owns(v, k))' => u = v
      BY <1>13, <2>1, <2>3 DEF MutualExclusion
    <3>2. ASSUME NEW k \in Locks
          PROVE  value'[k] = 0 <=> \E u \in Threads : Owns(u, k)'
      <4>1. CASE k = s
        BY <1>3, <1>13, <2>3, <4>1
      <4>2. CASE k # s
        <5>1. value'[k] = value[k]
          BY <1>3, <1>13, <4>2 DEF Semaphores
        <5> QED
          BY <1>13, <2>3, <4>2, <5>1 DEF MutualExclusion
      <4> QED
        BY <4>1, <4>2
    <3> QED
      BY <3>1, <3>2 DEF MutualExclusion
  <2>5. LockInv'
    <3> HIDE DEF sema_down_take, Running
    <3>1. ASSUME NEW u \in Threads, u # t
          PROVE  pc'[u] = pc[u] /\ arg'[u] = arg[u]
      BY <1>5, <1>13, <3>1
    <3>2. pc'[t] = "own" /\ arg'[t] = s
      BY <1>5, <1>13, <2>0
    <3>3. ASSUME NEW u \in Threads
          PROVE  /\ pc'[u] \in {"own", "clear", "up"} => holder'[arg'[u]] = NULL
                 /\ pc'[u] = "count" => holder'[arg'[u]] = u
                 /\ pc'[u] \in {"own", "count", "up"} => holder_repeat_nr'[arg'[u]] = 0
                 /\ pc'[u] = "clear" => holder_repeat_nr'[arg'[u]] = 1
      <4>1. CASE u = t
        BY <1>13, <2>1, <3>2, <4>1
      <4>2. CASE u # t
        BY <1>13, <3>1, <4>2 DEF LockInv
      <4> QED
        BY <4>1, <4>2
    <3>4. ASSUME NEW l \in Locks
          PROVE  /\ value'[l] # 0 => holder_repeat_nr'[l] = 0
                 /\ \A u \in Threads : holder'[l] = u =>
                        holder_repeat_nr'[l] # 0 \/ (pc'[u] = "count" /\ arg'[u] = l)
      <4>1. value'[l] # 0 => holder_repeat_nr'[l] = 0
        BY <1>3, <1>13, <2>1 DEF LockInv, Semaphores
      <4>2. ASSUME NEW u \in Threads, holder'[l] = u
            PROVE  holder_repeat_nr'[l] # 0 \/ (pc'[u] = "count" /\ arg'[u] = l)
        BY <1>13, <3>1, <4>2 DEF LockInv
      <4> QED
        BY <4>1, <4>2
    <3> QED
      BY <3>3, <3>4 DEF LockInv
  <2>6. DiskUntouched
    BY <1>0, <1>3, <1>5, <2>0 DEF DiskUntouched, AtDisk, IInv, TypeOK, Semaphores, lockVars
  <2> QED
    BY <1>6, <1>7, <1>8, <1>9, <1>10, <2>4, <2>5, <2>6, DiskFrame DEF IInv
<1> QED
  BY <1>4, <1>11, <1>12

(* sema_up on a semaphore that is 0, by a task that leaves every waiter    *)
(* where it is: the head of the waiters list is woken, none of the ASSERTs *)
(* fails, and somebody awake will test the semaphore.                      *)
LEMMA SemaUpLemma ==
  ASSUME IInv, NEW s \in Semaphores, value[s] = 0, sema_up(s),
         \A u \in Threads \ {Idle} :
            \/ pc'[u] = pc[u] /\ arg'[u] = arg[u]
            \/ pc[u] # "wait" /\ pc'[u] # "wait"
  PROVE  /\ sch' \in SchedState /\ Consistent(sch') /\ sch'.ok /\ sch'.cur = sch.cur
         /\ \A u \in Threads : sch'.status[u] = "DIED" => sch.status[u] = "DIED"
         /\ waiters' \in [Semaphores -> Seq(Threads)]
         /\ value' = [value EXCEPT ![s] = 1]
         /\ WaitersInv' /\ NoLostWakeup'
<1>1. /\ sch \in SchedState /\ Consistent(sch) /\ sch.ok
      /\ waiters \in [Semaphores -> Seq(Threads)] /\ value \in [Semaphores -> {0, 1}]
      /\ pc[Idle] # "wait"
  BY IdleAssumption DEF IInv, TypeOK, NoPanic, PcInv
<1>2. value' = [value EXCEPT ![s] = 1]
  BY <1>1 DEF sema_up
<1>3. CASE waiters[s] = << >>
  <2>1. sch' = sch /\ waiters' = waiters
    BY <1>1, <1>3, AssertLemma DEF sema_up
  <2>2. WaitersInv'
    <3>1. WaitersInv
      BY DEF IInv
    <3> HIDE DEF sema_up
    <3>2. ASSUME NEW k \in Semaphores, NEW u \in Threads
          PROVE  elem_find(waiters'[k], u) <=> /\ u # Idle /\ sch'.status[u] = "BLOCKED"
                                               /\ pc'[u] = "wait" /\ arg'[u] = k
      <4>1. elem_find(waiters[k], u) <=> /\ u # Idle /\ sch.status[u] = "BLOCKED"
                                         /\ pc[u] = "wait" /\ arg[u] = k
        BY <3>1 DEF WaitersInv
      <4> QED
        BY <2>1, <4>1
    <3> QED
      BY <2>1, <3>1, <3>2 DEF WaitersInv
  <2>3. NoLostWakeup'
    <3> SUFFICES ASSUME NEW k \in Semaphores, value'[k] # 0, waiters'[k] # << >>
                 PROVE  \E u \in Threads : /\ pc'[u] = "wait" /\ arg'[u] = k
                                           /\ sch'.status[u] \in {"READY", "RUNNING"}
      BY DEF NoLostWakeup
    <3>1. value[k] # 0 /\ waiters[k] # << >>
      BY <1>1, <1>2, <1>3, <2>1
    <3>2. PICK u \in Threads : /\ pc[u] = "wait" /\ arg[u] = k
                               /\ sch.status[u] \in {"READY", "RUNNING"}
      BY <3>1 DEF IInv, NoLostWakeup
    <3> QED
      BY <1>1, <2>1, <3>2
  <2> QED
    BY <1>1, <1>2, <2>1, <2>2, <2>3
<1>4. CASE waiters[s] # << >>
  <2>1. PICK q, w : q = waiters[s] /\ w = Head(q)
    OBVIOUS
  <2>2. q \in Seq(Threads) /\ q # << >> /\ NoDup(q)
    BY <1>1, <1>4, <2>1 DEF IInv, WaitersInv
  <2>3. /\ w \in Threads /\ Tail(q) \in Seq(Threads) /\ elem_find(q, w) /\ NoDup(Tail(q))
        /\ \A x : elem_find(Tail(q), x) <=> elem_find(q, x) /\ x # w
    BY <2>1, <2>2, PopLemma
  <2>4. w # Idle /\ sch.status[w] = "BLOCKED" /\ pc[w] = "wait" /\ arg[w] = s
    BY <2>1, <2>3 DEF IInv, WaitersInv
  <2>5. sch' = thread_unblock(sch, w) /\ waiters' = [waiters EXCEPT ![s] = Tail(q)]
    BY <1>1, <1>4, <2>1, AssertLemma DEF sema_up
  <2>6. /\ sch' \in SchedState /\ sch'.cur = sch.cur /\ sch'.ok = sch.ok
        /\ sch'.status = [sch.status EXCEPT ![w] = "READY"] /\ ReadyListInv(sch')
    <3>1. sch.status[w] \in Blocking /\ ReadyListInv(sch)
      BY <1>1, <2>4 DEF Blocking, Consistent
    <3> QED
      BY <1>1, <2>3, <2>5, <3>1, UnblockLemma
  <2>7. Consistent(sch')
    <3>0. DOMAIN sch.status = Threads
      BY <1>1 DEF SchedState
    <3>1. \A u \in Threads : sch'.status[u] = IF u = w THEN "READY" ELSE sch.status[u]
      BY <2>3, <2>6, <3>0
    <3>2. CpuInv(sch')
      <4>1. CpuInv(sch)
        BY <1>1 DEF Consistent
      <4> QED
        BY <2>4, <2>6, <3>1, <4>1 DEF CpuInv
    <3>3. IdleInv(sch')
      BY <1>1, <2>4, <2>6, <3>1, IdleAssumption DEF Consistent, IdleInv
    <3> QED
      BY <1>1, <2>6, <3>2, <3>3 DEF Consistent
  <2>8. waiters' \in [Semaphores -> Seq(Threads)]
    BY <1>1, <2>3, <2>5
  <2>9. \A u \in Threads : sch'.status[u] = IF u = w THEN "READY" ELSE sch.status[u]
    <3>0. DOMAIN sch.status = Threads
      BY <1>1 DEF SchedState
    <3> QED
      BY <2>3, <2>6, <3>0
  <2>10. WaitersInv'
    <3>1. ASSUME NEW k \in Semaphores PROVE NoDup(waiters'[k])
      BY <1>1, <2>3, <2>5 DEF IInv, WaitersInv
    <3>2. ASSUME NEW k \in Semaphores, NEW u \in Threads
          PROVE  elem_find(waiters'[k], u) <=> /\ u # Idle /\ sch'.status[u] = "BLOCKED"
                                               /\ pc'[u] = "wait" /\ arg'[u] = k
      <4>1. elem_find(waiters'[k], u) <=> elem_find(waiters[k], u) /\ ~(k = s /\ u = w)
        <5>1. CASE k = s
          <6>1. waiters'[k] = Tail(q) /\ waiters[k] = q
            BY <1>1, <2>1, <2>5, <5>1
          <6> QED
            BY <2>3, <5>1, <6>1
        <5>2. CASE k # s
          BY <1>1, <2>5, <5>2
        <5> QED
          BY <5>1, <5>2
      <4>2. elem_find(waiters[k], u) <=> /\ u # Idle /\ sch.status[u] = "BLOCKED"
                                         /\ pc[u] = "wait" /\ arg[u] = k
        BY DEF IInv, WaitersInv
      <4>3. CASE u = w
        BY <2>4, <2>9, <4>1, <4>2, <4>3
      <4>4. CASE u # w
        BY <2>9, <4>1, <4>2, <4>4
      <4> QED
        BY <4>3, <4>4
    <3> QED
      BY <3>1, <3>2 DEF WaitersInv
  <2>11. NoLostWakeup'
    <3> SUFFICES ASSUME NEW k \in Semaphores, value'[k] # 0, waiters'[k] # << >>
                 PROVE  \E u \in Threads : /\ pc'[u] = "wait" /\ arg'[u] = k
                                           /\ sch'.status[u] \in {"READY", "RUNNING"}
      BY DEF NoLostWakeup
    <3>1. CASE k = s
      BY <2>3, <2>4, <2>9, <3>1
    <3>2. CASE k # s
      <4>1. value[k] # 0 /\ waiters[k] # << >>
        BY <1>1, <1>2, <2>5, <3>2
      <4>2. PICK u \in Threads : /\ pc[u] = "wait" /\ arg[u] = k
                                 /\ sch.status[u] \in {"READY", "RUNNING"}
        BY <4>1 DEF IInv, NoLostWakeup
      <4> QED
        BY <1>1, <2>9, <4>2
    <3> QED
      BY <3>1, <3>2
  <2> QED
    BY <1>1, <1>2, <2>6, <2>7, <2>8, <2>9, <2>10, <2>11
<1> QED
  BY <1>3, <1>4

(* The sema_up of lock_release keeps the invariant.                        *)
LEMMA ReleaseUpLemma ==
  ASSUME IInv, NEW t \in Threads, release_up(t)
  PROVE  IInv'
<1> USE DEF release_up, At, Running, Return, Call, Goto, lockVars
<1>0. PICK l \in Locks : l = arg[t] /\ l \in Semaphores
  BY DEF IInv, PcInv, Semaphores
<1>1. /\ holder[l] = NULL /\ holder_repeat_nr[l] = 0 /\ Owns(t, l) /\ value[l] = 0
      /\ \A u \in Threads : Owns(u, l) => u = t
  <2>1. LockInv /\ MutualExclusion /\ pc[t] = "up"
    BY DEF IInv
  <2> HIDE DEF release_up, At, Running, Return, Call, Goto, lockVars
  <2>2. holder[l] = NULL /\ holder_repeat_nr[l] = 0
    BY <1>0, <2>1 DEF LockInv
  <2>3. Owns(t, l)
    BY <1>0, <2>1 DEF Owns
  <2> QED
    BY <2>1, <2>2, <2>3 DEF MutualExclusion
<1>2. \A u \in Threads : u # t /\ InLock(u) => arg[u] # l
  <2>1. LockInv
    BY DEF IInv
  <2> HIDE DEF release_up, At, Running, Return, Call, Goto, lockVars
  <2>2. ASSUME NEW u \in Threads, u # t, InLock(u), arg[u] = l PROVE FALSE
    <3>1. pc[u] # "count"
      BY <1>1, <2>1, <2>2, NullAssumption DEF LockInv
    <3> QED
      BY <1>1, <2>2, <3>1 DEF Owns, InLock
  <2> QED
    BY <2>2
<1>3. /\ sch' \in SchedState /\ Consistent(sch') /\ sch'.ok /\ sch'.cur = sch.cur
      /\ \A u \in Threads : sch'.status[u] = "DIED" => sch.status[u] = "DIED"
      /\ waiters' \in [Semaphores -> Seq(Threads)]
      /\ value' = [value EXCEPT ![l] = 1]
      /\ WaitersInv' /\ NoLostWakeup'
  <2>1. \A u \in Threads \ {Idle} :
            \/ pc'[u] = pc[u] /\ arg'[u] = arg[u]
            \/ pc[u] # "wait" /\ pc'[u] # "wait"
    BY DEF IInv, TypeOK
  <2>2. sema_up(l)
    BY <1>0
  <2> HIDE DEF release_up
  <2> QED
    BY <1>0, <1>1, <2>1, <2>2, SemaUpLemma
<1>4. TypeOK'
  BY <1>3 DEF IInv, TypeOK, Labels
<1>5. NoPanic' /\ Consistent(sch)'
  BY <1>3 DEF NoPanic
<1>6. PcInv'
  BY <1>3 DEF IInv, PcInv, TypeOK
<1>7. LockInv'
  <2>1. /\ LockInv /\ value \in [Semaphores -> {0, 1}] /\ Locks \subseteq Semaphores
        /\ holder' = holder /\ holder_repeat_nr' = holder_repeat_nr /\ pc'[t] = "run"
        /\ \A u \in Threads : u # t => pc'[u] = pc[u] /\ arg'[u] = arg[u]
    BY DEF IInv, TypeOK, Semaphores
  <2> HIDE DEF release_up, At, Running, Return, Call, Goto, lockVars
  <2>2. ASSUME NEW u \in Threads
        PROVE  /\ pc'[u] \in {"own", "clear", "up"} => holder'[arg'[u]] = NULL
               /\ pc'[u] = "count" => holder'[arg'[u]] = u
               /\ pc'[u] \in {"own", "count", "up"} => holder_repeat_nr'[arg'[u]] = 0
               /\ pc'[u] = "clear" => holder_repeat_nr'[arg'[u]] = 1
    <3>1. CASE u = t
      BY <2>1, <3>1
    <3>2. CASE u # t
      BY <2>1, <3>2 DEF LockInv
    <3> QED
      BY <3>1, <3>2
  <2>3. \A k \in Locks : value'[k] # 0 => holder_repeat_nr'[k] = 0
    BY <1>1, <1>3, <2>1 DEF LockInv
  <2>4. ASSUME NEW k \in Locks, NEW u \in Threads, holder'[k] = u
        PROVE  holder_repeat_nr'[k] # 0 \/ (pc'[u] = "count" /\ arg'[u] = k)
    <3>1. k # l
      BY <1>1, <2>1, <2>4, NullAssumption
    <3>2. holder_repeat_nr[k] # 0 \/ (pc[u] = "count" /\ arg[u] = k)
      BY <2>1, <2>4 DEF LockInv
    <3>3. u # t \/ holder_repeat_nr[k] # 0
      BY <1>0, <3>1, <3>2
    <3> QED
      BY <2>1, <3>2, <3>3
  <2> QED
    BY <2>2, <2>3, <2>4 DEF LockInv
<1>8. \A u \in Threads, k \in Locks : Owns(u, k)' <=> Owns(u, k) /\ k # l
  BY <1>0, <1>1, <1>2, NullAssumption DEF Owns, IInv, TypeOK, InLock
<1>9. MutualExclusion'
  <2>1. MutualExclusion /\ value \in [Semaphores -> {0, 1}] /\ Locks \subseteq Semaphores
    BY DEF IInv, TypeOK, Semaphores
  <2> HIDE DEF release_up, At, Running, Return, Call, Goto, lockVars
  <2>2. \A k \in Locks, u, v \in Threads : (Owns(u, k) /\ Owns(v, k))' => u = v
    BY <1>8, <2>1 DEF MutualExclusion
  <2>3. ASSUME NEW k \in Locks
        PROVE  value'[k] = 0 <=> \E u \in Threads : Owns(u, k)'
    <3>1. CASE k = l
      <4>1. value'[l] = 1
        BY <1>0, <1>3, <2>1
      <4>2. \A u \in Threads : ~Owns(u, l)'
        BY <1>8
      <4> QED
        BY <3>1, <4>1, <4>2
    <3>2. CASE k # l
      <4>1. value'[k] = value[k]
        BY <1>3, <2>1, <3>2
      <4> QED
        BY <1>8, <2>1, <3>2, <4>1 DEF MutualExclusion
    <3> QED
      BY <3>1, <3>2
  <2> QED
    BY <2>2, <2>3 DEF MutualExclusion
<1>10. DiskUntouched
  BY <1>0, <1>3, LocksAssumption DEF DiskUntouched, AtDisk, IInv, TypeOK, Semaphores
<1> QED
  BY <1>3, <1>4, <1>5, <1>6, <1>7, <1>9, <1>10, DiskFrame DEF IInv

(* intr_hd_handler, with its sema_up of disk_done, keeps the invariant.    *)
LEMMA DiskInterruptLemma ==
  ASSUME IInv, disk_interrupt
  PROVE  IInv'
<1> USE DEF disk_interrupt, wake_hlt, lockVars
<1>0. DiskDone \in Semaphores /\ value[DiskDone] = 0
  BY DEF IInv, DiskInv, Semaphores
<1>1. /\ \A u \in Threads \ {Idle} : pc'[u] = pc[u]
      /\ pc'[Idle] = pc[Idle] \/ (pc'[Idle] = "top" /\ pc[Idle] = "hlt")
      /\ pc' \in [Threads -> Labels]
  BY IdleAssumption DEF IInv, TypeOK, Labels
<1>2. /\ sch' \in SchedState /\ Consistent(sch') /\ sch'.ok /\ sch'.cur = sch.cur
      /\ \A u \in Threads : sch'.status[u] = "DIED" => sch.status[u] = "DIED"
      /\ waiters' \in [Semaphores -> Seq(Threads)]
      /\ value' = [value EXCEPT ![DiskDone] = 1]
      /\ WaitersInv' /\ NoLostWakeup'
  <2>1. sema_up(DiskDone) /\ arg' = arg
    OBVIOUS
  <2> HIDE DEF disk_interrupt
  <2> QED
    BY <1>0, <1>1, <2>1, SemaUpLemma
<1>3. TypeOK'
  BY <1>1, <1>2, <1>0 DEF IInv, TypeOK
<1>4. NoPanic' /\ Consistent(sch)'
  BY <1>2 DEF NoPanic
<1>5. PcInv'
  BY <1>1, <1>2 DEF IInv, PcInv, Consistent, IdleInv
<1>6. LocksUntouched
  BY <1>1, <1>2, LocksAssumption DEF LocksUntouched, InLock, IInv, TypeOK, Semaphores
<1>7. \A u \in Threads : AtDisk(u)' <=> AtDisk(u)
  BY <1>1 DEF AtDisk
<1>8. DiskInv'
  BY <1>7 DEF IInv, DiskInv
<1> QED
  BY <1>2, <1>3, <1>4, <1>5, <1>6, <1>8, LocksFrame DEF IInv

-----------------------------------------------------------------------------
(* The other steps leave the semaphores and locks as they were.            *)

(* Sending a command to the disk keeps the invariant.                      *)
LEMMA CmdOutLemma ==
  ASSUME IInv, NEW t \in Threads, cmd_out(t)
  PROVE  IInv'
<1> USE DEF cmd_out, At, Running, Call, Goto, semaVars, lockVars
<1>1. TypeOK'
  BY DEF IInv, TypeOK, Labels, Semaphores
<1>2. NoPanic' /\ Consistent(sch)'
  BY DEF IInv, NoPanic
<1>3. PcInv'
  <2>1. /\ PcInv /\ pc \in [Threads -> Labels] /\ arg \in [Threads -> Semaphores \cup {NULL}]
        /\ sch' = sch /\ pc[t] = "run" /\ sch.status[t] = "RUNNING"
        /\ pc' = [pc EXCEPT ![t] = "down"] /\ arg' = [arg EXCEPT ![t] = DiskDone]
    BY DEF IInv, TypeOK, Consistent, CpuInv
  <2> HIDE DEF cmd_out, At, Running, Call, Goto, semaVars, lockVars
  <2> QED
    BY <2>1 DEF PcInv, Semaphores
<1>4. WaitersUntouched
  BY DEF WaitersUntouched, IInv, TypeOK
<1>5. LocksUntouched
  BY DEF LocksUntouched, InLock, IInv, TypeOK
<1>6. DiskInv'
  <2>1. \A u \in Threads : ~AtDisk(u)
    BY DEF IInv, DiskInv, AtDisk
  <2>2. value[DiskDone] = 0
    BY <2>1 DEF IInv, DiskInv
  <2>3. \A u \in Threads : AtDisk(u)' <=> u = t
    BY <2>1 DEF IInv, AtDisk, TypeOK
  <2> QED
    BY <2>2, <2>3 DEF DiskInv
<1> QED
  BY <1>1, <1>2, <1>3, <1>4, <1>5, <1>6, LocksFrame, WaitersFrame DEF IInv

(* A step that moves tasks between READY and RUNNING, sets interrupt flags *)
(* or moves idle around its loop.                                          *)
LEMMA SwitchLemma ==
  ASSUME IInv, sch' \in SchedState, Consistent(sch'), sch'.ok = sch.ok,
         SameSleepers(sch, sch'),
         intr' \in [Threads -> BOOLEAN], pc' \in [Threads -> Labels],
         \A u \in Threads \ {Idle} : pc'[u] = pc[u],
         pc'[Idle] \in {"top", "sti", "hlt"},
         UNCHANGED <<semaVars, lockVars, expecting_intr, old, arg>>
  PROVE  IInv'
<1> USE DEF semaVars, lockVars
<1>1. TypeOK'
  BY DEF IInv, TypeOK
<1>2. NoPanic' /\ Consistent(sch)'
  BY DEF IInv, NoPanic
<1>3. PcInv'
  BY DEF IInv, PcInv, SameSleepers, Awake, Consistent, IdleInv
<1>4. WaitersUntouched
  BY DEF WaitersUntouched, SameSleepers
<1>5. pc[Idle] \in {"top", "sti", "hlt"}
  BY IdleAssumption DEF IInv, PcInv
<1>6. LocksUntouched
  BY <1>5 DEF LocksUntouched, InLock
<1>7. DiskUntouched
  BY <1>5 DEF DiskUntouched, AtDisk
<1> QED
  BY <1>1, <1>2, <1>3, <1>4, <1>6, <1>7, LocksFrame, WaitersFrame, DiskFrame DEF IInv

(* thread_yield keeps the invariant.                                       *)
LEMMA YieldStepLemma ==
  ASSUME IInv, NEW t \in Threads, yield(t)
  PROVE  IInv'
<1>1. /\ sch \in SchedState /\ Consistent(sch) /\ pc \in [Threads -> Labels]
      /\ intr \in [Threads -> BOOLEAN] /\ pc[Idle] \in {"top", "sti", "hlt"}
  BY IdleAssumption DEF IInv, TypeOK, PcInv
<1>2. /\ sch' = thread_yield(sch)
      /\ UNCHANGED <<semaVars, lockVars, expecting_intr, intr, old, pc, arg>>
  BY DEF yield, taskVars
<1>3. /\ sch' \in SchedState /\ Consistent(sch') /\ sch'.ok = sch.ok
      /\ SameSleepers(sch, sch')
  BY <1>1, <1>2, YieldLemma
<1> QED
  BY <1>1, <1>2, <1>3, SwitchLemma

(* intr_disable and intr_enable keep the invariant.                        *)
LEMMA IntrLemma ==
  ASSUME IInv, NEW t \in Threads, intr_disable(t) \/ intr_enable(t)
  PROVE  IInv'
<1>1. /\ sch \in SchedState /\ Consistent(sch) /\ pc \in [Threads -> Labels]
      /\ intr \in [Threads -> BOOLEAN] /\ pc[Idle] \in {"top", "sti", "hlt"}
  BY IdleAssumption DEF IInv, TypeOK, PcInv
<1>2. /\ UNCHANGED <<sch, semaVars, lockVars, expecting_intr, old, pc, arg>>
      /\ intr' \in [Threads -> BOOLEAN]
  BY <1>1 DEF intr_disable, intr_enable
<1>3. SameSleepers(sch, sch')
  BY <1>2 DEF SameSleepers
<1> QED
  BY <1>1, <1>2, <1>3, SwitchLemma

(* The timer interrupt, preemption included, keeps the invariant.          *)
LEMMA TimerLemma ==
  ASSUME IInv, timer_interrupt
  PROVE  IInv'
<1>1. /\ sch \in SchedState /\ Consistent(sch) /\ pc \in [Threads -> Labels]
      /\ intr \in [Threads -> BOOLEAN] /\ pc[Idle] \in {"top", "sti", "hlt"}
  BY IdleAssumption DEF IInv, TypeOK, PcInv
<1>2. /\ sch' = timer_tick(sch)
      /\ UNCHANGED <<semaVars, lockVars, expecting_intr, intr, old, arg>>
  BY DEF timer_interrupt
<1>3. /\ pc' \in [Threads -> Labels] /\ \A u \in Threads \ {Idle} : pc'[u] = pc[u]
      /\ pc'[Idle] \in {"top", "sti", "hlt"}
  BY <1>1, IdleAssumption DEF timer_interrupt, wake_hlt, Labels
<1>4. /\ sch' \in SchedState /\ Consistent(sch') /\ sch'.ok = sch.ok
      /\ SameSleepers(sch, sch')
  BY <1>1, <1>2, TickLemma
<1> QED
  BY <1>1, <1>2, <1>3, <1>4, SwitchLemma

(* The steps of idle keep the invariant.                                   *)
LEMMA IdleLemma ==
  ASSUME IInv, idle_block \/ idle_hlt
  PROVE  IInv'
<1>1. /\ sch \in SchedState /\ Consistent(sch) /\ pc \in [Threads -> Labels]
      /\ intr \in [Threads -> BOOLEAN]
  BY DEF IInv, TypeOK
<1>2. /\ UNCHANGED <<semaVars, lockVars, expecting_intr, intr, old, arg>>
      /\ pc' \in [Threads -> Labels] /\ \A u \in Threads \ {Idle} : pc'[u] = pc[u]
      /\ pc'[Idle] \in {"top", "sti", "hlt"}
  BY <1>1, IdleAssumption DEF idle_block, idle_hlt, Goto, Labels
<1>3. CASE idle_hlt
  <2>1. sch' = sch /\ SameSleepers(sch, sch')
    BY <1>3 DEF idle_hlt, SameSleepers
  <2> QED
    BY <1>1, <1>2, <2>1, SwitchLemma
<1>4. CASE idle_block
  <2>1. sch' = thread_block(sch, "BLOCKED") /\ sch.cur = Idle /\ "BLOCKED" \in Blocking
    BY <1>4 DEF idle_block, At, Running, Blocking
  <2>2. /\ sch' \in SchedState /\ Consistent(sch') /\ sch'.ok = sch.ok
        /\ SameSleepersBut(sch.cur, sch, sch')
    BY <1>1, <2>1, BlockLemma
  <2>3. SameSleepers(sch, sch')
    BY <2>1, <2>2 DEF SameSleepers, SameSleepersBut
  <2> QED
    BY <1>1, <1>2, <2>2, <2>3, SwitchLemma
<1> QED
  BY <1>3, <1>4

(* A task that is born or dies is at "run", outside sync.c.                *)
LEMMA LifeLemma ==
  ASSUME IInv, sch' \in SchedState, Consistent(sch'), sch'.ok = sch.ok,
         NEW t \in Threads, pc[t] = "run", SameSleepersBut(t, sch, sch'),
         intr' \in [Threads -> BOOLEAN],
         UNCHANGED <<semaVars, lockVars, expecting_intr, old, pc, arg>>
  PROVE  IInv'
<1> USE DEF semaVars, lockVars
<1>1. TypeOK'
  BY DEF IInv, TypeOK
<1>2. NoPanic' /\ Consistent(sch)'
  BY DEF IInv, NoPanic
<1>3. PcInv'
  BY DEF IInv, PcInv, SameSleepersBut, Awake, Consistent, IdleInv
<1>4. WaitersUntouched
  BY DEF WaitersUntouched, SameSleepersBut
<1>5. LocksUntouched
  BY DEF LocksUntouched
<1>6. DiskUntouched
  BY DEF DiskUntouched, AtDisk
<1> QED
  BY <1>1, <1>2, <1>3, <1>4, <1>5, <1>6, LocksFrame, WaitersFrame, DiskFrame DEF IInv

(* thread_start keeps the invariant.                                       *)
LEMMA SpawnLemma ==
  ASSUME IInv, NEW t \in Threads, NEW child \in Threads, spawn(t, child)
  PROVE  IInv'
<1>1. /\ sch \in SchedState /\ Consistent(sch) /\ pc \in [Threads -> Labels]
      /\ sch.status[child] = "DIED" /\ pc[child] = "run"
  BY DEF IInv, TypeOK, PcInv, spawn
<1>2. /\ sch' = thread_start(sch, child)
      /\ UNCHANGED <<semaVars, lockVars, expecting_intr, old, arg>>
  BY DEF spawn
<1>3. pc' = pc /\ intr' \in [Threads -> BOOLEAN]
  BY <1>1 DEF spawn, IInv, TypeOK
<1>4. /\ sch' \in SchedState /\ Consistent(sch') /\ sch'.ok = sch.ok
      /\ sch'.status = [sch.status EXCEPT ![child] = "READY"]
  BY <1>1, <1>2, StartLemma
<1>5. SameSleepersBut(child, sch, sch')
  BY <1>1, <1>4 DEF SameSleepersBut, SchedState
<1> QED
  BY <1>1, <1>2, <1>3, <1>4, <1>5, LifeLemma

(* thread_exit keeps the invariant.                                        *)
LEMMA ExitStepLemma ==
  ASSUME IInv, NEW t \in Threads, exit(t)
  PROVE  IInv'
<1>1. /\ sch \in SchedState /\ Consistent(sch)
      /\ pc[t] = "run" /\ t # Idle /\ sch.cur = t
  BY DEF IInv, TypeOK, PcInv, exit, At, Running
<1>2. /\ sch' = thread_exit_self(sch)
      /\ UNCHANGED <<semaVars, lockVars, expecting_intr, old, pc, arg>>
      /\ intr' \in [Threads -> BOOLEAN]
  BY DEF exit, IInv, TypeOK
<1>3. /\ sch' \in SchedState /\ Consistent(sch') /\ sch'.ok = sch.ok
      /\ SameSleepersBut(sch.cur, sch, sch')
  BY <1>1, <1>2, ExitLemma
<1> QED
  BY <1>1, <1>2, <1>3, LifeLemma

-----------------------------------------------------------------------------
(* The invariance of IInv.                                                 *)

(* The invariant is inductive: every step, stuttering included, keeps it.  *)
LEMMA NextLemma == IInv /\ [Next]_vars => IInv'
<1> SUFFICES ASSUME IInv, [Next]_vars PROVE IInv'
  OBVIOUS
<1>1. ASSUME NEW t \in Threads, Step(t) PROVE IInv'
  BY <1>1, SemaDownBlockLemma, SemaDownTakeLemma, SetHolderLemma, SetRepeatLemma,
     ClearRepeatLemma, ReleaseUpLemma DEF Step
<1>2. ASSUME NEW t \in Threads, Client(t) PROVE IInv'
  BY <1>2, LockAcquireLemma, LockReleaseLemma, CmdOutLemma, YieldStepLemma,
     ExitStepLemma, IntrLemma, SpawnLemma DEF Client
<1>3. CASE idle_block \/ idle_hlt
  BY <1>3, IdleLemma
<1>4. CASE timer_interrupt
  BY <1>4, TimerLemma
<1>5. CASE disk_interrupt
  BY <1>5, DiskInterruptLemma
<1>6. CASE UNCHANGED vars
  <2>0. UNCHANGED <<sch, value, waiters, holder, holder_repeat_nr, expecting_intr,
                    intr, old, pc, arg>>
    BY <1>6 DEF vars, semaVars, lockVars
  <2>1. TypeOK' /\ NoPanic' /\ Consistent(sch)'
    BY <2>0 DEF IInv, TypeOK, NoPanic
  <2>2. PcInv'
    BY <2>0 DEF IInv, PcInv
  <2>3. WaitersInv'
    BY <2>0 DEF IInv, WaitersInv
  <2>4. LockInv'
    BY <2>0 DEF IInv, LockInv
  <2>5. MutualExclusion'
    <3>1. \A u \in Threads, l \in Locks : Owns(u, l)' <=> Owns(u, l)
      BY <2>0 DEF Owns
    <3> QED
      BY <2>0, <3>1 DEF IInv, MutualExclusion
  <2>6. DiskInv'
    <3>1. \A u \in Threads : AtDisk(u)' <=> AtDisk(u)
      BY <2>0 DEF AtDisk
    <3> QED
      BY <2>0, <3>1 DEF IInv, DiskInv
  <2>7. NoLostWakeup'
    BY <2>0 DEF IInv, NoLostWakeup
  <2> QED
    BY <2>1, <2>2, <2>3, <2>4, <2>5, <2>6, <2>7 DEF IInv
<1> QED
  BY <1>1, <1>2, <1>3, <1>4, <1>5, <1>6 DEF Next

(* IInv is an invariant of sync.c, of the timer and disk interrupts and of *)
(* the idle task.                                                          *)
THEOREM Invariance == Spec => []IInv
BY InitLemma, NextLemma, PTL DEF Spec

(* The types, with the semaphores of sync.c never above 1 and the nesting  *)
(* count of lock_acquire within its bound.                                 *)
THEOREM TypeCorrect == Spec => []TypeOK
<1>1. IInv => TypeOK
  BY DEF IInv
<1> QED
  BY <1>1, Invariance, PTL

(* No ASSERT of thread.c or sync.c fails.                                  *)
THEOREM NeverPanics == Spec => []NoPanic
<1>1. IInv => NoPanic
  BY DEF IInv
<1> QED
  BY <1>1, Invariance, PTL

(* A task's general_tag is in the list its status says, once.              *)
THEOREM TagsInOneList == Spec => []OneListPerTask
<1>1. IInv => OneListPerTask
  BY DEF IInv, OneListPerTask, WaitersInv
<1> QED
  BY <1>1, Invariance, PTL

(* A lock of sync.c has at most one owner.                                 *)
THEOREM LocksExclude == Spec => []MutualExclusion
<1>1. IInv => MutualExclusion
  BY DEF IInv
<1> QED
  BY <1>1, Invariance, PTL

(* sema_up never leaves a free semaphore with everybody asleep on it.      *)
THEOREM WakeupsArrive == Spec => []NoLostWakeup
<1>1. IInv => NoLostWakeup
  BY DEF IInv
<1> QED
  BY <1>1, Invariance, PTL

(* Only the running task changes holder, and only between itself and NULL. *)
THEOREM HolderIsRunner == Spec => HolderChanges
<1>1. IInv /\ [Next]_vars => [HolderStep]_vars
  <2> SUFFICES ASSUME IInv, Next PROVE HolderStep
    BY DEF vars
  <2>1. ASSUME NEW t \in Threads, set_holder(t) PROVE HolderStep
    <3>1. /\ sch.cur = t /\ pc[t] = "own" /\ holder' = [holder EXCEPT ![arg[t]] = t]
          /\ holder \in [Locks -> Threads \cup {NULL}] /\ LockInv
      BY <2>1 DEF IInv, TypeOK, set_holder, At, Running
    <3>2. holder[arg[t]] = NULL
      BY <3>1 DEF LockInv
    <3>3. \A l \in Locks : holder'[l] = IF l = arg[t] THEN t ELSE holder[l]
      BY <3>1
    <3> QED
      BY <3>1, <3>2, <3>3 DEF HolderStep
  <2>2. ASSUME NEW t \in Threads, NEW l \in Locks, lock_release(t, l) PROVE HolderStep
    <3>1. /\ sch.cur = t /\ holder[l] = t
          /\ holder' = holder \/ holder' = [holder EXCEPT ![l] = NULL]
      BY <2>2 DEF lock_release, At, Running
    <3>2. \A k \in Locks : holder'[k] # holder[k] => k = l /\ holder'[k] = NULL
      BY <3>1 DEF IInv, TypeOK
    <3> QED
      BY <3>1, <3>2 DEF HolderStep
  <2>3. CASE UNCHANGED holder
    BY <2>3 DEF HolderStep
  <2> QED
    <3>1. ASSUME NEW t \in Threads, Step(t), ~set_holder(t) PROVE UNCHANGED holder
      BY <3>1 DEF Step, sema_down_block, sema_down_take, set_repeat, clear_repeat,
         release_up, lockVars
    <3>2. ASSUME NEW t \in Threads, Client(t),
                 \A l \in Locks : ~lock_release(t, l)
          PROVE  UNCHANGED holder
      BY <3>2 DEF Client, lock_acquire, cmd_out, yield, exit, intr_disable, intr_enable,
         spawn, lockVars
    <3>3. ASSUME idle_block \/ idle_hlt \/ timer_interrupt \/ disk_interrupt
          PROVE  UNCHANGED holder
      BY <3>3 DEF idle_block, idle_hlt, timer_interrupt, disk_interrupt, lockVars
    <3> QED
      BY <2>1, <2>2, <2>3, <3>1, <3>2, <3>3 DEF Next
<1> QED
  BY <1>1, Invariance, PTL DEF Spec, HolderChanges
=============================================================================
