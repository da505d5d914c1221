--------------------------- MODULE IoqueueProofs ----------------------------
(***************************************************************************)
(* The inductive invariant of the ring buffer, its lock and the tasks      *)
(* around it, for any number of tasks, any size of the ring, any           *)
(* characters and any priorities.  The proofs about pipes and about the    *)
(* keyboard start from the lemmas of this module, one for each step that   *)
(* Ioqueue describes.                                                      *)
(***************************************************************************)
EXTENDS Ioqueue, ThreadProofs, FiniteSetTheorems

-----------------------------------------------------------------------------
(* The inductive invariant.                                                *)

(* Only idle is in the loop of idle, and a task in a loop of ioq_getchar   *)
(* or ioq_putchar has a byte left to move.                                 *)
PcInv ==
  \A t \in Threads :
    /\ pc[t] \in {"top", "hlt"} <=> t = Idle
    /\ InQueue(t) => left[t] # 0

(* The waiters of the lock are the tasks that sleep in lock_acquire.       *)
WaitersInv ==
  /\ NoDup(waiters)
  /\ \A t \in Threads :
       elem_find(waiters, t) <=> pc[t] = "lock" /\ sch.status[t] = "BLOCKED"

QInv ==
  /\ RingTypeOK /\ NoPanic /\ Consistent(sch)
  /\ PcInv /\ WaitersInv /\ LockInv

-----------------------------------------------------------------------------
(* Positions in the ring.                                                  *)

(* next_pos goes round the ring.                                           *)
LEMMA NextPosLemma ==
  ASSUME NEW pos \in 0..(bufsize - 1)
  PROVE  /\ next_pos(pos) \in 0..(bufsize - 1)
         /\ next_pos(pos) = IF pos = bufsize - 1 THEN 0 ELSE pos + 1
BY BufsizeAssumption DEF next_pos

(* The lengths that ioq_getchar and ioq_putchar see.                       *)
LEMMA LengthLemma ==
  ASSUME head \in 0..(bufsize - 1), tail \in 0..(bufsize - 1)
  PROVE  /\ ioq_length \in 0..(bufsize - 1)
         /\ ioq_length = 0 <=> ioq_empty
         /\ ioq_length = bufsize - 1 <=> ioq_full
BY BufsizeAssumption, NextPosLemma DEF ioq_length, ioq_empty, ioq_full

-----------------------------------------------------------------------------
(* Facts about the state.                                                  *)

(* The task on the processor is RUNNING, hence neither asleep nor in the   *)
(* lists of those who sleep.                                               *)
LEMMA RunnerFacts ==
  ASSUME QInv, NEW t \in Threads, sch.cur = t
  PROVE  /\ sch \in SchedState /\ Consistent(sch)
         /\ sch.status[t] = "RUNNING"
         /\ ~elem_find(waiters, t)
         /\ \A s \in {"producer", "consumer"} : sleeper[s] # t
<1>1. sch \in SchedState /\ Consistent(sch)
  BY DEF QInv, RingTypeOK
<1>2. sch.status[t] = "RUNNING"
  BY <1>1 DEF Consistent, CpuInv
<1> QED
  BY <1>1, <1>2 DEF QInv, WaitersInv, LockInv

(* A step that moves nobody in or out of the two sleeping places, and      *)
(* neither wakes nor puts to sleep a task in them.                         *)
SleepersUntouched ==
  /\ UNCHANGED <<sleeper, lockVars>>
  /\ \A t \in Threads \ {Idle} :
       \/ /\ pc'[t] = pc[t] /\ side'[t] = side[t]
          /\ \/ sch'.status[t] = sch.status[t]
             \/ sch.status[t] \in Awake /\ sch'.status[t] \in Awake
       \/ pc[t] \notin {"lock", "slept"} /\ pc'[t] \notin {"lock", "slept"}

(* Such a step keeps what the invariant says of the lock.                  *)
LEMMA SleepersFrame ==
  ASSUME QInv, SleepersUntouched, PcInv'
  PROVE  WaitersInv' /\ LockInv'
<1> USE DEF SleepersUntouched, lockVars, Awake
<1>1. pc[Idle] \notin {"lock", "slept"} /\ pc'[Idle] \notin {"lock", "slept"}
  BY IdleAssumption DEF QInv, PcInv
<1>2. \A t \in Threads :
        \/ /\ pc'[t] = pc[t] /\ side'[t] = side[t]
           /\ sch'.status[t] = "BLOCKED" <=> sch.status[t] = "BLOCKED"
           /\ sch.status[t] \in Awake => sch'.status[t] \in Awake
        \/ pc[t] \notin {"lock", "slept"} /\ pc'[t] \notin {"lock", "slept"}
  BY <1>1
<1>3. WaitersInv'
  BY <1>2 DEF QInv, WaitersInv
<1>4. \A t \in Threads : (holder = t <=> pc[t] = "slept")'
  BY <1>2 DEF QInv, LockInv
<1>5. \A t \in Threads, s \in {"producer", "consumer"} :
        (sleeper[s] = t <=> pc[t] = "slept" /\ side[t] = s /\ sch.status[t] = "BLOCKED")'
  BY <1>2 DEF QInv, LockInv
<1>6. (waiters # << >> =>
         \/ holder # NULL
         \/ \E t \in Threads : pc[t] = "lock" /\ sch.status[t] \in {"READY", "RUNNING"})'
  BY <1>2 DEF QInv, LockInv
<1> QED
  BY <1>3, <1>4, <1>5, <1>6 DEF LockInv

(* The parts of the invariant put together again.                          *)
LEMMA QInvFrom ==
  ASSUME RingTypeOK', sch'.ok, Consistent(sch'), PcInv', WaitersInv', LockInv'
  PROVE  QInv'
BY DEF QInv, NoPanic

-----------------------------------------------------------------------------
(* The body of the while loop.                                             *)

(* The task on the processor falls asleep.                                 *)
LEMMA BlockStep ==
  ASSUME QInv, NEW t \in Users, sch.cur = t, sch' = thread_block(sch, "BLOCKED")
  PROVE  /\ sch' \in SchedState /\ Consistent(sch') /\ sch'.ok
         /\ sch'.status[t] = "BLOCKED"
         /\ SameSleepersBut(t, sch, sch')
<1>1. sch \in SchedState /\ Consistent(sch) /\ t # Idle /\ sch.ok
  BY RunnerFacts DEF QInv, NoPanic, Users
<1> QED
  BY <1>1, BlockLemma DEF Blocking

(* A task that finds the lock taken joins its waiters.                     *)
LEMMA LockBusyKeeps ==
  ASSUME QInv, NEW t \in Users, lock_busy(t)
  PROVE  QInv'
<1>1. /\ t \in Threads /\ t # Idle /\ sch.ok /\ sch.cur = t
      /\ pc[t] \in {"loop", "lock"} /\ holder # NULL
  BY DEF lock_busy, WantsLock, At, Running, Users
<1>2. /\ sch \in SchedState /\ Consistent(sch) /\ sch.status[t] = "RUNNING"
      /\ ~elem_find(waiters, t)
      /\ \A s \in {"producer", "consumer"} : sleeper[s] # t
  BY <1>1, RunnerFacts
<1>3. sch' = thread_block(sch, "BLOCKED")
  BY <1>2, AssertLemma DEF lock_busy
<1>4. /\ sch' \in SchedState /\ Consistent(sch') /\ sch'.ok
      /\ sch'.status[t] = "BLOCKED"
      /\ \A u \in Threads \ {Idle, t} :
           \/ sch'.status[u] = sch.status[u]
           \/ sch.status[u] \in Awake /\ sch'.status[u] \in Awake
  BY <1>1, <1>3, BlockStep DEF SameSleepersBut
<1>5. /\ pc' = [pc EXCEPT ![t] = "lock"]
      /\ waiters' = list_append(waiters, t)
      /\ UNCHANGED <<head, tail, buf, byte, sleeper, holder, side, left>>
  BY DEF lock_busy, Goto, ringVars, callVars
<1>6. /\ waiters' \in Seq(Threads) /\ NoDup(waiters') /\ waiters' # << >>
      /\ \A x : elem_find(waiters', x) <=> elem_find(waiters, x) \/ x = t
  <2>1. waiters \in Seq(Threads) /\ NoDup(waiters)
    BY DEF QInv, RingTypeOK, WaitersInv
  <2>2. PICK q, p : q = waiters /\ p = waiters'
    OBVIOUS
  <2>3. /\ t \in Threads /\ q \in Seq(Threads) /\ p = list_append(q, t)
        /\ NoDup(q) /\ ~elem_find(q, t)
    BY <1>1, <1>2, <1>5, <2>1, <2>2
  <2>4. /\ p \in Seq(Threads) /\ NoDup(p) /\ p # << >>
        /\ \A x : elem_find(p, x) <=> elem_find(q, x) \/ x = t
    BY <2>3, AppendLemma
  <2> QED
    BY <2>2, <2>4
<1>7. RingTypeOK'
  BY <1>4, <1>5, <1>6 DEF QInv, RingTypeOK, Labels
<1>8. PcInv'
  BY <1>1, <1>5 DEF QInv, PcInv, InQueue, RingTypeOK
<1>9. WaitersInv'
  <2>1. ASSUME NEW u \in Threads
        PROVE  (elem_find(waiters, u) <=> pc[u] = "lock" /\ sch.status[u] = "BLOCKED")'
    <3>1. CASE u = t
      BY <1>1, <1>4, <1>5, <1>6, <3>1 DEF QInv, RingTypeOK
    <3>2. CASE u = Idle
      BY <1>1, <1>5, <1>6, <3>2 DEF QInv, PcInv, WaitersInv, RingTypeOK
    <3>3. CASE u \notin {t, Idle}
      <4>1. sch'.status[u] = "BLOCKED" <=> sch.status[u] = "BLOCKED"
        BY <1>4, <3>3 DEF Awake
      <4>2. elem_find(waiters', u) <=> pc[u] = "lock" /\ sch.status[u] = "BLOCKED"
        BY <1>6, <3>3 DEF QInv, WaitersInv
      <4>3. pc'[u] = pc[u]
        BY <1>5, <3>3 DEF QInv, RingTypeOK
      <4> QED
        BY <4>1, <4>2, <4>3
    <3> QED
      BY <3>1, <3>2, <3>3
  <2> QED
    BY <1>6, <2>1 DEF WaitersInv
<1>10. LockInv'
  <2>1. \A u \in Threads : (holder = u <=> pc[u] = "slept")'
    BY <1>1, <1>5 DEF QInv, LockInv, RingTypeOK
  <2>2. ASSUME NEW u \in Threads, NEW s \in {"producer", "consumer"}
        PROVE (sleeper[s] = u <=> pc[u] = "slept" /\ side[u] = s /\ sch.status[u] = "BLOCKED")'
    <3>1. CASE u \in {t, Idle}
      BY <1>1, <1>2, <1>5, <3>1 DEF QInv, PcInv, LockInv, RingTypeOK
    <3>2. CASE u \notin {t, Idle}
      <4>1. /\ sleeper[s] = u <=> pc[u] = "slept" /\ side[u] = s /\ sch.status[u] = "BLOCKED"
            /\ pc \in [Threads -> Labels]
        BY DEF QInv, LockInv, RingTypeOK
      <4>2. sch'.status[u] = "BLOCKED" <=> sch.status[u] = "BLOCKED"
        BY <1>4, <3>2 DEF Awake
      <4> QED
        BY <1>1, <1>5, <3>2, <4>1, <4>2
    <3> QED
      BY <3>1, <3>2
  <2> QED
    BY <1>1, <1>5, <2>1, <2>2 DEF LockInv
<1> QED
  BY <1>4, <1>7, <1>8, <1>9, <1>10, QInvFrom

(* A task that gets the lock records itself and sleeps; the place it       *)
(* records itself in is free, since a sleeper holds the lock.              *)
LEMMA IoqWaitKeeps ==
  ASSUME QInv, NEW t \in Users, ioq_wait(t)
  PROVE  QInv'
<1>1. /\ t \in Threads /\ t # Idle /\ sch.ok /\ sch.cur = t
      /\ pc[t] \in {"loop", "lock"} /\ holder = NULL
  BY DEF ioq_wait, WantsLock, At, Running, Users
<1>2. sch \in SchedState /\ sch.status[t] = "RUNNING" /\ ~elem_find(waiters, t)
  BY <1>1, RunnerFacts
<1>3. /\ \A u \in Threads : pc[u] # "slept"
      /\ \A s \in {"producer", "consumer"} : sleeper[s] = NULL
      /\ side[t] \in {"producer", "consumer"}
  BY <1>1, NullAssumption DEF QInv, LockInv, RingTypeOK
<1>4. sch' = thread_block(sch, "BLOCKED")
  BY <1>2, <1>3, AssertLemma DEF ioq_wait
<1>5. /\ sch' \in SchedState /\ Consistent(sch') /\ sch'.ok
      /\ sch'.status[t] = "BLOCKED"
      /\ \A u \in Threads \ {Idle, t} :
           \/ sch'.status[u] = sch.status[u]
           \/ sch.status[u] \in Awake /\ sch'.status[u] \in Awake
  BY <1>1, <1>4, BlockStep DEF SameSleepersBut
<1>6. /\ pc' = [pc EXCEPT ![t] = "slept"] /\ holder' = t
      /\ sleeper' = [sleeper EXCEPT ![side[t]] = t]
      /\ UNCHANGED <<head, tail, buf, byte, waiters, side, left>>
  BY DEF ioq_wait, Goto, ringVars, callVars
<1>7. RingTypeOK'
  BY <1>1, <1>3, <1>5, <1>6 DEF QInv, RingTypeOK, Labels
<1>8. PcInv'
  BY <1>1, <1>6 DEF QInv, PcInv, InQueue, RingTypeOK
<1>9. WaitersInv'
  <2>1. WaitersInv /\ PcInv /\ pc \in [Threads -> Labels]
    BY DEF QInv, RingTypeOK
  <2>2. \A u \in Threads \ {Idle, t} :
          pc'[u] = pc[u] /\ (sch'.status[u] = "BLOCKED" <=> sch.status[u] = "BLOCKED")
    BY <1>5, <1>6, <2>1 DEF Awake
  <2>3. pc'[t] = "slept" /\ pc'[Idle] = pc[Idle]
    BY <1>1, <1>6, <2>1
  <2> QED
    BY <1>1, <1>2, <1>6, <2>1, <2>2, <2>3 DEF PcInv, WaitersInv
<1>10. LockInv'
  <2>1. \A u \in Threads : (holder = u <=> pc[u] = "slept")'
    BY <1>1, <1>3, <1>6 DEF QInv, RingTypeOK
  <2>2. ASSUME NEW u \in Threads, NEW s \in {"producer", "consumer"}
        PROVE (sleeper[s] = u <=> pc[u] = "slept" /\ side[u] = s /\ sch.status[u] = "BLOCKED")'
    BY <1>1, <1>3, <1>5, <1>6, NullAssumption DEF QInv, RingTypeOK
  <2> QED
    BY <1>1, <1>6, <2>1, <2>2, NullAssumption DEF LockInv
<1> QED
  BY <1>5, <1>7, <1>8, <1>9, <1>10, QInvFrom

(* The task that was woken gives the lock back and wakes the first waiter. *)
LEMMA LockReleaseKeeps ==
  ASSUME QInv, NEW t \in Users, lock_release(t)
  PROVE  QInv' /\ sch'.cur = sch.cur
<1>1. t \in Threads /\ t # Idle /\ sch.ok /\ sch.cur = t /\ pc[t] = "slept"
  BY DEF lock_release, At, Running, Users
<1>2. sch \in SchedState /\ Consistent(sch) /\ sch.status[t] = "RUNNING"
  BY <1>1, RunnerFacts
<1>3. /\ holder = t /\ \A u \in Threads : pc[u] = "slept" => u = t
      /\ \A s \in {"producer", "consumer"} : sleeper[s] \notin Threads
  BY <1>1, <1>2 DEF QInv, LockInv
<1>4. /\ pc' = [pc EXCEPT ![t] = "loop"] /\ holder' = NULL
      /\ sch' = IF waiters # << >> THEN thread_unblock(sch, Head(waiters)) ELSE sch
      /\ waiters' = IF waiters # << >> THEN Tail(waiters) ELSE waiters
      /\ UNCHANGED <<head, tail, buf, byte, sleeper, side, left>>
  BY <1>2, <1>3, AssertLemma DEF lock_release, Goto, ringVars, callVars
<1>5. PcInv'
  BY <1>1, <1>4 DEF QInv, PcInv, InQueue, RingTypeOK
<1>6. \A u \in Threads : (holder = u <=> pc[u] = "slept")'
  BY <1>1, <1>3, <1>4, NullAssumption DEF QInv, RingTypeOK
<1>7. \A u \in Threads, s \in {"producer", "consumer"} :
        (sleeper[s] = u <=> pc[u] = "slept" /\ side[u] = s /\ sch.status[u] = "BLOCKED")'
  BY <1>1, <1>3, <1>4, <1>6, NullAssumption DEF QInv, RingTypeOK
<1>8. CASE waiters = << >>
  <2>1. RingTypeOK'
    BY <1>4, <1>8 DEF QInv, RingTypeOK, Labels
  <2>2. WaitersInv'
    BY <1>1, <1>2, <1>4, <1>8 DEF QInv, WaitersInv, RingTypeOK
  <2>3. LockInv'
    BY <1>4, <1>6, <1>7, <1>8 DEF LockInv
  <2> QED
    BY <1>2, <1>4, <1>5, <1>8, <2>1, <2>2, <2>3 DEF QInv, NoPanic
<1>9. CASE waiters # << >>
  <2>1. PICK w : w = Head(waiters)
    OBVIOUS
  <2>2. /\ w \in Threads /\ waiters' \in Seq(Threads) /\ NoDup(waiters')
        /\ elem_find(waiters, w)
        /\ \A x : elem_find(waiters', x) <=> elem_find(waiters, x) /\ x # w
    BY <1>4, <1>9, <2>1, PopLemma DEF QInv, WaitersInv, RingTypeOK
  <2>3. pc[w] = "lock" /\ sch.status[w] = "BLOCKED" /\ w # t /\ w # Idle
    BY <1>1, <2>2 DEF QInv, WaitersInv, PcInv
  <2>4. /\ sch' \in SchedState /\ sch'.ok = sch.ok /\ sch'.cur = sch.cur
        /\ sch'.status = [sch.status EXCEPT ![w] = "READY"]
        /\ ReadyListInv(sch')
    BY <1>2, <1>4, <1>9, <2>1, <2>2, <2>3, UnblockLemma DEF Consistent, Blocking
  <2>5. Consistent(sch')
    BY <1>2, <2>2, <2>3, <2>4 DEF Consistent, CpuInv, IdleInv, SchedState
  <2>6. RingTypeOK'
    BY <1>4, <2>2, <2>4 DEF QInv, RingTypeOK, Labels
  <2>7. WaitersInv'
    <3>1. ASSUME NEW u \in Threads
          PROVE  (elem_find(waiters, u) <=> pc[u] = "lock" /\ sch.status[u] = "BLOCKED")'
      <4>1. elem_find(waiters', u) <=> pc[u] = "lock" /\ sch.status[u] = "BLOCKED" /\ u # w
        BY <2>2 DEF QInv, WaitersInv
      <4>2. sch'.status[u] = IF u = w THEN "READY" ELSE sch.status[u]
        BY <1>2, <2>4 DEF SchedState
      <4>3. pc'[u] = IF u = t THEN "loop" ELSE pc[u]
        BY <1>4 DEF QInv, RingTypeOK
      <4> QED
        BY <1>1, <4>1, <4>2, <4>3
    <3> QED
      BY <2>2, <3>1 DEF WaitersInv
  <2>8. pc'[w] = "lock" /\ sch'.status[w] = "READY"
    BY <1>1, <1>2, <1>4, <2>2, <2>3, <2>4 DEF QInv, RingTypeOK, SchedState
  <2>9. LockInv'
    BY <1>6, <1>7, <2>2, <2>8 DEF LockInv
  <2> QED
    BY <1>1, <1>5, <2>4, <2>5, <2>6, <2>7, <2>9, QInvFrom
<1> QED
  BY <1>8, <1>9

-----------------------------------------------------------------------------
(* The ring.                                                               *)

(* No task moves in or out of lock_acquire, ioq_wait and lock_release.     *)
NobodyMoves ==
  \A t \in Threads :
    \/ pc'[t] = pc[t] /\ side'[t] = side[t]
    \/ pc[t] \notin {"lock", "slept"} /\ pc'[t] \notin {"lock", "slept"}

(* wakeup finds its sleeper BLOCKED, makes it READY and forgets it.  The   *)
(* sleeper still holds the lock.                                           *)
LEMMA WakeupKeeps ==
  ASSUME QInv, NEW s \in {"producer", "consumer"}, wakeup(s),
         UNCHANGED lockVars, NobodyMoves
  PROVE  /\ sch' \in SchedState /\ Consistent(sch') /\ sch'.ok
         /\ sch'.cur = sch.cur
         /\ sleeper' \in [{"producer", "consumer"} -> Threads \cup {NULL}]
         /\ WaitersInv' /\ LockInv'
<1>1. /\ sch \in SchedState /\ Consistent(sch) /\ sch.ok
      /\ sleeper \in [{"producer", "consumer"} -> Threads \cup {NULL}]
      /\ waiters' = waiters /\ holder' = holder
      /\ sleeper' = [sleeper EXCEPT ![s] = NULL]
  BY DEF QInv, RingTypeOK, NoPanic, wakeup, lockVars
<1>2. CASE sleeper[s] = NULL
  <2>1. sleeper' = sleeper /\ sch' = sch
    BY <1>1, <1>2 DEF wakeup
  <2>2. WaitersInv'
    BY <1>1, <2>1 DEF QInv, WaitersInv, NobodyMoves
  <2>3. LockInv'
    BY <1>1, <2>1 DEF QInv, LockInv, NobodyMoves
  <2> QED
    BY <1>1, <2>1, <2>2, <2>3
<1>3. CASE sleeper[s] # NULL
  <2>1. PICK w \in Threads : w = sleeper[s]
    BY <1>1, <1>3
  <2>2. pc[w] = "slept" /\ side[w] = s /\ sch.status[w] = "BLOCKED" /\ holder = w
    BY <2>1 DEF QInv, LockInv
  <2>3. /\ sch' \in SchedState /\ sch'.ok = sch.ok /\ sch'.cur = sch.cur
        /\ sch'.status = [sch.status EXCEPT ![w] = "READY"]
        /\ ReadyListInv(sch')
    BY <1>1, <1>3, <2>1, <2>2, UnblockLemma DEF wakeup, Consistent, Blocking
  <2>4. \A u \in Threads : sch'.status[u] = IF u = w THEN "READY" ELSE sch.status[u]
    BY <1>1, <2>3 DEF SchedState
  <2>5. Consistent(sch')
    BY <1>1, <2>2, <2>3, <2>4, IdleAssumption DEF Consistent, CpuInv, IdleInv
  <2>6. WaitersInv'
    BY <1>1, <2>2, <2>4 DEF QInv, WaitersInv, NobodyMoves
  <2>7. \A u \in Threads : (holder = u <=> pc[u] = "slept")'
    BY <1>1 DEF QInv, LockInv, NobodyMoves
  <2>8. \A u \in Threads : pc[u] = "slept" => u = w
    BY <2>2 DEF QInv, LockInv
  <2>9. \A x \in {"producer", "consumer"} : sleeper'[x] \notin Threads
    <3>1. \A x \in {"producer", "consumer"} : sleeper[x] \in Threads => x = s
      BY <2>2, <2>8 DEF QInv, LockInv
    <3> QED
      BY <1>1, <3>1, NullAssumption
  <2>10. \A u \in Threads : pc'[u] = "slept" => sch'.status[u] # "BLOCKED"
    BY <2>4, <2>8 DEF NobodyMoves
  <2>11. LockInv'
    BY <1>1, <2>2, <2>7, <2>9, <2>10, NullAssumption DEF LockInv
  <2> QED
    BY <1>1, <2>3, <2>5, <2>6, <2>11
<1> QED
  BY <1>2, <1>3

(* The effect of ioq_take and of ioq_store on the ring itself.             *)
LEMMA TakeType ==
  ASSUME QInv, ioq_take
  PROVE  /\ head' = head /\ tail' = next_pos(tail) /\ tail' \in 0..(bufsize - 1)
         /\ buf' = buf /\ byte' \in Bytes \cup {NULL}
BY NextPosLemma DEF QInv, RingTypeOK, ioq_take

(* ioq_store moves head by one place and writes one byte.                  *)
LEMMA StoreType ==
  ASSUME QInv, NEW b \in Bytes, ioq_store(b)
  PROVE  /\ head' = next_pos(head) /\ head' \in 0..(bufsize - 1) /\ tail' = tail
         /\ buf' = [buf EXCEPT ![head] = b] /\ byte' = byte
         /\ buf' \in [0..(bufsize - 1) -> Bytes \cup {NULL}]
BY NextPosLemma DEF QInv, RingTypeOK, ioq_store

(* One more byte was moved by the system call of a task in its loop.       *)
LEMMA TurnKeeps ==
  ASSUME QInv, NEW t \in Users, At(t, "loop"), Turn(t)
  PROVE  /\ NobodyMoves /\ PcInv'
         /\ pc' \in [Threads -> Labels] /\ left' \in [Threads -> Nat] /\ side' = side
<1>1. /\ t \in Threads /\ t # Idle /\ pc[t] = "loop" /\ side' = side
      /\ pc' = [pc EXCEPT ![t] = IF left[t] = 1 THEN "user" ELSE "loop"]
      /\ left' = [left EXCEPT ![t] = @ - 1]
      /\ pc \in [Threads -> Labels] /\ left \in [Threads -> Nat]
  BY DEF QInv, RingTypeOK, At, Turn, Goto, Users
<1>2. left[t] \in Nat /\ left[t] # 0
  BY <1>1 DEF QInv, PcInv, InQueue
<1>3. NobodyMoves
  BY <1>1 DEF NobodyMoves
<1>4. PcInv'
  BY <1>1, <1>2 DEF QInv, PcInv, InQueue
<1> QED
  BY <1>1, <1>2, <1>3, <1>4 DEF Labels

(* ioq_getchar, which takes a byte and wakes a sleeping producer.          *)
LEMMA GetcharKeeps ==
  ASSUME QInv, NEW t \in Users, ioq_getchar(t)
  PROVE  QInv' /\ sch'.cur = sch.cur
<1>1. /\ NobodyMoves /\ PcInv'
      /\ pc' \in [Threads -> Labels] /\ left' \in [Threads -> Nat] /\ side' = side
  BY TurnKeeps DEF ioq_getchar
<1>2. /\ head' = head /\ tail' \in 0..(bufsize - 1) /\ buf' = buf
      /\ byte' \in Bytes \cup {NULL} /\ holder' = holder /\ waiters' = waiters
  BY TakeType DEF ioq_getchar, ioq_take, lockVars
<1>3. /\ sch' \in SchedState /\ Consistent(sch') /\ sch'.ok /\ sch'.cur = sch.cur
      /\ sleeper' \in [{"producer", "consumer"} -> Threads \cup {NULL}]
      /\ WaitersInv' /\ LockInv'
  BY <1>1, WakeupKeeps DEF ioq_getchar, ioq_take
<1>4. RingTypeOK'
  BY <1>1, <1>2, <1>3 DEF QInv, RingTypeOK
<1> QED
  BY <1>1, <1>3, <1>4, QInvFrom

(* ioq_putchar, which stores a byte and wakes a sleeping consumer.         *)
LEMMA PutcharKeeps ==
  ASSUME QInv, NEW t \in Users, NEW b \in Bytes, ioq_putchar(t, b)
  PROVE  QInv' /\ sch'.cur = sch.cur
<1>1. /\ NobodyMoves /\ PcInv'
      /\ pc' \in [Threads -> Labels] /\ left' \in [Threads -> Nat] /\ side' = side
  BY TurnKeeps DEF ioq_putchar
<1>2. /\ head' \in 0..(bufsize - 1) /\ tail' = tail /\ byte' = byte
      /\ buf' \in [0..(bufsize - 1) -> Bytes \cup {NULL}]
      /\ holder' = holder /\ waiters' = waiters
  BY StoreType DEF ioq_putchar, ioq_store, lockVars
<1>3. /\ sch' \in SchedState /\ Consistent(sch') /\ sch'.ok /\ sch'.cur = sch.cur
      /\ sleeper' \in [{"producer", "consumer"} -> Threads \cup {NULL}]
      /\ WaitersInv' /\ LockInv'
  BY <1>1, WakeupKeeps DEF ioq_putchar, ioq_store
<1>4. RingTypeOK'
  BY <1>1, <1>2, <1>3 DEF QInv, RingTypeOK
<1> QED
  BY <1>1, <1>3, <1>4, QInvFrom

(* A system call starts: nothing but the place of its task changes.        *)
LEMMA EnterKeeps ==
  ASSUME QInv, NEW t \in Users, NEW s \in {"producer", "consumer"},
         NEW size \in Nat, Enter(t, s, size)
  PROVE  QInv'
<1>1. /\ t \in Threads /\ t # Idle /\ pc[t] = "user"
      /\ side' = [side EXCEPT ![t] = s] /\ left' = [left EXCEPT ![t] = size]
      /\ pc' = [pc EXCEPT ![t] = IF size = 0 THEN "user" ELSE "loop"]
      /\ UNCHANGED <<sch, head, tail, buf, byte, sleeper, holder, waiters>>
      /\ pc \in [Threads -> Labels]
  BY DEF Enter, At, Goto, Users, ringVars, lockVars, QInv, RingTypeOK
<1>2. RingTypeOK'
  BY <1>1 DEF QInv, RingTypeOK, Labels
<1>3. PcInv'
  BY <1>1 DEF QInv, RingTypeOK, PcInv, InQueue
<1>4. SleepersUntouched
  BY <1>1 DEF SleepersUntouched, lockVars, QInv, RingTypeOK
<1>5. WaitersInv' /\ LockInv'
  BY <1>3, <1>4, SleepersFrame
<1> QED
  BY <1>1, <1>2, <1>3, <1>5 DEF QInv, NoPanic

-----------------------------------------------------------------------------
(* The rest of the system.                                                 *)

(* wake_hlt moves nobody but idle.                                         *)
LEMMA WakeHltFacts ==
  ASSUME QInv, wake_hlt, UNCHANGED callVars
  PROVE  /\ pc' \in [Threads -> Labels] /\ PcInv' /\ NobodyMoves
         /\ \A t \in Threads \ {Idle} : pc'[t] = pc[t]
         /\ side' = side /\ left' = left
<1>1. /\ pc \in [Threads -> Labels] /\ side' = side /\ left' = left
      /\ pc' = [pc EXCEPT ![Idle] = IF sch.cur = Idle /\ pc[Idle] = "hlt"
                                    THEN "top" ELSE pc[Idle]]
  BY DEF QInv, RingTypeOK, wake_hlt, callVars
<1>2. pc[Idle] \in {"top", "hlt"} /\ pc'[Idle] \in {"top", "hlt"}
  BY <1>1, IdleAssumption DEF QInv, PcInv
<1>3. \A t \in Threads \ {Idle} : pc'[t] = pc[t]
  BY <1>1
<1>4. pc' \in [Threads -> Labels]
  BY <1>1 DEF Labels
<1>5. PcInv'
  BY <1>1, <1>2, <1>3 DEF QInv, PcInv, InQueue
<1> QED
  BY <1>1, <1>2, <1>3, <1>4, <1>5 DEF NobodyMoves

(* A step of the scheduler that puts nobody to sleep and wakes nobody.     *)
LEMMA QuietKeeps ==
  ASSUME QInv, wake_hlt, UNCHANGED <<ringVars, sleeper, lockVars, callVars>>,
         sch' \in SchedState, Consistent(sch'), sch'.ok, SameSleepers(sch, sch')
  PROVE  QInv'
<1>1. UNCHANGED <<head, tail, buf, byte, sleeper, holder, waiters>> /\ UNCHANGED callVars
  BY DEF ringVars, lockVars
<1>2. /\ pc' \in [Threads -> Labels] /\ PcInv' /\ side' = side /\ left' = left
      /\ \A t \in Threads \ {Idle} : pc'[t] = pc[t]
  BY <1>1, WakeHltFacts
<1>3. RingTypeOK'
  BY <1>1, <1>2 DEF QInv, RingTypeOK
<1>4. SleepersUntouched
  BY <1>1, <1>2 DEF SleepersUntouched, SameSleepers, lockVars
<1>5. WaitersInv' /\ LockInv'
  BY <1>2, <1>4, SleepersFrame
<1> QED
  BY <1>2, <1>3, <1>5, QInvFrom

(* A timer interrupt, which may give the processor to another task.        *)
LEMMA TimerKeeps ==
  ASSUME QInv, timer_interrupt
  PROVE  QInv'
<1>1. sch \in SchedState /\ Consistent(sch) /\ sch.ok /\ sch' = timer_tick(sch)
  BY DEF QInv, RingTypeOK, NoPanic, timer_interrupt
<1>2. sch' \in SchedState /\ Consistent(sch') /\ sch'.ok /\ SameSleepers(sch, sch')
  BY <1>1, TickLemma
<1> QED
  BY <1>2, QuietKeeps DEF timer_interrupt

(* A task blocks in another system call.                                   *)
LEMMA IoWaitKeeps ==
  ASSUME QInv, NEW t \in Users, io_wait(t)
  PROVE  QInv'
<1>1. /\ t \in Threads /\ t # Idle /\ pc[t] = "user" /\ sch.cur = t
      /\ sch' = thread_block(sch, "BLOCKED") /\ pc' = [pc EXCEPT ![t] = "io"]
      /\ UNCHANGED <<head, tail, buf, byte, sleeper, holder, waiters, side, left>>
      /\ pc \in [Threads -> Labels]
  BY DEF io_wait, At, Running, Goto, Users, ringVars, lockVars, callVars, QInv, RingTypeOK
<1>2. /\ sch' \in SchedState /\ Consistent(sch') /\ sch'.ok
      /\ SameSleepersBut(t, sch, sch')
  BY <1>1, BlockStep
<1>3. RingTypeOK'
  BY <1>1, <1>2 DEF QInv, RingTypeOK, Labels
<1>4. PcInv'
  BY <1>1 DEF QInv, PcInv, InQueue
<1>5. SleepersUntouched
  BY <1>1, <1>2 DEF SleepersUntouched, SameSleepersBut, lockVars
<1>6. WaitersInv' /\ LockInv'
  BY <1>4, <1>5, SleepersFrame
<1> QED
  BY <1>2, <1>3, <1>4, <1>6, QInvFrom

(* The interrupt that ends the wait of such a task.                        *)
LEMMA IoDoneKeeps ==
  ASSUME QInv, NEW t \in Users, io_done(t)
  PROVE  QInv'
<1>1. /\ t \in Threads /\ t # Idle /\ pc[t] = "io" /\ sch.status[t] = "BLOCKED"
      /\ sch' = thread_unblock(sch, t) /\ wake_hlt /\ UNCHANGED callVars
      /\ UNCHANGED <<head, tail, buf, byte, sleeper, holder, waiters>>
      /\ sch \in SchedState /\ Consistent(sch) /\ sch.ok
  <2>1. sch \in SchedState /\ Consistent(sch) /\ sch.ok
    BY DEF QInv, RingTypeOK, NoPanic
  <2> QED
    BY <2>1 DEF io_done, Users, ringVars, lockVars
<1>2. /\ sch' \in SchedState /\ sch'.ok /\ sch'.cur = sch.cur
      /\ sch'.status = [sch.status EXCEPT ![t] = "READY"] /\ ReadyListInv(sch')
  <2>1. ReadyListInv(sch) /\ sch.status[t] \in Blocking
    BY <1>1 DEF Consistent, Blocking
  <2> QED
    BY <1>1, <2>1, UnblockLemma
<1>3. Consistent(sch')
  <2>1. DOMAIN sch.status = Threads
    BY <1>1 DEF SchedState
  <2>2. \A u \in Threads : sch'.status[u] = IF u = t THEN "READY" ELSE sch.status[u]
    BY <1>1, <1>2, <2>1
  <2>3. CpuInv(sch')
    BY <1>1, <1>2, <2>2 DEF Consistent, CpuInv
  <2>4. IdleInv(sch')
    BY <1>1, <1>2, <2>2, IdleAssumption DEF Consistent, IdleInv
  <2> QED
    BY <1>1, <1>2, <2>3, <2>4 DEF Consistent
<1>4. /\ pc' \in [Threads -> Labels] /\ PcInv' /\ side' = side /\ left' = left
      /\ \A u \in Threads \ {Idle} : pc'[u] = pc[u]
  BY <1>1, WakeHltFacts
<1>5. RingTypeOK'
  BY <1>1, <1>2, <1>4 DEF QInv, RingTypeOK
<1>6. SleepersUntouched
  <2>1. DOMAIN sch.status = Threads
    BY <1>1 DEF SchedState
  <2>2. \A u \in Threads : sch'.status[u] = IF u = t THEN "READY" ELSE sch.status[u]
    BY <1>1, <1>2, <2>1
  <2> QED
    BY <1>1, <1>4, <2>2 DEF SleepersUntouched, lockVars
<1>7. WaitersInv' /\ LockInv'
  BY <1>4, <1>6, SleepersFrame
<1> QED
  BY <1>2, <1>3, <1>4, <1>5, <1>7, QInvFrom

(* Such a task returns to user mode.                                       *)
LEMMA IoReturnKeeps ==
  ASSUME QInv, NEW t \in Users, io_return(t)
  PROVE  QInv' /\ sch' = sch
<1>1. /\ t \in Threads /\ t # Idle /\ pc[t] = "io" /\ pc' = [pc EXCEPT ![t] = "user"]
      /\ UNCHANGED <<sch, head, tail, buf, byte, sleeper, holder, waiters, side, left>>
      /\ pc \in [Threads -> Labels]
  BY DEF io_return, At, Goto, Users, ringVars, lockVars, callVars, QInv, RingTypeOK
<1>2. RingTypeOK'
  BY <1>1 DEF QInv, RingTypeOK, Labels
<1>3. PcInv'
  BY <1>1 DEF QInv, PcInv, InQueue
<1>4. SleepersUntouched
  BY <1>1 DEF SleepersUntouched, lockVars
<1>5. WaitersInv' /\ LockInv'
  BY <1>3, <1>4, SleepersFrame
<1> QED
  BY <1>1, <1>2, <1>3, <1>5 DEF QInv, NoPanic

(* idle blocks itself before it halts.                                     *)
LEMMA IdleKeeps ==
  ASSUME QInv, idle
  PROVE  QInv'
<1>1. /\ pc[Idle] = "top" /\ sch.cur = Idle
      /\ sch' = thread_block(sch, "BLOCKED") /\ pc' = [pc EXCEPT ![Idle] = "hlt"]
      /\ UNCHANGED <<head, tail, buf, byte, sleeper, holder, waiters, side, left>>
      /\ pc \in [Threads -> Labels] /\ sch \in SchedState /\ Consistent(sch) /\ sch.ok
  BY DEF idle, At, Running, Goto, ringVars, lockVars, callVars, QInv, RingTypeOK, NoPanic
<1>2. /\ sch' \in SchedState /\ Consistent(sch') /\ sch'.ok
      /\ SameSleepersBut(Idle, sch, sch')
  BY <1>1, BlockLemma DEF Blocking
<1>3. RingTypeOK'
  BY <1>1, <1>2 DEF QInv, RingTypeOK, Labels
<1>4. PcInv'
  BY <1>1, IdleAssumption DEF QInv, PcInv, InQueue
<1>5. SleepersUntouched
  BY <1>1, <1>2 DEF SleepersUntouched, SameSleepersBut, lockVars
<1>6. WaitersInv' /\ LockInv'
  BY <1>4, <1>5, SleepersFrame
<1> QED
  BY <1>2, <1>3, <1>4, <1>6, QInvFrom

(* Every step of the queue keeps the invariant.                            *)
LEMMA QueueStepKeeps ==
  ASSUME QInv, QueueNext
  PROVE  QInv'
<1>1. ASSUME NEW t \in Users, Kernel(t) PROVE QInv'
  BY <1>1, GetcharKeeps, PutcharKeeps, LockBusyKeeps, IoqWaitKeeps, LockReleaseKeeps,
     IoReturnKeeps DEF Kernel
<1>2. ASSUME Environment PROVE QInv'
  BY <1>2, TimerKeeps, IoWaitKeeps, IoDoneKeeps DEF Environment
<1> QED
  BY <1>1, <1>2, IdleKeeps DEF QueueNext

(* A step that leaves the queue and its tasks alone.                       *)
LEMMA QueueStutterKeeps ==
  ASSUME QInv, UNCHANGED queueVars
  PROVE  QInv'
<1>1. UNCHANGED <<sch, head, tail, buf, byte, sleeper, holder, waiters, pc, side, left>>
  BY DEF queueVars, ringVars, lockVars, callVars
<1>2. RingTypeOK' /\ NoPanic' /\ Consistent(sch)'
  BY <1>1 DEF QInv, RingTypeOK, NoPanic
<1>3. PcInv'
  BY <1>1 DEF QInv, PcInv, InQueue
<1>4. WaitersInv' /\ LockInv'
  BY <1>1 DEF QInv, WaitersInv, LockInv
<1> QED
  BY <1>2, <1>3, <1>4 DEF QInv

-----------------------------------------------------------------------------
(* A list of as many different tasks as there are holds them all.          *)
LEMMA FullListLemma ==
  ASSUME NEW S, IsFiniteSet(S), NEW q \in [1..Cardinality(S) -> S], NoDup(q)
  PROVE  q \in Seq(S) /\ \A x \in S : elem_find(q, x)
<1> DEFINE n == Cardinality(S)
<1>1. n \in Nat
  BY FS_CardinalityType
<1> HIDE DEF n
<1>2. q \in [1..n -> S]
  BY DEF n
<1>3. q \in Seq(S) /\ Len(q) = n
  BY <1>1, <1>2
<1>4. q \in Injection(1..n, S)
  BY <1>1, <1>2, <1>3 DEF NoDup, Injection, IsInjective
<1>5. Cardinality(1..n) = n
  BY <1>1, FS_Interval
<1>6. q \in Surjection(1..n, S)
  BY <1>4, <1>5, FS_Injection DEF n
<1> QED
  BY <1>3, <1>6 DEF Surjection, elem_find

(* The state at start-up.                                                  *)
LEMMA QInvInit ==
  ASSUME ioqueue_init
  PROVE  QInv
<1>1. PICK q \in [1..Cardinality(Users) -> Users] :
        /\ NoDup(q)
        /\ sch = [cur    |-> Idle,
                  status |-> [t \in Threads |-> IF t = Idle THEN "RUNNING" ELSE "READY"],
                  ready  |-> q,
                  ticks  |-> priority,
                  ok     |-> TRUE]
  BY DEF ioqueue_init
<1>2. IsFiniteSet(Users) /\ Users \subseteq Threads
  BY FiniteAssumption, FS_Subset DEF Users
<1>3. q \in Seq(Users) /\ \A x \in Users : elem_find(q, x)
  BY <1>1, <1>2, FullListLemma
<1>4. q \in Seq(Threads) /\ \A x \in Threads : elem_find(q, x) <=> x # Idle
  <2>1. q \in Seq(Threads)
    BY <1>2, <1>3, SeqMonotonic
  <2>2. \A i \in 1..Len(q) : q[i] \in Users
    BY <1>3, ElementOfSeq
  <2> QED
    BY <1>3, <2>1, <2>2 DEF Users, elem_find
<1>5. /\ sch.cur = Idle /\ sch.ready = q /\ sch.ticks = priority /\ sch.ok
      /\ sch.status = [t \in Threads |-> IF t = Idle THEN "RUNNING" ELSE "READY"]
  BY <1>1
<1>6. sch \in SchedState
  BY <1>1, <1>4, IdleAssumption, PriorityAssumption DEF SchedState, TaskStatus
<1>7. Consistent(sch)
  BY <1>1, <1>4, <1>5, IdleAssumption DEF Consistent, ReadyListInv, CpuInv, IdleInv
<1>8. /\ head = 0 /\ tail = 0 /\ buf \in [0..(bufsize - 1) -> {NULL}]
      /\ sleeper = [s \in {"producer", "consumer"} |-> NULL]
      /\ holder = NULL /\ waiters = << >>
      /\ pc = [t \in Threads |-> IF t = Idle THEN "top" ELSE "user"]
      /\ side = [t \in Threads |-> "consumer"]
      /\ left = [t \in Threads |-> 0]
      /\ byte = NULL
  BY DEF ioqueue_init
<1>9. RingTypeOK
  BY <1>6, <1>8, BufsizeAssumption DEF RingTypeOK, Labels
<1>10. PcInv /\ WaitersInv
  BY <1>8, EmptyLemma DEF PcInv, WaitersInv, InQueue
<1>11. LockInv
  BY <1>8, NullAssumption DEF LockInv
<1> QED
  BY <1>5, <1>7, <1>9, <1>10, <1>11 DEF QInv, NoPanic

-----------------------------------------------------------------------------
(* The ring as a sequence.                                                 *)

(* Where the i-th byte of the ring is.                                     *)
LEMMA PlaceLemma ==
  ASSUME tail \in 0..(bufsize - 1), NEW i \in 1..bufsize
  PROVE  /\ (tail + i - 1) % bufsize \in 0..(bufsize - 1)
         /\ (tail + i - 1) % bufsize =
              IF tail + i - 1 < bufsize THEN tail + i - 1 ELSE tail + i - 1 - bufsize
BY BufsizeAssumption

(* Contents is a sequence of ioq_length bytes.                             *)
ContentsOK ==
  /\ ioq_length \in 0..(bufsize - 1)
  /\ Contents \in Seq(Bytes \cup {NULL}) /\ Len(Contents) = ioq_length
  /\ \A i \in 1..ioq_length : Contents[i] = buf[(tail + i - 1) % bufsize]

(* It is so in every state of the right type.                              *)
LEMMA ContentsType == RingTypeOK => ContentsOK
<1> SUFFICES ASSUME RingTypeOK PROVE ContentsOK
  OBVIOUS
<1>1. ioq_length \in 0..(bufsize - 1)
  BY LengthLemma DEF RingTypeOK
<1>2. \A i \in 1..ioq_length : buf[(tail + i - 1) % bufsize] \in Bytes \cup {NULL}
  <2> TAKE i \in 1..ioq_length
  <2>1. i \in 1..bufsize
    BY <1>1, BufsizeAssumption
  <2> QED
    BY <2>1, PlaceLemma DEF RingTypeOK
<1> HIDE DEF ioq_length
<1> QED
  BY <1>1, <1>2, BufsizeAssumption DEF ContentsOK, Contents

(* ioq_take removes the first byte.                                        *)
LEMMA TakeContents ==
  ASSUME QInv, RingTypeOK', ioq_take
  PROVE  /\ Contents # << >> /\ byte' = Head(Contents) /\ Contents' = Tail(Contents)
         /\ ioq_length' = ioq_length - 1
<1> DEFINE n == ioq_length
           m == ioq_length'
<1>1. /\ head \in 0..(bufsize - 1) /\ tail \in 0..(bufsize - 1) /\ head # tail
      /\ head' = head /\ tail' = next_pos(tail) /\ tail' \in 0..(bufsize - 1)
      /\ buf' = buf /\ byte' = buf[tail] /\ RingTypeOK
  BY TakeType DEF QInv, RingTypeOK, ioq_take, ioq_empty
<1>2. n \in 1..(bufsize - 1)
  BY <1>1, LengthLemma, BufsizeAssumption DEF ioq_empty
<1>3. m = n - 1
  BY <1>1, NextPosLemma, BufsizeAssumption DEF ioq_length
<1>4. /\ Contents \in Seq(Bytes \cup {NULL}) /\ Len(Contents) = n
      /\ \A i \in 1..n : Contents[i] = buf[(tail + i - 1) % bufsize]
  BY <1>1, ContentsType DEF ContentsOK
<1>5. /\ Contents' \in Seq(Bytes \cup {NULL}) /\ Len(Contents') = m
      /\ \A i \in 1..m : Contents'[i] = buf[(tail' + i - 1) % bufsize]
  <2>1. ContentsOK'
    BY ContentsType, PTL
  <2> QED
    BY <1>1, <2>1 DEF ContentsOK
<1> HIDE DEF n, m
<1>6. \A i \in 1..m : (tail' + i - 1) % bufsize = (tail + (i + 1) - 1) % bufsize
  <2> TAKE i \in 1..m
  <2>1. i \in 1..bufsize /\ i + 1 \in 1..bufsize
    BY <1>2, <1>3, BufsizeAssumption
  <2>2. (tail + (i + 1) - 1) % bufsize =
          IF tail + i < bufsize THEN tail + i ELSE tail + i - bufsize
    BY <1>1, <2>1, BufsizeAssumption
  <2>3. (tail' + i - 1) % bufsize =
          IF tail' + i - 1 < bufsize THEN tail' + i - 1 ELSE tail' + i - 1 - bufsize
    BY <1>1, <2>1, BufsizeAssumption
  <2>4. tail' = IF tail = bufsize - 1 THEN 0 ELSE tail + 1
    BY <1>1, NextPosLemma
  <2> QED
    BY <1>1, <1>2, <1>3, <2>1, <2>2, <2>3, <2>4, BufsizeAssumption
<1>7. Contents # << >> /\ Head(Contents) = buf[tail]
  <2>1. (tail + 1 - 1) % bufsize = tail
    BY <1>1, BufsizeAssumption
  <2>2. Head(Contents) = Contents[1] /\ Contents # << >>
    BY <1>2, <1>4
  <2> QED
    BY <1>2, <1>4, <2>1, <2>2
<1>8. Contents' = Tail(Contents)
  <2>1. /\ Tail(Contents) \in Seq(Bytes \cup {NULL}) /\ Len(Tail(Contents)) = n - 1
        /\ \A i \in 1..(n - 1) : Tail(Contents)[i] = Contents[i + 1]
    BY <1>2, <1>4, <1>7
  <2>2. \A i \in 1..m : Contents'[i] = Tail(Contents)[i]
    BY <1>2, <1>3, <1>4, <1>5, <1>6, <2>1
  <2> QED
    BY <1>3, <1>5, <2>1, <2>2, SeqEqual
<1> QED
  BY <1>1, <1>3, <1>7, <1>8 DEF n, m

(* ioq_store adds a byte at the end, as long as there is room.             *)
LEMMA StoreContents ==
  ASSUME QInv, RingTypeOK', NEW b \in Bytes, ioq_store(b)
  PROVE  /\ Len(Contents) < bufsize - 1 /\ byte' = byte
         /\ Contents' = Append(Contents, b)
         /\ ioq_length' = ioq_length + 1
<1> DEFINE n == ioq_length
           m == ioq_length'
<1>1. /\ head \in 0..(bufsize - 1) /\ tail \in 0..(bufsize - 1) /\ ~ioq_full
      /\ head' = next_pos(head) /\ head' \in 0..(bufsize - 1) /\ tail' = tail
      /\ buf' = [buf EXCEPT ![head] = b] /\ byte' = byte /\ RingTypeOK
  BY StoreType DEF QInv, RingTypeOK, ioq_store
<1>2. n \in 0..(bufsize - 2)
  BY <1>1, LengthLemma, BufsizeAssumption
<1>3. m = n + 1
  BY <1>1, NextPosLemma, BufsizeAssumption DEF ioq_length, ioq_full
<1>4. head = IF tail + n < bufsize THEN tail + n ELSE tail + n - bufsize
  BY <1>1, BufsizeAssumption DEF ioq_length
<1>5. /\ Contents \in Seq(Bytes \cup {NULL}) /\ Len(Contents) = n
      /\ \A i \in 1..n : Contents[i] = buf[(tail + i - 1) % bufsize]
  BY <1>1, ContentsType DEF ContentsOK
<1>6. /\ Contents' \in Seq(Bytes \cup {NULL}) /\ Len(Contents') = m
      /\ \A i \in 1..m : Contents'[i] = buf'[(tail + i - 1) % bufsize]
  <2>1. ContentsOK'
    BY ContentsType, PTL
  <2> QED
    BY <1>1, <2>1 DEF ContentsOK
<1> HIDE DEF n, m
<1>7. \A i \in 1..n : Contents'[i] = Contents[i]
  <2> TAKE i \in 1..n
  <2>1. i \in 1..bufsize /\ i \in 1..m
    BY <1>2, <1>3, BufsizeAssumption
  <2>2. (tail + i - 1) % bufsize # head /\ (tail + i - 1) % bufsize \in 0..(bufsize - 1)
    BY <1>1, <1>2, <1>4, <2>1, PlaceLemma, BufsizeAssumption
  <2> QED
    BY <1>1, <1>5, <1>6, <2>1, <2>2 DEF RingTypeOK
<1>8. Contents'[m] = b
  <2>1. m \in 1..bufsize /\ m \in 1..m
    BY <1>2, <1>3, BufsizeAssumption
  <2>2. (tail + m - 1) % bufsize = head
    BY <1>1, <1>2, <1>3, <1>4, <2>1, PlaceLemma, BufsizeAssumption
  <2> QED
    BY <1>1, <1>6, <2>1, <2>2 DEF RingTypeOK
<1>9. Contents' = Append(Contents, b)
  <2>1. /\ Append(Contents, b) \in Seq(Bytes \cup {NULL})
        /\ Len(Append(Contents, b)) = n + 1
        /\ \A i \in 1..n : Append(Contents, b)[i] = Contents[i]
        /\ Append(Contents, b)[n + 1] = b
    BY <1>2, <1>5
  <2>2. \A i \in 1..m : Contents'[i] = Append(Contents, b)[i]
    BY <1>2, <1>3, <1>7, <1>8, <2>1
  <2> QED
    BY <1>3, <1>6, <2>1, <2>2, SeqEqual
<1> QED
  BY <1>1, <1>2, <1>3, <1>5, <1>9, BufsizeAssumption DEF n, m

(* A step of ioq_getchar or ioq_putchar is a step of the abstract queue.   *)
LEMMA TakeRefines ==
  ASSUME QInv, QInv', ioq_take
  PROVE  AbstractFifo!Next
<1>1. Contents # << >> /\ byte' = Head(Contents) /\ Contents' = Tail(Contents)
  BY TakeContents DEF QInv
<1> QED
  BY <1>1 DEF AbstractFifo!Next, AbstractFifo!Get

(* ioq_store is Put of the abstract queue.                                 *)
LEMMA StoreRefines ==
  ASSUME QInv, QInv', NEW b \in Bytes, ioq_store(b)
  PROVE  AbstractFifo!Next
<1>1. /\ Len(Contents) < bufsize - 1 /\ byte' = byte /\ Contents' = Append(Contents, b)
  BY StoreContents DEF QInv
<1> QED
  BY <1>1 DEF AbstractFifo!Next, AbstractFifo!Put

(* A step that leaves the ring alone leaves the abstract queue alone.      *)
LEMMA RingUntouched ==
  ASSUME UNCHANGED ringVars
  PROVE  UNCHANGED <<Contents, byte>>
BY DEF ringVars, Contents, ioq_length

(* Every step of the queue is a step of the abstract queue or none.        *)
LEMMA QueueStepRefines ==
  ASSUME QInv, QInv', QueueNext
  PROVE  [AbstractFifo!Next]_<<Contents, byte>>
<1>1. ASSUME NEW t \in Users, Kernel(t) PROVE AbstractFifo!Next \/ UNCHANGED ringVars
  BY <1>1, TakeRefines, StoreRefines
  DEF Kernel, ioq_getchar, ioq_putchar, lock_busy, ioq_wait, lock_release, io_return
<1>2. ASSUME idle \/ Environment PROVE UNCHANGED ringVars
  BY <1>2 DEF idle, Environment, timer_interrupt, io_wait, io_done
<1> QED
  BY <1>1, <1>2, RingUntouched DEF QueueNext

(* After ioqueue_init the abstract queue is empty.                         *)
LEMMA InitRefines ==
  ASSUME ioqueue_init
  PROVE  AbstractFifo!Init
<1>1. ioq_length = 0 /\ byte = NULL
  BY DEF ioqueue_init, ioq_length
<1>2. Contents = << >>
  BY <1>1 DEF Contents
<1> QED
  BY <1>1, <1>2 DEF AbstractFifo!Init

(* Only Enter brings a task into the loops of ioq_getchar and ioq_putchar. *)
LEMMA NoNewcomer ==
  ASSUME QInv, QueueNext, NEW u \in Threads, InQueue(u)'
  PROVE  InQueue(u) /\ side'[u] = side[u]
<1>0. pc \in [Threads -> Labels] /\ Idle \in Threads /\ pc[Idle] \in {"top", "hlt"}
  BY IdleAssumption DEF QInv, RingTypeOK, PcInv
<1>1. ASSUME NEW t \in Users, Kernel(t) PROVE InQueue(u) /\ side'[u] = side[u]
  <2>1. pc'[u] = pc[u] \/ u = t
    BY <1>0, <1>1
    DEF Kernel, ioq_getchar, ioq_putchar, lock_busy, ioq_wait, lock_release, io_return,
        Turn, Goto
  <2>2. u = t => InQueue(u)
    BY <1>0, <1>1
    DEF Kernel, ioq_getchar, ioq_putchar, lock_busy, ioq_wait, lock_release, io_return,
        Turn, Goto, InQueue, At, WantsLock
  <2>3. side' = side
    BY <1>1
    DEF Kernel, ioq_getchar, ioq_putchar, lock_busy, ioq_wait, lock_release, io_return,
        Turn, callVars
  <2> QED
    BY <2>1, <2>2, <2>3 DEF InQueue
<1>2. ASSUME idle \/ Environment PROVE InQueue(u) /\ side'[u] = side[u]
  <2>1. pc'[u] = pc[u] \/ ~InQueue(u)'
    BY <1>0, <1>2
    DEF idle, Environment, timer_interrupt, io_wait, io_done, wake_hlt, Goto, InQueue
  <2>2. side' = side
    BY <1>2 DEF idle, Environment, timer_interrupt, io_wait, io_done, callVars
  <2> QED
    BY <2>1, <2>2 DEF InQueue
<1> QED
  BY <1>1, <1>2 DEF QueueNext
=============================================================================
