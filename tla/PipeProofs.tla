----------------------------- MODULE PipeProofs -----------------------------
(***************************************************************************)
(* What Pipe promises, for any number of readers and writers, any size of  *)
(* the ring and calls of any size.                                         *)
(***************************************************************************)
EXTENDS Pipe, IoqueueProofs

(* The invariant bounds the length of the ring.                            *)
LEMMA RingFacts ==
  ASSUME QInv
  PROVE  /\ ioq_length \in Nat /\ ioq_length <= bufsize - 1
         /\ ioq_length = 0 <=> ioq_empty
<1>1. head \in 0..(bufsize - 1) /\ tail \in 0..(bufsize - 1)
  BY DEF QInv, RingTypeOK
<1> QED
  BY <1>1, LengthLemma, BufsizeAssumption

(* What pipe_read asks for is there.                                       *)
LEMMA ReadEnters ==
  ASSUME QInv, NEW t \in Readers, Read(t)
  PROVE  \E size \in Nat : size <= ioq_length /\ Enter(t, "consumer", size)
<1>1. PICK n \in 1..MaxCount :
        Enter(t, "consumer", IF ioq_length > n THEN n ELSE ioq_length)
  BY DEF Read, pipe_read
<1>2. ioq_length \in Nat /\ n \in Nat
  BY LengthLemma, CountAssumption, BufsizeAssumption DEF QInv, RingTypeOK
<1> DEFINE size == IF ioq_length > n THEN n ELSE ioq_length
<1>3. size \in Nat /\ size <= ioq_length
  BY <1>2
<1> QED
  BY <1>1, <1>3

(* There is room for one byte less than pipe_write counts.                 *)
LEMMA WriteEnters ==
  ASSUME QInv, NEW t \in Writers, Write(t)
  PROVE  \E size \in Nat : Enter(t, "producer", size)
<1> DEFINE room == bufsize - ioq_length
<1>1. PICK n \in 1..MaxCount : Enter(t, "producer", IF room > n THEN n ELSE room)
  BY DEF Write, pipe_write
<1>2. room \in Nat /\ n \in Nat
  BY LengthLemma, CountAssumption, BufsizeAssumption DEF QInv, RingTypeOK
<1> DEFINE size == IF room > n THEN n ELSE room
<1>3. size \in Nat
  BY <1>2
<1> QED
  BY <1>1, <1>3

(* A step of the pipe keeps the invariant of the ring.                     *)
LEMMA StepKeepsQInv ==
  ASSUME QInv, [Next]_queueVars
  PROVE  QInv'
<1>1. ASSUME NEW t \in Readers, Read(t) PROVE QInv'
  BY <1>1, ReadEnters, EnterKeeps, RolesAssumption DEF Users
<1>2. ASSUME NEW t \in Writers, Write(t) PROVE QInv'
  BY <1>2, WriteEnters, EnterKeeps, RolesAssumption DEF Users
<1> QED
  BY <1>1, <1>2, QueueStepKeeps, QueueStutterKeeps DEF Next

(* The invariant of the ring, its lock and the tasks around it.            *)
THEOREM PipeInvariance == Spec => []QInv
<1>1. Init => QInv
  BY QInvInit DEF Init
<1>2. QInv /\ [Next]_queueVars => QInv'
  BY StepKeepsQInv
<1> QED
  BY <1>1, <1>2, PTL DEF Spec

(* No ASSERT of ioqueue.c, of its lock or of the scheduler fails while     *)
(* tasks read from and write to a pipe.                                    *)
THEOREM PipeNeverPanics == Spec => []NoPanic
<1>1. QInv => NoPanic
  BY DEF QInv
<1> QED
  BY <1>1, PipeInvariance, PTL

(* The lock of a pipe is never lost: its holder is asleep where it         *)
(* recorded itself or was woken, and those who queue for a free lock       *)
(* include one that was woken.                                             *)
THEOREM PipeLockKept == Spec => []LockInv
<1>1. QInv => LockInv
  BY DEF QInv
<1> QED
  BY <1>1, PipeInvariance, PTL

(* The ring of a pipe is a first-in, first-out queue.                      *)
THEOREM PipeIsFifo == Spec => ImplementsFifo
<1>1. Init => AbstractFifo!Init
  BY InitRefines DEF Init
<1>2. QInv /\ QInv' /\ [Next]_queueVars => [AbstractFifo!Next]_<<Contents, byte>>
  <2> SUFFICES ASSUME QInv, QInv', [Next]_queueVars
               PROVE  [AbstractFifo!Next]_<<Contents, byte>>
    OBVIOUS
  <2>1. ASSUME (\E t \in Readers : Read(t)) \/ (\E t \in Writers : Write(t))
        PROVE  UNCHANGED ringVars
    BY <2>1 DEF Read, Write, pipe_read, pipe_write, Enter
  <2>2. ASSUME UNCHANGED queueVars PROVE UNCHANGED ringVars
    BY <2>2 DEF queueVars
  <2> QED
    BY <2>1, <2>2, QueueStepRefines, RingUntouched DEF Next
<1> QED
  BY <1>1, <1>2, PipeInvariance, PTL DEF Spec, ImplementsFifo, AbstractFifo!Spec

-----------------------------------------------------------------------------
(* Readers.                                                                *)

(* A task inside pipe_read is on the processor, and the ring holds all the *)
(* bytes it still has to take.                                             *)
ReadInv ==
  \A t \in Threads :
    InQueue(t) /\ side[t] = "consumer" =>
      sch.cur = t /\ pc[t] = "loop" /\ left[t] <= ioq_length

(* The only step while a task is inside pipe_read: it takes a byte.        *)
LEMMA ReaderStep ==
  ASSUME QInv, QInv', [Next]_queueVars, ReadInv,
         NEW c \in Threads, InQueue(c), side[c] = "consumer"
  PROVE  UNCHANGED queueVars \/ (c \in Users /\ ioq_getchar(c))
<1>0. /\ pc[c] = "loop" /\ sch.cur = c /\ left[c] <= ioq_length
      /\ left[c] \in Nat \ {0} /\ c # Idle
  BY DEF ReadInv, QInv, PcInv, RingTypeOK
<1>1. sch.cur = c /\ pc[c] = "loop" /\ ~ioq_empty /\ c # Idle
  BY <1>0, RingFacts
<1>2. ASSUME NEW t \in Users, Kernel(t) PROVE c \in Users /\ ioq_getchar(c)
  BY <1>1, <1>2
  DEF Kernel, ioq_putchar, ioq_getchar, lock_busy, ioq_wait, lock_release, io_return,
      WantsLock, At, Running, MustWait
<1>3. ~idle /\ ~Environment
  BY <1>1 DEF idle, Environment, timer_interrupt, io_wait, io_done, At, Running, InterruptsOn
<1>4. \A t : ~Read(t) /\ ~Write(t)
  BY <1>1 DEF Read, Write, pipe_read, pipe_write, Enter, At, Running
<1>5. CASE Next
  <2>1. \E t \in Users : Kernel(t)
    BY <1>3, <1>4, <1>5 DEF Next, QueueNext
  <2> QED
    BY <1>2, <2>1
<1> QED
  BY <1>5

(* A reader that is in the loop has the bytes it needs, and keeps them.    *)
LEMMA StepKeepsReadInv ==
  ASSUME QInv, QInv', [Next]_queueVars, ReadInv
  PROVE  ReadInv'
<1>0. /\ pc \in [Threads -> Labels] /\ side \in [Threads -> {"producer", "consumer"}]
      /\ left \in [Threads -> Nat] /\ ioq_length \in Nat
  BY RingFacts DEF QInv, RingTypeOK
<1>1. CASE UNCHANGED queueVars
  <2>1. UNCHANGED <<sch, head, tail, pc, side, left>>
    BY <1>1 DEF queueVars, ringVars, callVars
  <2> QED
    BY <2>1 DEF ReadInv, InQueue, ioq_length
<1>2. CASE Next /\ \E c \in Threads : InQueue(c) /\ side[c] = "consumer"
  <2>1. PICK c \in Threads : InQueue(c) /\ side[c] = "consumer"
    BY <1>2
  <2>2. CASE c \in Users /\ ioq_getchar(c)
    <3>1. /\ sch.cur = c /\ pc[c] = "loop" /\ left[c] <= ioq_length
          /\ \A u \in Threads : InQueue(u) /\ side[u] = "consumer" => u = c
      BY <2>1 DEF ReadInv
    <3>2. sch'.cur = sch.cur /\ ioq_length' = ioq_length - 1
      BY <2>2, GetcharKeeps, TakeContents DEF QInv, ioq_getchar
    <3>3. /\ left' = [left EXCEPT ![c] = @ - 1] /\ side' = side
          /\ pc' = [pc EXCEPT ![c] = IF left[c] = 1 THEN "user" ELSE "loop"]
      BY <2>2 DEF ioq_getchar, Turn, Goto
    <3>4. ASSUME NEW u \in Threads, u # c PROVE ~(InQueue(u) /\ side[u] = "consumer")'
      BY <1>0, <3>1, <3>3, <3>4 DEF InQueue
    <3>5. InQueue(c)' => /\ sch'.cur = c /\ pc'[c] = "loop" /\ left'[c] <= ioq_length'
      BY <1>0, <3>1, <3>2, <3>3 DEF InQueue
    <3> QED
      BY <3>4, <3>5 DEF ReadInv
  <2> QED
    BY <1>1, <2>1, <2>2, ReaderStep
<1>3. CASE Next /\ ~\E c \in Threads : InQueue(c) /\ side[c] = "consumer"
  <2>1. CASE QueueNext
    BY <1>3, <2>1, NoNewcomer DEF ReadInv
  <2>2. ASSUME NEW t \in Threads, NEW s, NEW size \in Nat, Enter(t, s, size),
               s = "producer" \/ size <= ioq_length
        PROVE  ReadInv'
    <3>1. /\ sch.cur = t /\ sch' = sch /\ ioq_length' = ioq_length
          /\ side' = [side EXCEPT ![t] = s] /\ left' = [left EXCEPT ![t] = size]
          /\ pc' = [pc EXCEPT ![t] = IF size = 0 THEN "user" ELSE "loop"]
      BY <2>2 DEF Enter, At, Running, Goto, ringVars, ioq_length
    <3>2. ASSUME NEW u \in Threads, u # t PROVE ~(InQueue(u) /\ side[u] = "consumer")'
      BY <1>0, <1>3, <3>1, <3>2 DEF InQueue
    <3>3. InQueue(t)' /\ side'[t] = "consumer" =>
            /\ sch'.cur = t /\ pc'[t] = "loop" /\ left'[t] <= ioq_length'
      BY <1>0, <2>2, <3>1 DEF InQueue
    <3> QED
      BY <3>2, <3>3 DEF ReadInv
  <2> QED
    BY <1>3, <2>1, <2>2, ReadEnters, WriteEnters, RolesAssumption DEF Next
<1> QED
  BY <1>1, <1>2, <1>3

(* So it is in every reachable state.                                      *)
LEMMA ReadInvariance == Spec => []ReadInv
<1>1. Init => ReadInv
  BY DEF Init, ioqueue_init, ReadInv, InQueue
<1>2. QInv /\ QInv' /\ [Next]_queueVars /\ ReadInv => ReadInv'
  BY StepKeepsReadInv
<1> QED
  BY <1>1, <1>2, PipeInvariance, PTL DEF Spec

(* pipe_read, which asks for no more than the ring held when it was        *)
(* called, never sleeps: neither on the empty ring nor on the lock.        *)
THEOREM ReadersNeverBlock == Spec => []ReadNeverBlocks
<1>1. ReadInv => ReadNeverBlocks
  BY DEF ReadInv, ReadNeverBlocks
<1> QED
  BY <1>1, ReadInvariance, PTL

-----------------------------------------------------------------------------
(* One writer at a time.                                                   *)

InWrite(t) == InQueue(t) /\ side[t] = "producer"

(* A writer that sleeps has a full ring before it, and no writer queues    *)
(* for the lock: it would go to sleep without a look at the ring.          *)
FullInv ==
  /\ sleeper["producer"] # NULL => ioq_full
  /\ \A t \in Threads : InWrite(t) => pc[t] # "lock"

(* The only task inside pipe_write is the one writer.                      *)
LEMMA OneWriterLemma ==
  ASSUME OneWriter, NEW t \in Threads, NEW u \in Threads, InWrite(t), InWrite(u)
  PROVE  t = u
<1> DEFINE W == {x \in Threads : InQueue(x) /\ side[x] = "producer"}
<1>1. IsFiniteSet(W)
  BY FiniteAssumption, FS_Subset
<1>2. {t, u} \subseteq W
  BY DEF InWrite
<1>3. Cardinality({t, u}) <= Cardinality(W) /\ Cardinality(W) \in Nat
  BY <1>1, <1>2, FS_Subset, FS_CardinalityType
<1>4. ASSUME t # u PROVE Cardinality({t, u}) = 2
  <2>1. {t, u} = {t} \cup {u} /\ u \notin {t}
    BY <1>4
  <2>2. IsFiniteSet({t}) /\ Cardinality({t}) = 1
    BY FS_Singleton
  <2> QED
    BY <2>1, <2>2, FS_AddElement
<1> QED
  BY <1>3, <1>4 DEF OneWriter

(* The lock is free while a writer is in its loop: only another writer     *)
(* could hold it.                                                          *)
LEMMA WriterFindsLockFree ==
  ASSUME QInv, ReadInv, OneWriter, NEW t \in Threads, InWrite(t), pc[t] # "slept"
  PROVE  holder = NULL /\ sleeper["producer"] = NULL
<1>1. ASSUME NEW u \in Threads, pc[u] = "slept" PROVE FALSE
  <2>1. InWrite(u)
    BY <1>1 DEF QInv, RingTypeOK, ReadInv, InQueue, InWrite
  <2> QED
    BY <1>1, <2>1, OneWriterLemma
<1> QED
  BY <1>1 DEF QInv, RingTypeOK, LockInv

(* Only a writer that found the ring full goes to sleep.                   *)
LEMMA WaiterIsWriter ==
  ASSUME QInv, ReadInv, OneWriter, FullInv, NEW t \in Users, WantsLock(t)
  PROVE  InWrite(t) /\ holder = NULL /\ ioq_full
<1>0. t \in Threads /\ pc[t] \in {"loop", "lock"} /\ InQueue(t)
  BY DEF Users, WantsLock, At, InQueue
<1>1. side[t] # "consumer"
  <2> SUFFICES ASSUME side[t] = "consumer" PROVE FALSE
    OBVIOUS
  <2>1. /\ pc[t] = "loop" /\ left[t] <= ioq_length /\ left[t] \in Nat \ {0}
    BY <1>0 DEF ReadInv, QInv, PcInv, RingTypeOK
  <2> QED
    BY <2>1, RingFacts DEF WantsLock, At, MustWait
<1>2. InWrite(t)
  BY <1>0, <1>1 DEF InWrite, QInv, RingTypeOK
<1> QED
  BY <1>0, <1>1, <1>2, WriterFindsLockFree DEF WantsLock, At, MustWait, FullInv

(* A writer asleep sleeps on a full ring until a reader takes a byte.      *)
LEMMA StepKeepsFullInv ==
  ASSUME QInv, QInv', ReadInv, OneWriter, FullInv, [Next]_queueVars
  PROVE  FullInv'
<1>0. /\ pc \in [Threads -> Labels] /\ side \in [Threads -> {"producer", "consumer"}]
      /\ sleeper \in [{"producer", "consumer"} -> Threads \cup {NULL}]
  BY DEF QInv, RingTypeOK
<1>1. ASSUME UNCHANGED <<ringVars, sleeper>>,
             \A u \in Threads : InWrite(u)' /\ pc'[u] = "lock" => InWrite(u) /\ pc[u] = "lock"
      PROVE  FullInv'
  BY <1>1 DEF FullInv, ringVars, ioq_full
<1>2. ASSUME NEW t \in Users, ioq_getchar(t) PROVE FullInv'
  <2>1. sleeper' = [sleeper EXCEPT !["producer"] = NULL]
    BY <1>2 DEF ioq_getchar, ioq_take, wakeup
  <2>2. /\ pc' = [pc EXCEPT ![t] = IF left[t] = 1 THEN "user" ELSE "loop"] /\ side' = side
    BY <1>2 DEF ioq_getchar, Turn, Goto
  <2> QED
    BY <1>0, <2>1, <2>2 DEF FullInv, InWrite, InQueue
<1>3. ASSUME NEW t \in Users, NEW b \in Bytes, ioq_putchar(t, b) PROVE FullInv'
  <2>1. sleeper' = [sleeper EXCEPT !["consumer"] = NULL]
    BY <1>3 DEF ioq_putchar, ioq_store, wakeup
  <2>2. /\ pc' = [pc EXCEPT ![t] = IF left[t] = 1 THEN "user" ELSE "loop"] /\ side' = side
    BY <1>3 DEF ioq_putchar, Turn, Goto
  <2>3. t \in Threads /\ InWrite(t) /\ pc[t] = "loop"
    BY <1>3 DEF ioq_putchar, At, InWrite, InQueue, Users
  <2>4. sleeper["producer"] = NULL
    BY <2>3, WriterFindsLockFree
  <2> QED
    BY <1>0, <2>1, <2>2, <2>4 DEF FullInv, InWrite, InQueue
<1>4. ASSUME NEW t \in Users, lock_busy(t) PROVE FullInv'
  BY <1>4, WaiterIsWriter DEF lock_busy
<1>5. ASSUME NEW t \in Users, ioq_wait(t) PROVE FullInv'
  <2>1. ioq_full
    BY <1>5, WaiterIsWriter DEF ioq_wait
  <2>2. ioq_full'
    BY <1>5, <2>1 DEF ioq_wait, ringVars, ioq_full
  <2>3. pc' = [pc EXCEPT ![t] = "slept"] /\ side' = side
    BY <1>5 DEF ioq_wait, Goto, callVars
  <2> QED
    BY <1>0, <2>2, <2>3 DEF FullInv, InWrite, InQueue
<1>6. ASSUME NEW t \in Users, lock_release(t) \/ io_return(t) PROVE FullInv'
  <2>1. /\ UNCHANGED <<ringVars, sleeper, side>>
        /\ \A u \in Threads : pc'[u] = "lock" => pc[u] = "lock"
    BY <1>0, <1>6 DEF lock_release, io_return, Goto, callVars
  <2> QED
    BY <1>1, <2>1 DEF InWrite, InQueue
<1>7. ASSUME idle \/ Environment PROVE FullInv'
  <2>1. /\ UNCHANGED <<ringVars, sleeper, side>>
        /\ \A u \in Threads : pc'[u] = "lock" => pc[u] = "lock"
    BY <1>0, <1>7
    DEF idle, Environment, timer_interrupt, io_wait, io_done, wake_hlt, Goto, callVars
  <2> QED
    BY <1>1, <2>1 DEF InWrite, InQueue
<1>8. ASSUME NEW t, NEW s, NEW size, Enter(t, s, size) PROVE FullInv'
  <2>1. /\ UNCHANGED <<ringVars, sleeper>>
        /\ \A u \in Threads : pc'[u] = "lock" => pc[u] = "lock" /\ side'[u] = side[u]
    BY <1>0, <1>8 DEF Enter, Goto
  <2> QED
    BY <1>1, <2>1 DEF InWrite, InQueue
<1>9. CASE UNCHANGED queueVars
  <2>1. UNCHANGED <<ringVars, sleeper, side, pc>>
    BY <1>9 DEF queueVars, callVars
  <2> QED
    BY <1>1, <2>1 DEF InWrite, InQueue
<1>10. CASE QueueNext
  BY <1>2, <1>3, <1>4, <1>5, <1>6, <1>7, <1>10 DEF QueueNext, Kernel
<1> QED
  BY <1>8, <1>9, <1>10 DEF Next, Read, Write, pipe_read, pipe_write

(* When writers take turns, a pipe_write that sleeps has a full ring       *)
(* before it: every ioq_getchar that made room has woken it.               *)
THEOREM WriterSleepsOnFullRing == Spec => ProducerSleepsOnlyWhenFull
<1>1. Init => FullInv
  BY DEF Init, ioqueue_init, FullInv, InWrite, InQueue
<1>2. QInv /\ QInv' /\ ReadInv /\ OneWriter /\ FullInv /\ [Next]_queueVars => FullInv'
  BY StepKeepsFullInv
<1>3. FullInv => (sleeper["producer"] # NULL => ioq_full)
  BY DEF FullInv
<1> QED
  BY <1>1, <1>2, <1>3, PipeInvariance, ReadInvariance, PTL
  DEF Spec, ProducerSleepsOnlyWhenFull
=============================================================================
