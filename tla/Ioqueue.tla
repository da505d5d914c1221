------------------------------ MODULE Ioqueue -------------------------------
(***************************************************************************)
(* The ring buffer of device/ioqueue.c, with the lock that guards its two  *)
(* sleeping places.  Module Pipe uses it between tasks, module Keyboard    *)
(* between an interrupt handler and tasks.                                 *)
(*                                                                         *)
(* Every caller has interrupts off, so between two actions of the task on  *)
(* the processor nothing else happens unless the task blocks; interrupts   *)
(* arrive only while the processor is in user mode or halted in idle.      *)
(* With interrupts off lock_acquire is atomic once it has the semaphore:   *)
(* the semaphore of ioq.lock is 1 exactly when its holder is NULL.         *)
(***************************************************************************)
EXTENDS Thread, FiniteSets

CONSTANTS bufsize,   \* size of the ring, 2048 in the code
          Bytes,     \* the characters
          NULL

ASSUME BufsizeAssumption == bufsize \in Nat /\ bufsize >= 2
ASSUME NullAssumption == NULL \notin Threads
ASSUME FiniteAssumption == IsFiniteSet(Threads)

VARIABLES sch,               \* the scheduler, module Thread
          head, tail, buf,   \* where the next byte goes, comes from; the ring
          sleeper,           \* ioq.producer and ioq.consumer
          holder, waiters,   \* ioq.lock
          pc,                \* where each task is
          side,              \* "producer" in ioq_putchar, "consumer" in ioq_getchar
          left,              \* the bytes the system call of the task still moves
          byte               \* the last byte ioq_getchar returned

ringVars == <<head, tail, buf, byte>>
lockVars == <<holder, waiters>>
callVars == <<side, left>>
queueVars == <<sch, ringVars, sleeper, lockVars, pc, callVars>>

(* user   in user mode, interrupts on                                      *)
(* loop   at the test of the while loop of ioq_getchar or ioq_putchar      *)
(* lock   in the sema_down of lock_acquire, after thread_block             *)
(* slept  after ioq_wait                                                   *)
(* io     in some other system call, blocked until an interrupt            *)
(* top, hlt   the loop of idle                                             *)
Labels == {"user", "loop", "lock", "slept", "io", "top", "hlt"}

(* Mutated form: the position does not wrap around.                        *)
next_pos_flat(pos) == pos + 1

next_pos(pos) == (pos + 1) % bufsize

ioq_full == next_pos(head) = tail

ioq_empty == head = tail

ioq_length ==
  IF head >= tail THEN head - tail ELSE bufsize - (tail - head)

(* ioqueue_init, with every task in user mode and idle on the processor.   *)
Users == Threads \ {Idle}

ioqueue_init ==
  /\ \E q \in [1..Cardinality(Users) -> Users] :
       /\ NoDup(q)
       /\ sch = [cur    |-> Idle,
                 status |-> [t \in Threads |-> IF t = Idle THEN "RUNNING" ELSE "READY"],
                 ready  |-> q,
                 ticks  |-> priority,
                 ok     |-> TRUE]
  /\ head = 0 /\ tail = 0 /\ buf \in [0..(bufsize - 1) -> {NULL}]
  /\ sleeper = [s \in {"producer", "consumer"} |-> NULL]
  /\ holder = NULL /\ waiters = << >>
  /\ pc = [t \in Threads |-> IF t = Idle THEN "top" ELSE "user"]
  /\ side = [t \in Threads |-> "consumer"]
  /\ left = [t \in Threads |-> 0]
  /\ byte = NULL

Running(t) == sch.ok /\ sch.cur = t

At(t, label) == Running(t) /\ pc[t] = label

Goto(t, label) == pc' = [pc EXCEPT ![t] = label]

(* The condition of the while loop.                                        *)
MustWait(t) == IF side[t] = "consumer" THEN ioq_empty ELSE ioq_full

-----------------------------------------------------------------------------
(* The body of the while loop: lock_acquire, ioq_wait, lock_release.  A    *)
(* task that had to queue for the lock does not test the ring again before *)
(* ioq_wait.                                                               *)

WantsLock(t) == (At(t, "loop") /\ MustWait(t)) \/ At(t, "lock")

lock_busy(t) ==
  /\ WantsLock(t)
  /\ holder # NULL
  /\ sch' = thread_block(ASSERT(sch, ~elem_find(waiters, t)), "BLOCKED")
  /\ waiters' = list_append(waiters, t)
  /\ Goto(t, "lock")
  /\ UNCHANGED <<ringVars, sleeper, holder, callVars>>

ioq_wait(t) ==
  /\ WantsLock(t)
  /\ holder = NULL
  /\ holder' = t
  /\ sleeper' = [sleeper EXCEPT ![side[t]] = t]
  /\ sch' = thread_block(ASSERT(sch, sleeper[side[t]] = NULL), "BLOCKED")
  /\ Goto(t, "slept")
  /\ UNCHANGED <<ringVars, waiters, callVars>>

(* Mutated forms: the task woken stays in the list of waiters; no task is  *)
(* woken.                                                                  *)
lock_release_no_pop(t) ==
  /\ At(t, "slept")
  /\ sch' = LET s == ASSERT(sch, holder = t)
            IN  IF waiters # << >> THEN thread_unblock(s, Head(waiters)) ELSE s
  /\ holder' = NULL
  /\ Goto(t, "loop")
  /\ UNCHANGED <<ringVars, sleeper, waiters, callVars>>

lock_release_no_wake(t) ==
  /\ At(t, "slept")
  /\ sch' = ASSERT(sch, holder = t)
  /\ holder' = NULL
  /\ Goto(t, "loop")
  /\ UNCHANGED <<ringVars, sleeper, waiters, callVars>>

lock_release(t) ==
  /\ At(t, "slept")
  /\ sch' = LET s == ASSERT(sch, holder = t)
            IN  IF waiters # << >> THEN thread_unblock(s, Head(waiters)) ELSE s
  /\ waiters' = IF waiters # << >> THEN Tail(waiters) ELSE waiters
  /\ holder' = NULL
  /\ Goto(t, "loop")
  /\ UNCHANGED <<ringVars, sleeper, callVars>>

(* wakeup(&ioq->producer) or wakeup(&ioq->consumer), if somebody sleeps.   *)
wakeup(s) ==
  /\ sch' = IF sleeper[s] # NULL THEN thread_unblock(sch, sleeper[s]) ELSE sch
  /\ sleeper' = [sleeper EXCEPT ![s] = NULL]

(* Mutated forms: ioq_getchar forgets the sleeping producer; ioq_putchar   *)
(* stores after it has moved head.                                         *)
ioq_take_no_wake ==
  /\ ~ioq_empty
  /\ byte' = buf[tail]
  /\ tail' = next_pos(tail)
  /\ UNCHANGED <<sch, sleeper, head, buf, lockVars>>

ioq_store_late(b) ==
  /\ ~ioq_full
  /\ buf' = [buf EXCEPT ![next_pos(head)] = b]
  /\ head' = next_pos(head)
  /\ wakeup("consumer")
  /\ UNCHANGED <<tail, byte, lockVars>>

(* The rest of ioq_getchar and of ioq_putchar.                             *)
ioq_take ==
  /\ ~ioq_empty
  /\ byte' = buf[tail]
  /\ tail' = next_pos(tail)
  /\ wakeup("producer")
  /\ UNCHANGED <<head, buf, lockVars>>

ioq_store(b) ==
  /\ ~ioq_full
  /\ buf' = [buf EXCEPT ![head] = b]
  /\ head' = next_pos(head)
  /\ wakeup("consumer")
  /\ UNCHANGED <<tail, byte, lockVars>>

(* The loop around ioq_getchar or ioq_putchar in a system call that moves  *)
(* size bytes: its start, and the end of one turn.                         *)
Enter(t, s, size) ==
  /\ At(t, "user")
  /\ side' = [side EXCEPT ![t] = s]
  /\ left' = [left EXCEPT ![t] = size]
  /\ Goto(t, IF size = 0 THEN "user" ELSE "loop")
  /\ UNCHANGED <<sch, ringVars, sleeper, lockVars>>

Turn(t) ==
  /\ left' = [left EXCEPT ![t] = @ - 1]
  /\ Goto(t, IF left[t] = 1 THEN "user" ELSE "loop")
  /\ UNCHANGED side

ioq_getchar(t) ==
  /\ At(t, "loop") /\ side[t] = "consumer"
  /\ ioq_take
  /\ Turn(t)

ioq_putchar(t, b) ==
  /\ At(t, "loop") /\ side[t] = "producer"
  /\ ioq_store(b)
  /\ Turn(t)

-----------------------------------------------------------------------------
(* The rest of the system: preemption of user mode, tasks that block in    *)
(* other system calls, and idle.                                           *)

InterruptsOn == sch.ok /\ pc[sch.cur] \in {"user", "hlt"}

(* An interrupt ends the hlt of idle.                                      *)
wake_hlt ==
  pc' = [pc EXCEPT ![Idle] = IF sch.cur = Idle /\ @ = "hlt" THEN "top" ELSE @]

timer_interrupt ==
  /\ InterruptsOn
  /\ sch' = timer_tick(sch)
  /\ wake_hlt
  /\ UNCHANGED <<ringVars, sleeper, lockVars, callVars>>

(* A task sleeps in a system call that has nothing to do with this queue   *)
(* (a disk read, say) and is woken by an interrupt.                        *)
io_wait(t) ==
  /\ At(t, "user")
  /\ sch' = thread_block(sch, "BLOCKED")
  /\ Goto(t, "io")
  /\ UNCHANGED <<ringVars, sleeper, lockVars, callVars>>

io_done(t) ==
  /\ InterruptsOn /\ pc[t] = "io" /\ sch.status[t] = "BLOCKED"
  /\ sch' = thread_unblock(sch, t)
  /\ wake_hlt
  /\ UNCHANGED <<ringVars, sleeper, lockVars, callVars>>

io_return(t) ==
  /\ At(t, "io")
  /\ Goto(t, "user")
  /\ UNCHANGED <<sch, ringVars, sleeper, lockVars, callVars>>

idle ==
  /\ At(Idle, "top")
  /\ sch' = thread_block(sch, "BLOCKED")
  /\ Goto(Idle, "hlt")
  /\ UNCHANGED <<ringVars, sleeper, lockVars, callVars>>

(* What the task on the processor does inside a system call.               *)
Kernel(t) ==
  \/ ioq_getchar(t)
  \/ \E b \in Bytes : ioq_putchar(t, b)
  \/ lock_busy(t) \/ ioq_wait(t) \/ lock_release(t)
  \/ io_return(t)

Environment == timer_interrupt \/ \E t \in Users : io_wait(t) \/ io_done(t)

QueueNext == (\E t \in Users : Kernel(t)) \/ idle \/ Environment

(* The kernel's code runs on, and the timer and the disk go on             *)
(* interrupting.                                                           *)
QueueFairness ==
  /\ \A t \in Users : WF_queueVars(Kernel(t)) /\ SF_queueVars(io_done(t))
  /\ WF_queueVars(idle)
  /\ SF_queueVars(timer_interrupt)

-----------------------------------------------------------------------------
InQueue(t) == pc[t] \in {"loop", "lock", "slept"}

RingTypeOK ==
  /\ sch \in SchedState
  /\ head \in 0..(bufsize - 1) /\ tail \in 0..(bufsize - 1)
  /\ buf \in [0..(bufsize - 1) -> Bytes \cup {NULL}]
  /\ byte \in Bytes \cup {NULL}
  /\ sleeper \in [{"producer", "consumer"} -> Threads \cup {NULL}]
  /\ holder \in Threads \cup {NULL}
  /\ waiters \in Seq(Threads)
  /\ pc \in [Threads -> Labels]
  /\ side \in [Threads -> {"producer", "consumer"}]
  /\ left \in [Threads -> Nat]

(* The bytes in the ring, oldest first.                                    *)
Contents == [i \in 1..ioq_length |-> buf[(tail + i - 1) % bufsize]]

(* The ring is a first-in, first-out queue of at most bufsize - 1 bytes:   *)
(* whatever the interleaving of tasks and interrupts, ioq_getchar returns  *)
(* the bytes given to ioq_putchar, each once and in order.                 *)
AbstractFifo == INSTANCE Fifo WITH queue <- Contents, Capacity <- bufsize - 1

ImplementsFifo == AbstractFifo!Spec

(* No ASSERT of the queue, its lock or the scheduler fails: in particular  *)
(* a sleeping place is free when ioq_wait takes it, and the task wakeup    *)
(* finds there is blocked.                                                 *)
NoPanic == sch.ok

(* The lock is never lost.  Its holder is asleep in the place it recorded  *)
(* itself in, or has been woken and will release it; and as long as tasks  *)
(* queue for the lock somebody holds it or was woken to take it.           *)
LockInv ==
  /\ \A t \in Threads : holder = t <=> pc[t] = "slept"
  /\ \A t \in Threads, s \in {"producer", "consumer"} :
       sleeper[s] = t <=> pc[t] = "slept" /\ side[t] = s /\ sch.status[t] = "BLOCKED"
  /\ waiters # << >> =>
       \/ holder # NULL
       \/ \E t \in Threads : pc[t] = "lock" /\ sch.status[t] \in {"READY", "RUNNING"}

(* ioqueue.h says of the consumer that it goes on as long as the buffer is *)
(* not empty and sleeps otherwise: one that sleeps has nothing to read.    *)
ConsumerSleepsOnlyWhenEmpty == sleeper["consumer"] # NULL => ioq_empty
=============================================================================
