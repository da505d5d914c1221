-------------------------------- MODULE Sync --------------------------------
(***************************************************************************)
(* Semaphores and reentrant locks (thread/sync.c) above the scheduler of   *)
(* module Thread, with the timer interrupt (device/timer.c), the idle task *)
(* and the disk interrupt that completes a command (device/ide.c).         *)
(*                                                                         *)
(* The processor executes task sch.cur, and an interrupt may arrive        *)
(* whenever the interrupt flag of that task is set.  The flag belongs to   *)
(* the task because switch_to and iretd save and restore it with the       *)
(* task's stack.  Code that runs with the flag clear is not interleaved    *)
(* with anything until it blocks or yields; code that runs with it set     *)
(* (kernel threads) is, so lock_acquire and lock_release are split into    *)
(* one action per memory access.                                           *)
(*                                                                         *)
(* Kernel code outside these files is a most general client: a task at     *)
(* "run" may call any of the operations, obeying the ASSERT that only the  *)
(* holder releases a lock and the ide.c rule that only the holder of the   *)
(* channel lock issues a command.                                          *)
(***************************************************************************)
EXTENDS Thread

CONSTANTS Main,       \* main_thread
          InitProc,   \* the init process
          Locks,      \* the struct locks of the kernel
          ChanLock,   \* channels[0].lock, one of Locks
          DiskDone,   \* channels[0].disk_done
          NULL,
          MaxRepeat   \* bound on nested acquisitions by one holder

ASSUME TasksAssumption == /\ Main \in Threads /\ InitProc \in Threads
                          /\ Main # Idle /\ InitProc # Idle /\ Main # InitProc
ASSUME LocksAssumption == ChanLock \in Locks /\ DiskDone \notin Locks
ASSUME NullAssumption == NULL \notin Threads \cup Locks \cup {DiskDone}
ASSUME RepeatAssumption == MaxRepeat \in Nat \ {0}

Semaphores == Locks \cup {DiskDone}

VARIABLES sch,              \* the scheduler, module Thread
          value, waiters,   \* struct semaphore
          holder, holder_repeat_nr,   \* struct lock
          expecting_intr,   \* channels[0].expecting_intr
          intr,             \* the interrupt flag of each task
          old,              \* old_status on the stack of sema_down, while in it
          pc, arg           \* where in sync.c each task is, and on which
                            \* semaphore (NULL outside sync.c)

vars == <<sch, value, waiters, holder, holder_repeat_nr, expecting_intr,
          intr, old, pc, arg>>

lockVars == <<holder, holder_repeat_nr>>
semaVars == <<value, waiters>>
taskVars == <<intr, old, pc, arg>>

Labels == {"run",     \* in the caller
           "down",    \* lock_acquire or ide.c, before sema_down
           "wait",    \* in sema_down, after thread_block
           "own",     \* lock_acquire, semaphore taken, holder not yet set
           "count",   \* lock_acquire, holder set, holder_repeat_nr not yet
           "clear",   \* lock_release, holder cleared, holder_repeat_nr not yet
           "up",      \* lock_release, before sema_up
           "top", "sti", "hlt"}   \* the loop of idle

(* thread_init: the init process and idle are ready, main is running.      *)
Init ==
  /\ sch = [cur    |-> Main,
            status |-> [t \in Threads |->
                          IF t = Main THEN "RUNNING"
                          ELSE IF t \in {InitProc, Idle} THEN "READY" ELSE "DIED"],
            ready  |-> <<InitProc, Idle>>,
            ticks  |-> priority,
            ok     |-> TRUE]
  /\ value = [s \in Semaphores |-> IF s = DiskDone THEN 0 ELSE 1]
  /\ waiters = [s \in Semaphores |-> << >>]
  /\ holder = [l \in Locks |-> NULL]
  /\ holder_repeat_nr = [l \in Locks |-> 0]
  /\ expecting_intr = FALSE
  /\ intr = [t \in Threads |-> TRUE]
  /\ old = [t \in Threads |-> TRUE]
  /\ pc = [t \in Threads |-> IF t = Idle THEN "top" ELSE "run"]
  /\ arg = [t \in Threads |-> NULL]

Running(t) == sch.ok /\ sch.cur = t

At(t, label) == Running(t) /\ pc[t] = label

Goto(t, label) == pc' = [pc EXCEPT ![t] = label]

(* Into sync.c for semaphore s, and back to the caller.                    *)
Call(t, s, label) == Goto(t, label) /\ arg' = [arg EXCEPT ![t] = s]

Return(t) == Call(t, NULL, "run")

-----------------------------------------------------------------------------
(* The semaphore operations.                                               *)

(* One turn of the loop of sema_down, for a task that is entering it or    *)
(* has just been woken in it.                                              *)
sema_down_block(t) ==
  LET s == arg[t]
  IN  /\ pc[t] \in {"down", "wait"} /\ Running(t)
      /\ value[s] = 0
      /\ sch' = thread_block(ASSERT(sch, ~elem_find(waiters[s], t)), "BLOCKED")
      /\ waiters' = [waiters EXCEPT ![s] = list_append(@, t)]
      /\ old' = IF pc[t] = "down" THEN [old EXCEPT ![t] = intr[t]] ELSE old
      /\ intr' = [intr EXCEPT ![t] = FALSE]
      /\ Goto(t, "wait")
      /\ UNCHANGED <<value, lockVars, expecting_intr, arg>>

(* Mutated form: `if' in place of the `while' of sema_down.                *)
sema_down_take_if(t) ==
  LET s == arg[t]
  IN  /\ pc[t] \in {"down", "wait"} /\ Running(t)
      /\ value[s] # 0 \/ pc[t] = "wait"
      /\ value' = [value EXCEPT ![s] = @ - 1]
      /\ sch' = ASSERT(sch, value[s] = 1)
      /\ intr' = IF pc[t] = "wait" THEN [intr EXCEPT ![t] = old[t]] ELSE intr
      /\ old' = [old EXCEPT ![t] = TRUE]
      /\ IF s = DiskDone THEN Return(t) ELSE Call(t, s, "own")
      /\ UNCHANGED <<waiters, lockVars, expecting_intr>>

(* The end of sema_down: back in lock_acquire, or in ide.c.                *)
sema_down_take(t) ==
  LET s == arg[t]
  IN  /\ pc[t] \in {"down", "wait"} /\ Running(t)
      /\ value[s] # 0
      /\ value' = [value EXCEPT ![s] = @ - 1]
      /\ sch' = ASSERT(sch, value[s] = 1)
      /\ intr' = IF pc[t] = "wait" THEN [intr EXCEPT ![t] = old[t]] ELSE intr
      /\ old' = [old EXCEPT ![t] = TRUE]
      /\ IF s = DiskDone THEN Return(t) ELSE Call(t, s, "own")
      /\ UNCHANGED <<waiters, lockVars, expecting_intr>>

(* Mutated forms: the waiter is woken but not popped; nobody is woken.     *)
sema_up_no_pop(s) ==
  /\ sch' = LET checked == ASSERT(sch, value[s] = 0)
            IN  IF waiters[s] # << >>
                THEN thread_unblock(checked, Head(waiters[s]))
                ELSE checked
  /\ waiters' = waiters
  /\ value' = [value EXCEPT ![s] = @ + 1]

sema_up_no_wake(s) ==
  /\ sch' = ASSERT(sch, value[s] = 0)
  /\ waiters' = waiters
  /\ value' = [value EXCEPT ![s] = @ + 1]

(* sema_up, called by lock_release or by the disk interrupt.               *)
sema_up(s) ==
  /\ sch' = LET checked == ASSERT(sch, value[s] = 0)
            IN  IF waiters[s] # << >>
                THEN thread_unblock(checked, Head(waiters[s]))
                ELSE checked
  /\ waiters' = [waiters EXCEPT ![s] = IF @ # << >> THEN Tail(@) ELSE @]
  /\ value' = [value EXCEPT ![s] = @ + 1]

-----------------------------------------------------------------------------
(* lock_acquire.                                                           *)

(* Mutated form: a lock held by anybody counts as held by the caller.      *)
lock_acquire_anyone(t, l) ==
  /\ At(t, "run")
  /\ \/ /\ holder[l] = NULL
        /\ Call(t, l, "down")
        /\ UNCHANGED holder_repeat_nr
     \/ /\ holder[l] # NULL
        /\ holder_repeat_nr[l] < MaxRepeat
        /\ holder_repeat_nr' = [holder_repeat_nr EXCEPT ![l] = @ + 1]
        /\ UNCHANGED <<pc, arg>>
  /\ UNCHANGED <<sch, semaVars, holder, expecting_intr, intr, old>>

lock_acquire(t, l) ==
  /\ At(t, "run")
  /\ \/ /\ holder[l] # t
        /\ Call(t, l, "down")
        /\ UNCHANGED holder_repeat_nr
     \/ /\ holder[l] = t
        /\ holder_repeat_nr[l] < MaxRepeat
        /\ holder_repeat_nr' = [holder_repeat_nr EXCEPT ![l] = @ + 1]
        /\ UNCHANGED <<pc, arg>>
  /\ UNCHANGED <<sch, semaVars, holder, expecting_intr, intr, old>>

set_holder(t) ==
  /\ At(t, "own")
  /\ holder' = [holder EXCEPT ![arg[t]] = t]
  /\ Goto(t, "count")
  /\ UNCHANGED <<sch, semaVars, holder_repeat_nr, expecting_intr, intr, old, arg>>

set_repeat(t) ==
  /\ At(t, "count")
  /\ sch' = ASSERT(sch, holder_repeat_nr[arg[t]] = 0)
  /\ holder_repeat_nr' = [holder_repeat_nr EXCEPT ![arg[t]] = 1]
  /\ Return(t)
  /\ UNCHANGED <<semaVars, holder, expecting_intr, intr, old>>

-----------------------------------------------------------------------------
(* lock_release.                                                           *)

(* Mutated form: the caller is not checked to be the holder.               *)
lock_release_anyone(t, l) ==
  /\ At(t, "run")
  /\ holder_repeat_nr[l] = 1
  /\ holder' = [holder EXCEPT ![l] = NULL]
  /\ Call(t, l, "clear")
  /\ UNCHANGED <<sch, semaVars, holder_repeat_nr, expecting_intr, intr, old>>

lock_release(t, l) ==
  /\ At(t, "run")
  /\ holder[l] = t
  /\ \/ /\ holder_repeat_nr[l] > 1
        /\ holder_repeat_nr' = [holder_repeat_nr EXCEPT ![l] = @ - 1]
        /\ UNCHANGED <<sch, holder, pc, arg>>
     \/ /\ holder_repeat_nr[l] <= 1
        /\ sch' = ASSERT(sch, holder_repeat_nr[l] = 1)
        /\ holder' = [holder EXCEPT ![l] = NULL]
        /\ Call(t, l, "clear")
        /\ UNCHANGED holder_repeat_nr
  /\ UNCHANGED <<semaVars, expecting_intr, intr, old>>

(* Mutated form: holder_repeat_nr is not reset.                            *)
clear_repeat_not(t) ==
  /\ At(t, "clear")
  /\ Goto(t, "up")
  /\ UNCHANGED <<sch, semaVars, lockVars, expecting_intr, intr, old, arg>>

clear_repeat(t) ==
  /\ At(t, "clear")
  /\ holder_repeat_nr' = [holder_repeat_nr EXCEPT ![arg[t]] = 0]
  /\ Goto(t, "up")
  /\ UNCHANGED <<sch, semaVars, holder, expecting_intr, intr, old, arg>>

release_up(t) ==
  /\ At(t, "up")
  /\ sema_up(arg[t])
  /\ Return(t)
  /\ UNCHANGED <<lockVars, expecting_intr, intr, old>>

-----------------------------------------------------------------------------
(* The other calls a task makes.                                           *)

(* cmd_out by the holder of the channel lock, which goes on to sema_down   *)
(* on disk_done (at once in ide_read, after busy_wait in ide_write).       *)
cmd_out(t) ==
  /\ At(t, "run")
  /\ holder[ChanLock] = t
  /\ expecting_intr' = TRUE
  /\ Call(t, DiskDone, "down")
  /\ UNCHANGED <<sch, semaVars, lockVars, intr, old>>

(* thread_yield, from the caller or from the busy_wait of ide_write.       *)
yield(t) ==
  /\ Running(t) /\ t # Idle
  /\ pc[t] = "run" \/ (pc[t] = "down" /\ arg[t] = DiskDone)
  /\ sch' = thread_yield(sch)
  /\ UNCHANGED <<semaVars, lockVars, expecting_intr, taskVars>>

(* Entry to the kernel through an interrupt gate, or intr_disable.         *)
intr_disable(t) ==
  /\ At(t, "run") /\ intr[t]
  /\ intr' = [intr EXCEPT ![t] = FALSE]
  /\ UNCHANGED <<sch, semaVars, lockVars, expecting_intr, old, pc, arg>>

(* Return to user mode through intr_exit, or intr_enable.                  *)
intr_enable(t) ==
  /\ At(t, "run") /\ ~intr[t]
  /\ intr' = [intr EXCEPT ![t] = TRUE]
  /\ UNCHANGED <<sch, semaVars, lockVars, expecting_intr, old, pc, arg>>

(* fork or process_execute, with interrupts off: a fresh task_struct,      *)
(* whose task starts with interrupts on.                                   *)
spawn(t, child) ==
  /\ At(t, "run") /\ ~intr[t]
  /\ sch.status[child] = "DIED"
  /\ sch' = thread_start(sch, child)
  /\ intr' = [intr EXCEPT ![child] = TRUE]
  /\ pc' = [pc EXCEPT ![child] = "run"]
  /\ UNCHANGED <<semaVars, lockVars, expecting_intr, old, arg>>

(* thread_exit(running_thread(), true) by a task that holds no lock.       *)
exit(t) ==
  /\ At(t, "run")
  /\ \A l \in Locks : holder[l] # t
  /\ sch' = thread_exit_self(sch)
  /\ intr' = [intr EXCEPT ![t] = FALSE]
  /\ UNCHANGED <<semaVars, lockVars, expecting_intr, old, pc, arg>>

-----------------------------------------------------------------------------
(* The idle task: block; then, when woken, sti and hlt.                    *)

idle_block ==
  /\ At(Idle, "top")
  /\ sch' = thread_block(sch, "BLOCKED")
  /\ Goto(Idle, "sti")
  /\ UNCHANGED <<semaVars, lockVars, expecting_intr, intr, old, arg>>

idle_hlt ==
  /\ At(Idle, "sti")
  /\ Goto(Idle, "hlt")
  /\ UNCHANGED <<sch, semaVars, lockVars, expecting_intr, intr, old, arg>>

(* An interrupt ends the hlt of the idle task.                             *)
wake_hlt ==
  pc' = [pc EXCEPT ![Idle] = IF sch.cur = Idle /\ @ = "hlt" THEN "top" ELSE @]

(* intr_timer_handler.                                                     *)
timer_interrupt ==
  /\ sch.ok /\ intr[sch.cur]
  /\ sch' = timer_tick(sch)
  /\ wake_hlt
  /\ UNCHANGED <<semaVars, lockVars, expecting_intr, intr, old, arg>>

(* Mutated form: expecting_intr is not reset.                              *)
disk_interrupt_again ==
  /\ sch.ok /\ intr[sch.cur]
  /\ expecting_intr
  /\ sema_up(DiskDone)
  /\ wake_hlt
  /\ UNCHANGED <<lockVars, expecting_intr, intr, old, arg>>

(* intr_hd_handler.  Its else branch changes nothing.                      *)
disk_interrupt ==
  /\ sch.ok /\ intr[sch.cur]
  /\ expecting_intr
  /\ expecting_intr' = FALSE
  /\ sema_up(DiskDone)
  /\ wake_hlt
  /\ UNCHANGED <<lockVars, intr, old, arg>>

-----------------------------------------------------------------------------
Step(t) ==
  \/ sema_down_block(t) \/ sema_down_take(t)
  \/ set_holder(t) \/ set_repeat(t) \/ clear_repeat(t) \/ release_up(t)

Client(t) ==
  \/ \E l \in Locks : lock_acquire(t, l) \/ lock_release(t, l)
  \/ cmd_out(t) \/ yield(t) \/ exit(t)
  \/ intr_disable(t) \/ intr_enable(t)
  \/ \E child \in Threads : spawn(t, child)

Next ==
  \/ \E t \in Threads : Step(t) \/ Client(t)
  \/ idle_block \/ idle_hlt
  \/ timer_interrupt \/ disk_interrupt

Spec == Init /\ [][Next]_vars

(* The timer chip raises its interrupt again and again and the interrupt   *)
(* controller keeps it pending while interrupts are off; kernel code       *)
(* between two calls of this module is finite, so a task that entered the  *)
(* kernel comes back to user mode unless it blocks.                        *)
Fairness ==
  /\ SF_vars(timer_interrupt)
  /\ \A t \in Threads : WF_vars(Step(t)) /\ SF_vars(intr_enable(t))

FairSpec == Spec /\ Fairness

-----------------------------------------------------------------------------
(* Types.  The semaphores of the kernel are binary.                        *)
TypeOK ==
  /\ sch \in SchedState
  /\ value \in [Semaphores -> {0, 1}]
  /\ waiters \in [Semaphores -> Seq(Threads)]
  /\ holder \in [Locks -> Threads \cup {NULL}]
  /\ holder_repeat_nr \in [Locks -> 0..MaxRepeat]
  /\ expecting_intr \in BOOLEAN
  /\ intr \in [Threads -> BOOLEAN]
  /\ old \in [Threads -> BOOLEAN]
  /\ pc \in [Threads -> Labels]
  /\ arg \in [Threads -> Semaphores \cup {NULL}]

(* No ASSERT of schedule, thread_block, thread_unblock, thread_yield,      *)
(* sema_down, sema_up, lock_acquire or lock_release ever fails, whatever   *)
(* the interleaving of tasks, timer and disk interrupts.  In particular    *)
(* idle is BLOCKED whenever schedule wakes it.                             *)
NoPanic == sch.ok

(* A task has one general_tag, so it is in at most one list, once: a READY *)
(* task in thread_ready_list, a task blocked in sema_down in the waiters   *)
(* of that semaphore, and nothing else anywhere.                           *)
OneListPerTask ==
  /\ Consistent(sch)
  /\ \A s \in Semaphores :
       /\ NoDup(waiters[s])
       /\ \A t \in Threads : elem_find(waiters[s], t) <=>
            t # Idle /\ sch.status[t] = "BLOCKED" /\ pc[t] = "wait" /\ arg[t] = s

(* t has taken the semaphore of lock l and not yet given it back.          *)
Owns(t, l) ==
  \/ holder[l] = t
  \/ arg[t] = l /\ pc[t] \in {"own", "clear", "up"}

(* A lock has at most one owner, and its semaphore is 0 exactly while it   *)
(* has one: neither barging past a woken waiter nor preemption between the *)
(* stores of lock_acquire and lock_release lets a second task in.          *)
MutualExclusion ==
  \A l \in Locks :
    /\ \A t, u \in Threads : Owns(t, l) /\ Owns(u, l) => t = u
    /\ value[l] = 0 <=> \E t \in Threads : Owns(t, l)

(* A free semaphore with waiters has already woken one of them, which will *)
(* test the value again: sema_up never leaves everybody asleep.            *)
NoLostWakeup ==
  \A s \in Semaphores :
    value[s] # 0 /\ waiters[s] # << >> =>
      \E t \in Threads : /\ pc[t] = "wait" /\ arg[t] = s
                         /\ sch.status[t] \in {"READY", "RUNNING"}

(* The field holder is changed by the running task only, from itself to    *)
(* NULL or from NULL to itself.  lock_release clears it before sema_up so  *)
(* that a preempted releaser cannot wipe out its successor.                *)
HolderStep ==
  \A l \in Locks :
    holder'[l] # holder[l] =>
      {holder[l], holder'[l]} = {NULL, sch.cur}

HolderChanges == [][HolderStep]_vars

(* The lock that sync.c implements.  A task owns it from the moment it     *)
(* takes the semaphore to the moment it gives it back.                     *)
LockOwner(l) ==
  IF \E t \in Threads : Owns(t, l) THEN CHOOSE t \in Threads : Owns(t, l) ELSE NULL

LockDepth(l) ==
  IF \E t \in Threads : Owns(t, l)
  THEN IF holder_repeat_nr[l] = 0 THEN 1 ELSE holder_repeat_nr[l]
  ELSE 0

AbstractLock == INSTANCE Mutex WITH cur <- sch.cur,
                                    owner <- [l \in Locks |-> LockOwner(l)],
                                    depth <- [l \in Locks |-> LockDepth(l)]

(* lock_acquire and lock_release, although several preemptible stores      *)
(* each, behave as an atomic reentrant lock: ownership passes only through *)
(* free, re-entry and unwinding count exactly, and no step of the timer,   *)
(* of the disk or of another task changes either.                          *)
ImplementsMutex == AbstractLock!Spec

(* No starvation: a READY task gets the processor, although thread_unblock *)
(* lets woken tasks jump the queue.                                        *)
ReadyRuns ==
  \A t \in Threads : sch.status[t] = "READY" ~> sch.status[t] = "RUNNING"
=============================================================================
