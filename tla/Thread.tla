------------------------------- MODULE Thread -------------------------------
(***************************************************************************)
(* The scheduler of thread/thread.c over the lists of lib/kernel/list.c.   *)
(*                                                                         *)
(* Every function of thread.c that moves a task between states is an       *)
(* operator on a scheduler state s, so that the modules of the code that   *)
(* calls it (locks, queues, wait and exit) compose the calls in the        *)
(* order the code makes them.  All of these functions run with interrupts  *)
(* off from start to end, so each call is one atomic step.                 *)
(*                                                                         *)
(* The fields of s:                                                        *)
(*   cur     the task on the processor, running_thread()                   *)
(*   status  task_struct.status                                            *)
(*   ready   thread_ready_list, a list of general_tag elements             *)
(*   ticks   task_struct.ticks, what is left of the time slice             *)
(*   ok      FALSE once an ASSERT has failed: the kernel has stopped        *)
(***************************************************************************)
EXTENDS Naturals, Sequences

CONSTANTS Threads,   \* the task_structs: main, idle and the processes
          Idle,      \* idle_thread
          priority   \* task_struct.priority, set once by init_thread

ASSUME IdleAssumption == Idle \in Threads
ASSUME PriorityAssumption == priority \in [Threads -> Nat]

(* enum task_status.  A task_struct not in use counts as DIED.             *)
TaskStatus == {"RUNNING", "READY", "BLOCKED", "WAITING", "HANGING", "DIED"}

Blocking == {"BLOCKED", "WAITING", "HANGING"}

SchedState == [cur    : Threads,
               status : [Threads -> TaskStatus],
               ready  : Seq(Threads),
               ticks  : [Threads -> Nat],
               ok     : BOOLEAN]

-----------------------------------------------------------------------------
(* lib/kernel/list.c.  A list is the sequence of its elements.             *)

list_push(plist, elem) == <<elem>> \o plist

list_append(plist, elem) == Append(plist, elem)

elem_find(plist, elem) == \E i \in 1..Len(plist) : plist[i] = elem

list_remove(plist, elem) ==
  LET i == CHOOSE i \in 1..Len(plist) : plist[i] = elem
  IN  SubSeq(plist, 1, i - 1) \o SubSeq(plist, i + 1, Len(plist))

(* ASSERT(c): a false condition panics.                                    *)
ASSERT(s, c) == [s EXCEPT !.ok = @ /\ c]

-----------------------------------------------------------------------------
(* thread_unblock puts the task at the FRONT of the ready list.            *)

thread_unblock(s, t) ==
  LET s1 == ASSERT(s, s.status[t] \in Blocking /\ ~elem_find(s.ready, t))
  IN  IF s.status[t] # "READY"
      THEN [s1 EXCEPT !.ready = list_push(@, t), !.status[t] = "READY"]
      ELSE s1

(* Mutated form: the task goes to the front of the ready list.             *)
requeue_front(s) ==
  IF s.status[s.cur] = "RUNNING"
  THEN [ASSERT(s, ~elem_find(s.ready, s.cur)) EXCEPT
          !.ready = list_push(@, s.cur),
          !.ticks[s.cur] = priority[s.cur],
          !.status[s.cur] = "READY"]
  ELSE s

(* The first half of schedule: a task whose time slice ran out goes to the *)
(* tail of the ready list; one that blocked or yielded is left as it is.   *)
requeue(s) ==
  IF s.status[s.cur] = "RUNNING"
  THEN [ASSERT(s, ~elem_find(s.ready, s.cur)) EXCEPT
          !.ready = list_append(@, s.cur),
          !.ticks[s.cur] = priority[s.cur],
          !.status[s.cur] = "READY"]
  ELSE s

(* The second half: the head of the ready list gets the processor.         *)
dispatch(s) ==
  LET next == Head(s.ready)
  IN  [s EXCEPT !.cur = next,
                !.ready = Tail(@),
                !.status[next] = "RUNNING"]

(* An empty ready list wakes the idle task.                                *)
wake_idle(s) == IF s.ready = << >> THEN thread_unblock(s, Idle) ELSE s

schedule(s) == dispatch(wake_idle(requeue(s)))

thread_block(s, stat) ==
  schedule([ASSERT(s, stat \in Blocking) EXCEPT !.status[s.cur] = stat])

thread_yield(s) ==
  schedule([ASSERT(s, ~elem_find(s.ready, s.cur)) EXCEPT
              !.ready = list_append(@, s.cur),
              !.status[s.cur] = "READY"])

(* What thread_start, process_execute and sys_fork share: a task_struct    *)
(* with a full time slice is appended to the ready list.                   *)
thread_start(s, t) ==
  [ASSERT(s, ~elem_find(s.ready, t)) EXCEPT
     !.ready = list_append(@, t),
     !.ticks[t] = priority[t],
     !.status[t] = "READY"]

(* thread_exit(t, FALSE), and thread_exit(running_thread(), TRUE).         *)
thread_exit(s, t) ==
  [s EXCEPT !.status[t] = "DIED",
            !.ready = IF elem_find(@, t) THEN list_remove(@, t) ELSE @]

thread_exit_self(s) == schedule(thread_exit(s, s.cur))

(* The scheduling half of intr_timer_handler.                              *)
timer_tick(s) ==
  IF s.ticks[s.cur] = 0
  THEN schedule(s)
  ELSE [s EXCEPT !.ticks[s.cur] = @ - 1]

-----------------------------------------------------------------------------
(* The state the scheduler keeps between calls.                            *)

NoDup(plist) == \A i, j \in 1..Len(plist) : plist[i] = plist[j] => i = j

(* The ready list holds the READY tasks, each once.                        *)
ReadyListInv(s) ==
  /\ NoDup(s.ready)
  /\ \A t \in Threads : elem_find(s.ready, t) <=> s.status[t] = "READY"

(* The task on the processor, and no other, is RUNNING.                    *)
CpuInv(s) == \A t \in Threads : s.status[t] = "RUNNING" <=> t = s.cur

(* The idle task never waits for anything but an empty ready list.         *)
IdleInv(s) == s.status[Idle] \in {"RUNNING", "READY", "BLOCKED"}

Consistent(s) == ReadyListInv(s) /\ CpuInv(s) /\ IdleInv(s)
=============================================================================
