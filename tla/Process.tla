------------------------------ MODULE Process -------------------------------
(***************************************************************************)
(* The life of a process: sys_fork (userprog/fork.c), sys_wait and         *)
(* sys_exit (userprog/wait_exit.c), with the pid pool, thread_all_list and *)
(* thread_exit of thread/thread.c, and the two tasks that live outside     *)
(* these rules, init and main (kernel/main.c).                             *)
(*                                                                         *)
(* A system call runs with interrupts off, so it is atomic up to the point *)
(* where it blocks.  A task is its task_struct, a page of kernel memory;   *)
(* what fork copies into the child's memory is not modelled, only whether  *)
(* the copy succeeds.                                                      *)
(***************************************************************************)
EXTENDS Thread, Integers, FiniteSets

CONSTANTS Init1,      \* the process init, pid 1
          Main,       \* main_thread, which exits when the system is up
          Statuses,   \* the arguments of exit
          MaxPid      \* bits of pid_pool.pid_bitmap, 1024 in the code

ASSUME TasksAssumption == Init1 \in Threads /\ Main \in Threads /\
                          Cardinality({Init1, Main, Idle}) = 3
ASSUME StatusAssumption == Statuses \subseteq Int
ASSUME PidAssumption == MaxPid \in Nat /\ MaxPid >= 3

VARIABLES sch,               \* the scheduler, module Thread
          pcbs,              \* the pages in use for a task_struct
          thread_all_list,
          pid, parent_pid, exit_status,   \* fields of the task_struct
          pid_bitmap,        \* the pids in use
          pc,                \* where each task is
          given,             \* the argument of exit, before it is stored
          got                \* the last status that sys_wait has stored

procVars == <<pcbs, thread_all_list, pid, parent_pid, exit_status, pid_bitmap, given, got>>
vars == <<sch, procVars, pc>>

Kernelthreads == {Main, Idle}
Pages == Threads \ {Init1, Main, Idle}

Int8(n) == ((n + 128) % 256) - 128

(* start    init, before its fork                                          *)
(* user     in user mode; main, in the kernel with interrupts on           *)
(* wait     in sys_wait after thread_block                                 *)
(* exit     in sys_exit after thread_block: it never runs again            *)
(* io       in another system call, blocked until an interrupt             *)
(* top, hlt the loop of idle                                               *)
Labels == {"start", "user", "wait", "exit", "io", "top", "hlt"}

(* thread_init: process_execute(init), make_main_thread, thread_start(idle). *)
Init ==
  LET alive == {Init1, Main, Idle}
      first == [t \in Threads |-> CASE t = Init1 -> 1 [] t = Main -> 2
                                    [] t = Idle -> 3 [] OTHER -> 0]
  IN  /\ sch = [cur    |-> Main,
                status |-> [t \in Threads |-> CASE t = Main -> "RUNNING"
                                                [] t \in {Init1, Idle} -> "READY"
                                                [] OTHER -> "DIED"],
                ready  |-> <<Init1, Idle>>,
                ticks  |-> priority,
                ok     |-> TRUE]
      /\ pcbs = alive
      /\ thread_all_list = <<Init1, Main, Idle>>
      /\ pid = first
      /\ parent_pid = [t \in Threads |-> -1]
      /\ exit_status = [t \in Threads |-> 0]
      /\ pid_bitmap = 1..3
      /\ pc = [t \in Threads |-> CASE t = Init1 -> "start" [] t = Idle -> "top"
                                   [] OTHER -> "user"]
      /\ given = [t \in Threads |-> 0]
      /\ got = 0

At(t, label) == sch.ok /\ sch.cur = t /\ pc[t] = label

Goto(t, label) == pc' = [pc EXCEPT ![t] = label]

Listed(t) == elem_find(thread_all_list, t)

-----------------------------------------------------------------------------
(* Mutated form: the pids in use are counted.                              *)
allocate_pid_count == Cardinality(pid_bitmap) + 1

(* allocate_pid: the first clear bit of the bitmap.                        *)
allocate_pid == CHOOSE p \in 1..MaxPid :
                  p \notin pid_bitmap /\ \A q \in 1..(p - 1) : q \in pid_bitmap

PidLeft == \E p \in 1..MaxPid : p \notin pid_bitmap

(* list_traversal of thread_all_list: the first task for which the         *)
(* callback, find_child, find_hanging_child or pid_check, returns true.    *)
list_traversal(tasks) ==
  thread_all_list[CHOOSE i \in 1..Len(thread_all_list) :
    /\ thread_all_list[i] \in tasks
    /\ \A j \in 1..(i - 1) : thread_all_list[j] \notin tasks]

Child(t, p) == Listed(t) /\ parent_pid[t] = pid[p]

(* Mutated form: the status of the child is not looked at.                 *)
HangingChild_any(t, p) == Child(t, p)

HangingChild(t, p) == Child(t, p) /\ sch.status[t] = "HANGING"

HasPid(t, p) == Listed(t) /\ pid[t] = p

pid2thread(p) == list_traversal({t \in Threads : HasPid(t, p)})

-----------------------------------------------------------------------------
CanFork(t) == (At(t, "user") /\ t \notin Kernelthreads \cup {Init1}) \/ At(t, "start")

sys_fork(t, child) ==
  /\ CanFork(t) /\ PidLeft
  /\ child \in Pages \ pcbs
  /\ pcbs' = pcbs \cup {child}
  /\ pid' = [pid EXCEPT ![child] = allocate_pid]
  /\ pid_bitmap' = pid_bitmap \cup {allocate_pid}
  /\ parent_pid' = [parent_pid EXCEPT ![child] = pid[t]]
  /\ sch' = thread_start(ASSERT(sch, ~Listed(child)), child)
  /\ thread_all_list' = list_append(thread_all_list, child)
  /\ pc' = [pc EXCEPT ![child] = "user", ![t] = "user"]
  /\ UNCHANGED <<exit_status, given, got>>

(* copy_process fails for want of memory, before or after it has taken a   *)
(* pid for the child.  Neither the page nor the pid is given back.         *)
sys_fork_fails(t, child, pid_taken) ==
  /\ CanFork(t) /\ PidLeft
  /\ child \in Pages \ pcbs
  /\ pcbs' = pcbs \cup {child}
  /\ pid_bitmap' = IF pid_taken THEN pid_bitmap \cup {allocate_pid} ELSE pid_bitmap
  /\ Goto(t, "user")
  /\ UNCHANGED <<sch, thread_all_list, pid, parent_pid, exit_status, given, got>>

-----------------------------------------------------------------------------
(* One turn of the loop of sys_wait, from its start or from the return of  *)
(* thread_block.                                                           *)
InWait(t) == (At(t, "user") /\ t \notin Kernelthreads) \/ At(t, "wait")

(* Mutated form: thread_exit leaves the task in thread_all_list.           *)
wait_reap_listed(t) ==
  /\ InWait(t)
  /\ \E c \in Threads : HangingChild(c, t)
  /\ LET child == list_traversal({c \in Threads : HangingChild(c, t)})
     IN  /\ got' = exit_status[child]
         /\ sch' = thread_exit(sch, child)
         /\ pcbs' = pcbs \ {child}
         /\ pc' = [pc EXCEPT ![t] = "user"]
         /\ UNCHANGED <<thread_all_list, pid_bitmap, pid, parent_pid, exit_status, given>>

(* thread_exit(child, false), of the first hanging child.                  *)
wait_reap(t) ==
  /\ InWait(t)
  /\ \E c \in Threads : HangingChild(c, t)
  /\ LET child == list_traversal({c \in Threads : HangingChild(c, t)})
     IN  /\ got' = exit_status[child]
         /\ sch' = thread_exit(sch, child)
         /\ thread_all_list' = list_remove(thread_all_list, child)
         /\ pcbs' = pcbs \ {child}
         /\ pid_bitmap' = pid_bitmap \ {pid[child]}
         /\ pid' = [pid EXCEPT ![child] = 0]
         /\ parent_pid' = [parent_pid EXCEPT ![child] = -1]
         /\ exit_status' = [exit_status EXCEPT ![child] = 0]
         /\ given' = [given EXCEPT ![child] = 0]
         /\ pc' = [pc EXCEPT ![child] = "user", ![t] = "user"]

wait_block(t) ==
  /\ InWait(t)
  /\ ~\E c \in Threads : HangingChild(c, t)
  /\ \E c \in Threads : Child(c, t)
  /\ sch' = thread_block(sch, "WAITING")
  /\ Goto(t, "wait")
  /\ UNCHANGED procVars

wait_no_child(t) ==
  /\ InWait(t)
  /\ ~\E c \in Threads : Child(c, t)
  /\ Goto(t, "user")
  /\ UNCHANGED <<sch, procVars>>

sys_wait(t) == wait_reap(t) \/ wait_block(t) \/ wait_no_child(t)

-----------------------------------------------------------------------------
(* Mutated forms: the children are forgotten; the parent is woken whatever *)
(* it does; the parent is never woken.                                     *)
init_adopt_none(t) == parent_pid

init_adopt(t) ==
  [c \in Threads |-> IF Child(c, t) THEN 1 ELSE parent_pid[c]]

wake_parent_always(s, parent) == thread_unblock(s, parent)

wake_parent_never(s, parent) == s

wake_parent(s, parent) ==
  IF s.status[parent] = "WAITING" THEN thread_unblock(s, parent) ELSE s

(* The children go to init, the parent is woken if it is in sys_wait, and  *)
(* the process hangs until the parent asks for it.  A parent_pid of -1, or *)
(* of no process, stops the kernel.                                        *)
sys_exit(t, status) ==
  /\ At(t, "user") /\ t \notin Kernelthreads \cup {Init1}
  /\ given' = [given EXCEPT ![t] = status]
  /\ exit_status' = [exit_status EXCEPT ![t] = Int8(status)]
  /\ parent_pid' = init_adopt(t)
  /\ sch' = LET known == \E p \in Threads : HasPid(p, parent_pid[t])
                parent == pid2thread(parent_pid[t])
                s == ASSERT(sch, parent_pid[t] # -1 /\ known)
            IN  thread_block(IF s.ok THEN wake_parent(s, parent) ELSE s, "HANGING")
  /\ Goto(t, "exit")
  /\ UNCHANGED <<pcbs, thread_all_list, pid, pid_bitmap, got>>

(* The end of main: thread_exit(running_thread(), true).  Its task_struct  *)
(* is not on a page of the kernel pool.                                    *)
main_exits ==
  /\ At(Main, "user")
  /\ sch' = thread_exit_self(sch)
  /\ thread_all_list' = list_remove(thread_all_list, Main)
  /\ pid_bitmap' = pid_bitmap \ {pid[Main]}
  /\ UNCHANGED <<pcbs, pid, parent_pid, exit_status, given, got, pc>>

-----------------------------------------------------------------------------
InterruptsOn == sch.ok /\ pc[sch.cur] \in {"start", "user", "hlt"}

wake_hlt ==
  pc' = [pc EXCEPT ![Idle] = IF sch.cur = Idle /\ @ = "hlt" THEN "top" ELSE @]

timer_interrupt ==
  /\ InterruptsOn
  /\ sch' = timer_tick(sch)
  /\ wake_hlt
  /\ UNCHANGED procVars

(* A task sleeps in other kernel code, on the disk say, until an interrupt. *)
io_wait(t) ==
  /\ At(t, "user")
  /\ sch' = thread_block(sch, "BLOCKED")
  /\ Goto(t, "io")
  /\ UNCHANGED procVars

io_done(t) ==
  /\ InterruptsOn /\ pc[t] = "io" /\ sch.status[t] = "BLOCKED"
  /\ sch' = thread_unblock(sch, t)
  /\ wake_hlt
  /\ UNCHANGED procVars

io_return(t) ==
  /\ At(t, "io")
  /\ Goto(t, "user")
  /\ UNCHANGED <<sch, procVars>>

idle ==
  /\ At(Idle, "top")
  /\ sch' = thread_block(sch, "BLOCKED")
  /\ Goto(Idle, "hlt")
  /\ UNCHANGED procVars

Next ==
  \/ \E t \in Threads :
       \/ sys_wait(t)
       \/ \E child \in Threads : \/ sys_fork(t, child)
                                 \/ \E b \in BOOLEAN : sys_fork_fails(t, child, b)
       \/ \E v \in Statuses : sys_exit(t, v)
       \/ io_wait(t) \/ io_done(t) \/ io_return(t)
  \/ main_exits
  \/ timer_interrupt
  \/ idle

Spec == Init /\ [][Next]_vars

(* The kernel's code runs on, and the timer and the devices go on          *)
(* interrupting.  Nothing is asked of the programs.                        *)
Fairness ==
  /\ WF_vars(idle)
  /\ SF_vars(timer_interrupt)
  /\ \A t \in Threads :
       /\ WF_vars(At(t, "wait") /\ sys_wait(t))
       /\ WF_vars(io_return(t))
       /\ SF_vars(io_done(t))

FairSpec == Spec /\ Fairness

-----------------------------------------------------------------------------
(* No ASSERT or PANIC is reached: in particular sys_exit always finds the  *)
(* task_struct of its parent.                                              *)
NoPanic == sch.ok

(* Two tasks never have the same pid, and the pid of a task is marked in   *)
(* the bitmap for as long as the task exists, so that neither sys_wait nor *)
(* pid2thread can take one task for another when pids are used again.      *)
PidsUnique ==
  /\ \A t, u \in Threads : Listed(t) /\ Listed(u) /\ pid[t] = pid[u] => t = u
  /\ \A t \in Threads : Listed(t) => pid[t] \in pid_bitmap

(* The parent of a process is a process that has not exited: an exit hands *)
(* the children to init, so nobody is left whose exit wakes no one and     *)
(* whose status nobody can fetch.                                          *)
ParentAlive ==
  \A t \in Threads \ {Init1, Main, Idle} :
    Listed(t) => \E p \in Threads \ {Main, Idle} :
                   /\ HasPid(p, parent_pid[t])
                   /\ sch.status[p] \notin {"HANGING", "DIED"}

(* No list, and no processor, refers to a task_struct whose page has been  *)
(* given back by thread_exit.                                              *)
NoFreedTask ==
  \A t \in Threads :
    Listed(t) \/ elem_find(sch.ready, t) \/ sch.cur = t => t \in pcbs

(* No exit is missed: a process that sleeps in sys_wait has a child, and   *)
(* none that has exited already.  Of init only the first half holds.       *)
WaiterHasNoZombie ==
  \A p \in Threads : sch.status[p] = "WAITING" =>
    /\ \E c \in Threads : Child(c, p)
    /\ p # Init1 => ~\E c \in Threads : HangingChild(c, p)

(* A task_struct leaves thread_all_list in sys_wait of its parent, after   *)
(* its own exit, and the parent gets the status the child gave to exit.    *)
ReapStep ==
  \A c \in Threads \ {Main} :
    Listed(c) /\ ~Listed(c)' =>
      /\ parent_pid[c] = pid[sch.cur] /\ sch.status[c] = "HANGING"
      /\ got' = given[c]

StatusDelivered == [][ReapStep]_vars

(* sys_wait of a process with a child that has exited returns.             *)
WaitReturns ==
  \A p \in Threads \ {Init1} :
    (pc[p] = "wait" /\ \E c \in Threads : HangingChild(c, p)) ~> pc[p] = "user"

(* "init reaps zombies here without end": init is not asleep while one of  *)
(* its children has exited and waits to be reaped.                         *)
InitReapsZombies ==
  sch.status[Init1] = "WAITING" => ~\E c \in Threads : HangingChild(c, Init1)
=============================================================================
