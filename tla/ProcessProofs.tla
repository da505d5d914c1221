--------------------------- MODULE ProcessProofs ----------------------------
(***************************************************************************)
(* What Process promises, for any number of tasks, any number of pids and  *)
(* any arguments of exit.                                                  *)
(***************************************************************************)
EXTENDS Process, ThreadProofs, FiniteSetTheorems, WellFoundedInduction

-----------------------------------------------------------------------------
(* The inductive invariant.                                                *)

TypeOK ==
  /\ sch \in SchedState
  /\ pcbs \subseteq Threads
  /\ thread_all_list \in Seq(Threads)
  /\ pid \in [Threads -> Nat] /\ parent_pid \in [Threads -> Int]
  /\ pid_bitmap \subseteq Nat
  /\ pc \in [Threads -> Labels]

(* Only init forks before it is in user mode, and only idle is in the loop *)
(* of idle.                                                                *)
PcInv ==
  /\ pc[Idle] \in {"top", "hlt"}
  /\ \A t \in Threads : pc[t] = "start" => t = Init1

(* thread_all_list holds the tasks that have not died, each once, and      *)
(* their task_structs are on pages in use.                                 *)
TaskInv ==
  /\ NoDup(thread_all_list)
  /\ {Init1, Main, Idle} \subseteq pcbs
  /\ \A t \in Threads : /\ Listed(t) <=> sch.status[t] # "DIED"
                        /\ Listed(t) => t \in pcbs

(* Init keeps pid 1, and no task has the pid 0 of an unused task_struct.   *)
PidInv ==
  /\ PidsUnique
  /\ pid[Init1] = 1
  /\ \A t \in Threads : Listed(t) => pid[t] # 0

(* Init, main and idle have no parent, and init never exits: it is there   *)
(* to adopt.                                                               *)
FamilyInv ==
  /\ \A t \in {Init1, Main, Idle} : parent_pid[t] = -1
  /\ sch.status[Init1] \notin {"HANGING", "DIED"}
  /\ ParentAlive
  /\ WaiterHasNoZombie

PInv ==
  /\ TypeOK /\ NoPanic /\ Consistent(sch)
  /\ PcInv /\ TaskInv /\ PidInv /\ FamilyInv

-----------------------------------------------------------------------------
(* Searches.                                                               *)

(* Init, main and idle are three tasks.                                    *)
LEMMA ThreeTasks ==
  /\ Init1 \in Threads /\ Main \in Threads /\ Idle \in Threads
  /\ Init1 # Main /\ Init1 # Idle /\ Main # Idle
<1>1. \A a, b : Cardinality({a, b}) <= 2
  <2> TAKE a, b
  <2>1. IsFiniteSet({a}) /\ Cardinality({a}) = 1
    BY FS_Singleton
  <2>2. Cardinality({a} \cup {b}) = 1 \/ Cardinality({a} \cup {b}) = 2
    BY <2>1, FS_AddElement
  <2>3. {a} \cup {b} = {a, b}
    OBVIOUS
  <2> QED
    BY <2>2, <2>3
<1>2. Init1 # Main
  <2> SUFFICES ASSUME Init1 = Main PROVE FALSE
    OBVIOUS
  <2>1. {Init1, Main, Idle} = {Main, Idle}
    OBVIOUS
  <2>2. Cardinality({Main, Idle}) = 3
    BY <2>1, TasksAssumption
  <2>3. Cardinality({Main, Idle}) <= 2
    BY <1>1
  <2> QED
    BY <2>2, <2>3
<1>3. Init1 # Idle
  <2> SUFFICES ASSUME Init1 = Idle PROVE FALSE
    OBVIOUS
  <2>1. {Init1, Main, Idle} = {Main, Idle}
    OBVIOUS
  <2>2. Cardinality({Main, Idle}) = 3
    BY <2>1, TasksAssumption
  <2>3. Cardinality({Main, Idle}) <= 2
    BY <1>1
  <2> QED
    BY <2>2, <2>3
<1>4. Main # Idle
  <2> SUFFICES ASSUME Main = Idle PROVE FALSE
    OBVIOUS
  <2>1. {Init1, Main, Idle} = {Init1, Idle}
    OBVIOUS
  <2>2. Cardinality({Init1, Idle}) = 3
    BY <2>1, TasksAssumption
  <2>3. Cardinality({Init1, Idle}) <= 2
    BY <1>1
  <2> QED
    BY <2>2, <2>3
<1> QED
  BY <1>2, <1>3, <1>4, TasksAssumption, IdleAssumption

(* A set of numbers that has an element has a first one.                   *)
LEMMA LeastNat ==
  ASSUME NEW T \in SUBSET Nat, T # {}
  PROVE  \E m \in T : \A k \in T : m <= k
<1>1. \E x \in T : \A y \in T : ~(<<y, x>> \in OpToRel(<, Nat))
  BY WFMin, NatLessThanWellFounded
<1>2. PICK x \in T : \A y \in T : ~(<<y, x>> \in OpToRel(<, Nat))
  BY <1>1
<1>3. \A y \in T : ~(y < x)
  BY <1>2 DEF OpToRel
<1>4. x \in Nat /\ \A y \in T : y \in Nat
  OBVIOUS
<1> QED
  BY <1>3, <1>4

(* allocate_pid returns a pid that was not in use.                         *)
LEMMA AllocateLemma ==
  ASSUME PidLeft
  PROVE  allocate_pid \in 1..MaxPid /\ allocate_pid \notin pid_bitmap
<1> DEFINE free == {p \in 1..MaxPid : p \notin pid_bitmap}
<1>1. PICK p \in free : \A q \in free : p <= q
  <2>1. free \in SUBSET Nat /\ free # {}
    BY PidAssumption DEF PidLeft
  <2> QED
    BY <2>1, LeastNat
<1>2. \A q \in 1..(p - 1) : q \in pid_bitmap
  BY <1>1, PidAssumption
<1> QED
  BY <1>1, <1>2 DEF allocate_pid

(* list_traversal returns a task for which the callback returns true, if   *)
(* thread_all_list has one.                                                *)
LEMMA TraversalLemma ==
  ASSUME thread_all_list \in Seq(Threads), NEW S, NEW t \in S, Listed(t)
  PROVE  /\ list_traversal(S) \in S /\ list_traversal(S) \in Threads
         /\ Listed(list_traversal(S))
<1> DEFINE L == thread_all_list
           hits == {i \in 1..Len(L) : L[i] \in S}
<1>1. PICK i \in hits : \A j \in hits : i <= j
  <2>1. hits \in SUBSET Nat /\ hits # {}
    BY DEF Listed, elem_find
  <2> QED
    BY <2>1, LeastNat
<1>2. \A j \in 1..(i - 1) : L[j] \notin S
  BY <1>1
<1>3. PICK k \in 1..Len(L) : L[k] \in S /\ list_traversal(S) = L[k]
  BY <1>1, <1>2 DEF list_traversal
<1> QED
  BY <1>3 DEF Listed, elem_find

-----------------------------------------------------------------------------
(* Facts about the state.                                                  *)

(* The task on the processor is RUNNING, hence in thread_all_list.         *)
LEMMA RunnerFacts ==
  ASSUME PInv, NEW t \in Threads, sch.cur = t
  PROVE  /\ sch \in SchedState /\ Consistent(sch) /\ sch.ok
         /\ sch.status[t] = "RUNNING" /\ Listed(t)
BY DEF PInv, TypeOK, NoPanic, Consistent, CpuInv, TaskInv

(* A task that has a parent is on one of the pages.                        *)
LEMMA ChildIsPage ==
  ASSUME PInv, NEW c \in Threads, NEW p \in Threads, Child(c, p)
  PROVE  c \in Pages
BY DEF PInv, TypeOK, FamilyInv, Child, Pages

(* A step neither ends the life of a task nor brings one to life.          *)
SameLives ==
  \A t \in Threads : /\ sch'.status[t] = "DIED" <=> sch.status[t] = "DIED"
                     /\ sch'.status[t] = "HANGING" <=> sch.status[t] = "HANGING"

(* Tasks fall asleep in sys_wait only when they have a child, and none     *)
(* that hangs.                                                             *)
SoundWaits ==
  \A t \in Threads :
    sch'.status[t] = "WAITING" =>
      \/ sch.status[t] = "WAITING"
      \/ /\ \E c \in Threads : Child(c, t)
         /\ ~\E c \in Threads : HangingChild(c, t)

(* A step that changes no task_struct otherwise keeps the invariant.       *)
LEMMA QuietKeeps ==
  ASSUME PInv, UNCHANGED procVars, SameLives, SoundWaits,
         sch' \in SchedState, Consistent(sch'), sch'.ok,
         pc' \in [Threads -> Labels], PcInv'
  PROVE  PInv'
<1>1. UNCHANGED <<pcbs, thread_all_list, pid, parent_pid, pid_bitmap>>
  BY DEF procVars
<1>2. TypeOK'
  BY <1>1 DEF PInv, TypeOK
<1>3. TaskInv'
  BY <1>1 DEF PInv, TaskInv, SameLives, Listed
<1>4. PidInv'
  BY <1>1 DEF PInv, PidInv, PidsUnique, Listed
<1>5. ParentAlive'
  BY <1>1 DEF PInv, FamilyInv, ParentAlive, HasPid, Listed, SameLives
<1>6. WaiterHasNoZombie'
  <2>1. \A c, p \in Threads : /\ Child(c, p)' <=> Child(c, p)
                              /\ HangingChild(c, p)' <=> HangingChild(c, p)
    BY <1>1 DEF Child, HangingChild, Listed, SameLives
  <2> QED
    BY <2>1 DEF PInv, FamilyInv, WaiterHasNoZombie, SoundWaits
<1>7. FamilyInv'
  BY <1>1, <1>5, <1>6, TasksAssumption DEF PInv, FamilyInv, SameLives
<1> QED
  BY <1>2, <1>3, <1>4, <1>7 DEF PInv, NoPanic

(* The scheduler's other steps, seen from the processes.                   *)
LEMMA AwakeFacts ==
  ASSUME NEW s \in SchedState, NEW r \in SchedState, Consistent(s), Consistent(r),
         NEW u, SameSleepersBut(u, s, r), NEW t \in Threads, t # u
  PROVE  /\ r.status[t] = "DIED" <=> s.status[t] = "DIED"
         /\ r.status[t] = "HANGING" <=> s.status[t] = "HANGING"
         /\ r.status[t] = "WAITING" <=> s.status[t] = "WAITING"
<1>1. CASE t = Idle
  BY <1>1 DEF Consistent, IdleInv
<1>2. CASE t # Idle
  BY <1>2 DEF SameSleepersBut, Awake
<1> QED
  BY <1>1, <1>2

(* An interrupt ends the hlt of idle and moves no other task.              *)
LEMMA WakeHltFacts ==
  ASSUME PInv, wake_hlt
  PROVE  pc' \in [Threads -> Labels] /\ PcInv'
<1>1. Idle \in Threads /\ Init1 # Idle
  BY ThreeTasks
<1> QED
  BY <1>1 DEF PInv, TypeOK, PcInv, wake_hlt, Labels

(* A timer interrupt, which may give the processor to another task.        *)
LEMMA TimerKeeps ==
  ASSUME PInv, timer_interrupt
  PROVE  PInv'
<1>1. sch \in SchedState /\ Consistent(sch) /\ sch.ok /\ sch' = timer_tick(sch)
  BY DEF PInv, TypeOK, NoPanic, timer_interrupt
<1>2. sch' \in SchedState /\ Consistent(sch') /\ sch'.ok /\ SameSleepers(sch, sch')
  BY <1>1, TickLemma
<1>3. SameSleepersBut(Idle, sch, sch')
  BY <1>2 DEF SameSleepers, SameSleepersBut
<1>4. sch.status[Idle] \in Awake \cup {"BLOCKED"} /\ sch'.status[Idle] \in Awake \cup {"BLOCKED"}
  BY <1>1, <1>2 DEF Consistent, IdleInv, Awake
<1>5. SameLives /\ SoundWaits
  BY <1>1, <1>2, <1>3, <1>4, AwakeFacts DEF SameLives, SoundWaits, Awake
<1> QED
  BY <1>2, <1>5, WakeHltFacts, QuietKeeps DEF timer_interrupt

(* A task other than idle falls asleep.                                    *)
LEMMA SleepKeeps ==
  ASSUME PInv, UNCHANGED procVars, NEW t \in Threads, sch.cur = t,
         NEW stat \in {"BLOCKED", "WAITING"}, sch' = thread_block(sch, stat),
         t = Idle => stat = "BLOCKED", pc' \in [Threads -> Labels], PcInv',
         stat = "WAITING" => /\ \E c \in Threads : Child(c, t)
                             /\ ~\E c \in Threads : HangingChild(c, t)
  PROVE  PInv'
<1>1. sch \in SchedState /\ Consistent(sch) /\ sch.ok /\ sch.status[t] = "RUNNING"
  BY RunnerFacts
<1>2. /\ sch' \in SchedState /\ Consistent(sch') /\ sch'.ok
      /\ t # Idle => sch'.status[t] = stat
      /\ SameSleepersBut(t, sch, sch')
  BY <1>1, BlockLemma DEF Blocking
<1>3. t = Idle => sch'.status[t] \in {"RUNNING", "READY", "BLOCKED"}
  BY <1>2 DEF Consistent, IdleInv
<1>4. SameLives /\ SoundWaits
  BY <1>1, <1>2, <1>3, AwakeFacts DEF SameLives, SoundWaits
<1> QED
  BY <1>2, <1>4, QuietKeeps

(* Sleeping on a device, its end, idle, and the turns of sys_wait that     *)
(* find no child that hangs.                                               *)
LEMMA IoWaitKeeps ==
  ASSUME PInv, NEW t \in Threads, io_wait(t)
  PROVE  PInv'
<1>1. /\ sch.cur = t /\ pc[t] = "user" /\ sch' = thread_block(sch, "BLOCKED")
      /\ pc' = [pc EXCEPT ![t] = "io"] /\ UNCHANGED procVars
  BY DEF io_wait, At, Goto
<1>2. pc' \in [Threads -> Labels] /\ PcInv'
  BY <1>1, IdleAssumption DEF PInv, TypeOK, PcInv, Labels
<1> QED
  BY <1>1, <1>2, SleepKeeps

(* idle blocks itself before it halts.                                     *)
LEMMA IdleKeeps ==
  ASSUME PInv, idle
  PROVE  PInv'
<1>1. /\ sch.cur = Idle /\ sch' = thread_block(sch, "BLOCKED")
      /\ pc' = [pc EXCEPT ![Idle] = "hlt"] /\ UNCHANGED procVars
  BY DEF idle, At, Goto
<1>2. pc' \in [Threads -> Labels] /\ PcInv'
  BY <1>1, IdleAssumption DEF PInv, TypeOK, PcInv, Labels
<1> QED
  BY <1>1, <1>2, SleepKeeps, IdleAssumption

(* sys_wait finds no zombie and blocks as WAITING.                         *)
LEMMA WaitBlockKeeps ==
  ASSUME PInv, NEW t \in Threads, wait_block(t)
  PROVE  PInv'
<1>1. /\ sch.cur = t /\ pc[t] \in {"user", "wait"} /\ sch' = thread_block(sch, "WAITING")
      /\ pc' = [pc EXCEPT ![t] = "wait"] /\ UNCHANGED procVars
      /\ \E c \in Threads : Child(c, t)
      /\ ~\E c \in Threads : HangingChild(c, t)
  BY DEF wait_block, InWait, At, Goto
<1>2. pc' \in [Threads -> Labels] /\ PcInv' /\ t # Idle
  BY <1>1, IdleAssumption DEF PInv, TypeOK, PcInv, Labels
<1> QED
  BY <1>1, <1>2, SleepKeeps

(* The interrupt that ends the wait of a task blocked elsewhere.           *)
LEMMA IoDoneKeeps ==
  ASSUME PInv, NEW t \in Threads, io_done(t)
  PROVE  PInv'
<1>1. /\ sch \in SchedState /\ Consistent(sch) /\ sch.ok /\ sch' = thread_unblock(sch, t)
      /\ sch.status[t] = "BLOCKED"
  BY DEF PInv, TypeOK, NoPanic, io_done
<1>2. /\ sch' \in SchedState /\ ReadyListInv(sch') /\ sch'.ok /\ sch'.cur = sch.cur
      /\ sch'.status = [sch.status EXCEPT ![t] = "READY"]
  BY <1>1, UnblockLemma DEF Consistent, Blocking
<1>3. Consistent(sch')
  BY <1>1, <1>2, IdleAssumption DEF Consistent, CpuInv, IdleInv, SchedState
<1>4. SameLives /\ SoundWaits
  BY <1>1, <1>2 DEF SameLives, SoundWaits, SchedState
<1> QED
  BY <1>2, <1>3, <1>4, WakeHltFacts, QuietKeeps DEF io_done

(* A task that was woken goes on, or sys_wait finds no child to wait for.  *)
LEMMA ReturnKeeps ==
  ASSUME PInv, NEW t \in Threads, io_return(t) \/ wait_no_child(t)
  PROVE  PInv'
<1>1. /\ pc[t] \notin {"top", "hlt"} /\ pc' = [pc EXCEPT ![t] = "user"]
      /\ UNCHANGED <<sch, procVars>>
  BY DEF io_return, wait_no_child, InWait, At, Goto
<1>2. pc' \in [Threads -> Labels] /\ PcInv'
  BY <1>1, IdleAssumption DEF PInv, TypeOK, PcInv, Labels
<1>3. SameLives /\ SoundWaits
  BY <1>1 DEF SameLives, SoundWaits
<1> QED
  BY <1>1, <1>2, <1>3, QuietKeeps DEF PInv, TypeOK, NoPanic

-----------------------------------------------------------------------------
(* fork.                                                                   *)

(* A failed fork leaves a page and perhaps a pid in use.                   *)
LEMMA ForkFailsKeeps ==
  ASSUME PInv, NEW t \in Threads, NEW child \in Threads, NEW b \in BOOLEAN,
         sys_fork_fails(t, child, b)
  PROVE  PInv'
<1>1. /\ sch.cur = t /\ pc[t] \in {"user", "start"} /\ PidLeft
      /\ pcbs' = pcbs \cup {child} /\ pc' = [pc EXCEPT ![t] = "user"]
      /\ pid_bitmap' \in {pid_bitmap, pid_bitmap \cup {allocate_pid}}
      /\ UNCHANGED <<sch, thread_all_list, pid, parent_pid>>
  BY DEF sys_fork_fails, CanFork, At, Goto
<1>2. allocate_pid \in Nat
  BY <1>1, AllocateLemma, PidAssumption
<1>3. TypeOK'
  BY <1>1, <1>2 DEF PInv, TypeOK, Labels
<1>4. PcInv'
  BY <1>1, IdleAssumption DEF PInv, TypeOK, PcInv
<1>5. TaskInv' /\ PidInv'
  BY <1>1 DEF PInv, TaskInv, PidInv, PidsUnique, Listed
<1>6. FamilyInv'
  BY <1>1 DEF PInv, FamilyInv, ParentAlive, WaiterHasNoZombie, HasPid, Child,
              HangingChild, Listed
<1>7. NoPanic' /\ Consistent(sch')
  BY <1>1 DEF PInv, NoPanic
<1> QED
  BY <1>3, <1>4, <1>5, <1>6, <1>7 DEF PInv

(* The child gets a pid nobody has, and the caller, which is no kernel     *)
(* thread and has not exited, as its parent.                               *)
LEMMA ForkKeeps ==
  ASSUME PInv, NEW t \in Threads, NEW child \in Threads, sys_fork(t, child)
  PROVE  PInv'
<1>1. /\ sch.cur = t /\ PidLeft /\ child \in Pages \ pcbs
      /\ pcbs' = pcbs \cup {child}
      /\ pid' = [pid EXCEPT ![child] = allocate_pid]
      /\ pid_bitmap' = pid_bitmap \cup {allocate_pid}
      /\ parent_pid' = [parent_pid EXCEPT ![child] = pid[t]]
      /\ thread_all_list' = list_append(thread_all_list, child)
      /\ pc' = [pc EXCEPT ![child] = "user", ![t] = "user"]
      /\ sch' = thread_start(ASSERT(sch, ~Listed(child)), child)
  BY DEF sys_fork, CanFork, At
<1>2. /\ sch \in SchedState /\ Consistent(sch) /\ sch.ok
      /\ sch.status[t] = "RUNNING" /\ Listed(t)
  BY <1>1, RunnerFacts
<1>3. /\ child \notin {Init1, Main, Idle} /\ ~Listed(child) /\ sch.status[child] = "DIED"
      /\ child # t
  BY <1>1, <1>2 DEF PInv, TaskInv, Pages
<1>4. t \notin {Main, Idle}
  <2>1. pc[t] = "start" => t = Init1
    BY DEF PInv, PcInv
  <2> QED
    BY <2>1, ThreeTasks DEF sys_fork, CanFork, At, Kernelthreads
<1>5. PICK p : p = allocate_pid /\ p \in Nat \ {0} /\ p \notin pid_bitmap
  BY <1>1, AllocateLemma, PidAssumption
<1>6. /\ sch' \in SchedState /\ Consistent(sch') /\ sch'.ok
      /\ sch'.status = [sch.status EXCEPT ![child] = "READY"]
  <2>1. sch' = thread_start(sch, child)
    BY <1>1, <1>2, <1>3, AssertLemma
  <2> QED
    BY <1>2, <1>3, <2>1, StartLemma
<1>7. /\ thread_all_list' \in Seq(Threads) /\ NoDup(thread_all_list')
      /\ \A x \in Threads : Listed(x)' <=> Listed(x) \/ x = child
  <2>1. PICK q, r : q = thread_all_list /\ r = thread_all_list'
    OBVIOUS
  <2>2. /\ q \in Seq(Threads) /\ NoDup(q) /\ ~elem_find(q, child)
        /\ r = list_append(q, child)
    BY <1>1, <1>3, <2>1 DEF PInv, TypeOK, TaskInv, Listed
  <2>3. /\ r \in Seq(Threads) /\ NoDup(r)
        /\ \A x : elem_find(r, x) <=> elem_find(q, x) \/ x = child
    BY <2>2, AppendLemma
  <2> QED
    BY <2>1, <2>3 DEF Listed
<1>8. \A x \in Threads : /\ x # child => /\ pid'[x] = pid[x] /\ parent_pid'[x] = parent_pid[x]
                                         /\ sch'.status[x] = sch.status[x]
                         /\ x = child => /\ pid'[x] = p /\ parent_pid'[x] = pid[t]
                                         /\ sch'.status[x] = "READY"
  <2>1. \A x \in Threads : /\ pid'[x] = IF x = child THEN p ELSE pid[x]
                           /\ parent_pid'[x] = IF x = child THEN pid[t] ELSE parent_pid[x]
    BY <1>1, <1>5 DEF PInv, TypeOK
  <2>2. \A x \in Threads : sch'.status[x] = IF x = child THEN "READY" ELSE sch.status[x]
    BY <1>2, <1>6 DEF SchedState
  <2> QED
    BY <2>1, <2>2
<1>9. TypeOK'
  <2>1. pc \in [Threads -> Labels] /\ "user" \in Labels
    BY DEF PInv, TypeOK, Labels
  <2>2. pc' \in [Threads -> Labels]
    BY <1>1, <2>1
  <2>3. pid' \in [Threads -> Nat] /\ parent_pid' \in [Threads -> Int]
    BY <1>1, <1>5 DEF PInv, TypeOK
  <2> QED
    BY <1>1, <1>5, <1>6, <1>7, <2>2, <2>3 DEF PInv, TypeOK
<1>10. PcInv'
  <2>1. pc \in [Threads -> Labels] /\ Idle \in Threads
    BY IdleAssumption DEF PInv, TypeOK
  <2>2. \A x \in Threads : pc'[x] = IF x \in {child, t} THEN "user" ELSE pc[x]
    BY <1>1, <1>3, <2>1
  <2> QED
    BY <1>3, <1>4, <2>1, <2>2 DEF PInv, PcInv
<1>11. TaskInv'
  <2>1. TaskInv
    BY DEF PInv
  <2>2. \A x \in Threads : /\ Listed(x)' <=> sch'.status[x] # "DIED"
                           /\ Listed(x)' => x \in pcbs'
    BY <1>1, <1>7, <1>8, <2>1 DEF TaskInv
  <2> QED
    BY <1>1, <1>7, <2>1, <2>2 DEF TaskInv
<1>12. PidInv'
  <2>1. PidsUnique'
    <3>1. /\ \A x, y \in Threads : Listed(x) /\ Listed(y) /\ pid[x] = pid[y] => x = y
          /\ \A x \in Threads : Listed(x) => pid[x] \in pid_bitmap
      BY DEF PInv, PidInv, PidsUnique
    <3>2. \A x \in Threads : Listed(x)' => pid'[x] \in pid_bitmap'
      <4>1. pid_bitmap' = pid_bitmap \cup {p}
        BY <1>1, <1>5
      <4> QED
        BY <1>7, <1>8, <3>1, <4>1
    <3>3. \A x, y \in Threads : Listed(x)' /\ Listed(y)' /\ pid'[x] = pid'[y] => x = y
      BY <1>5, <1>7, <1>8, <3>1
    <3> QED
      BY <3>2, <3>3 DEF PidsUnique
  <2>2. pid'[Init1] = 1
    BY <1>3, <1>8, ThreeTasks DEF PInv, PidInv
  <2>3. \A x \in Threads : Listed(x)' => pid'[x] # 0
    BY <1>5, <1>7, <1>8 DEF PInv, PidInv
  <2> QED
    BY <2>1, <2>2, <2>3 DEF PidInv
<1>13. ParentAlive'
  <2> SUFFICES ASSUME NEW x \in Threads \ {Init1, Main, Idle}, Listed(x)'
               PROVE  \E y \in Threads \ {Main, Idle} :
                        /\ Listed(y)' /\ pid'[y] = parent_pid'[x]
                        /\ sch'.status[y] \notin {"HANGING", "DIED"}
    BY DEF ParentAlive, HasPid
  <2>1. CASE x = child
    BY <1>2, <1>3, <1>4, <1>7, <1>8, <2>1
  <2>2. CASE x # child
    <3>1. PICK y \in Threads \ {Main, Idle} :
            Listed(y) /\ pid[y] = parent_pid[x] /\ sch.status[y] \notin {"HANGING", "DIED"}
      BY <1>7, <2>2 DEF PInv, FamilyInv, ParentAlive, HasPid
    <3> QED
      BY <1>3, <1>7, <1>8, <2>2, <3>1
  <2> QED
    BY <2>1, <2>2
<1>14. WaiterHasNoZombie'
  <2> SUFFICES ASSUME NEW y \in Threads, sch'.status[y] = "WAITING"
               PROVE  /\ \E c \in Threads : Child(c, y)'
                      /\ y # Init1 => ~\E c \in Threads : HangingChild(c, y)'
    BY DEF WaiterHasNoZombie
  <2>1. y # child /\ sch.status[y] = "WAITING"
    BY <1>8
  <2>2. \A c \in Threads \ {child} : /\ Child(c, y)' <=> Child(c, y)
                                     /\ HangingChild(c, y)' <=> HangingChild(c, y)
    BY <1>7, <1>8, <2>1 DEF Child, HangingChild
  <2>3. ~HangingChild(child, y)' /\ ~Child(child, y)
    BY <1>3, <1>8 DEF HangingChild, Child
  <2> QED
    BY <2>1, <2>2, <2>3 DEF PInv, FamilyInv, WaiterHasNoZombie
<1>15. FamilyInv'
  BY <1>3, <1>8, <1>13, <1>14, ThreeTasks DEF PInv, FamilyInv
<1> QED
  BY <1>6, <1>9, <1>10, <1>11, <1>12, <1>15 DEF PInv, NoPanic

-----------------------------------------------------------------------------
(* The end of a task.                                                      *)

(* A task leaves thread_all_list and gives its pid back.                   *)
LEMMA RemovalFacts ==
  ASSUME PInv, NEW d \in Threads, Listed(d),
         thread_all_list' = list_remove(thread_all_list, d)
  PROVE  /\ thread_all_list' \in Seq(Threads) /\ NoDup(thread_all_list')
         /\ \A x \in Threads : Listed(x)' <=> Listed(x) /\ x # d
<1>1. PICK q, r : q = thread_all_list /\ r = thread_all_list'
  OBVIOUS
<1>2. q \in Seq(Threads) /\ NoDup(q) /\ elem_find(q, d) /\ r = list_remove(q, d)
  BY <1>1 DEF PInv, TypeOK, TaskInv, Listed
<1>3. /\ r \in Seq(Threads) /\ NoDup(r)
      /\ \A x : elem_find(r, x) <=> elem_find(q, x) /\ x # d
  BY <1>2, RemoveLemma
<1> QED
  BY <1>1, <1>3 DEF Listed

(* The child that sys_wait finds, and what becomes of it.                  *)
LEMMA ReapFacts ==
  ASSUME PInv, NEW t \in Threads, wait_reap(t)
  PROVE  \E d \in Pages :
           /\ HangingChild(d, t) /\ sch.cur = t /\ d # t
           /\ got' = exit_status[d]
           /\ sch' = thread_exit(sch, d)
           /\ thread_all_list' = list_remove(thread_all_list, d)
           /\ pcbs' = pcbs \ {d}
           /\ pid_bitmap' = pid_bitmap \ {pid[d]}
           /\ pid' = [pid EXCEPT ![d] = 0]
           /\ parent_pid' = [parent_pid EXCEPT ![d] = -1]
           /\ exit_status' = [exit_status EXCEPT ![d] = 0]
           /\ given' = [given EXCEPT ![d] = 0]
           /\ pc' = [pc EXCEPT ![d] = "user", ![t] = "user"]
<1> DEFINE S == {c \in Threads : HangingChild(c, t)}
<1>1. PICK d : d = list_traversal(S)
  OBVIOUS
<1>2. d \in S /\ d \in Threads
  <2>1. PICK c \in S : Listed(c)
    BY DEF wait_reap, HangingChild, Child
  <2> QED
    BY <1>1, <2>1, TraversalLemma DEF PInv, TypeOK
<1>3. HangingChild(d, t) /\ d \in Pages
  BY <1>2, ChildIsPage DEF HangingChild
<1>4. sch.cur = t /\ d # t
  <2>1. sch.cur = t
    BY DEF wait_reap, InWait, At
  <2> QED
    BY <1>3, <2>1, RunnerFacts DEF HangingChild
<1> QED
  BY <1>1, <1>3, <1>4 DEF wait_reap

(* sys_wait finds a zombie, takes its status and frees its task.           *)
LEMMA ReapKeeps ==
  ASSUME PInv, NEW t \in Threads, wait_reap(t)
  PROVE  PInv'
<1>1. PICK d \in Pages :
        /\ HangingChild(d, t) /\ sch.cur = t /\ d # t
        /\ sch' = thread_exit(sch, d)
        /\ thread_all_list' = list_remove(thread_all_list, d)
        /\ pcbs' = pcbs \ {d}
        /\ pid_bitmap' = pid_bitmap \ {pid[d]}
        /\ pid' = [pid EXCEPT ![d] = 0]
        /\ parent_pid' = [parent_pid EXCEPT ![d] = -1]
        /\ pc' = [pc EXCEPT ![d] = "user", ![t] = "user"]
  BY ReapFacts
<1>2. /\ d \in Threads /\ d \notin {Init1, Main, Idle}
      /\ Listed(d) /\ sch.status[d] = "HANGING" /\ parent_pid[d] = pid[t]
  BY <1>1 DEF Pages, HangingChild, Child
<1>3. /\ sch \in SchedState /\ Consistent(sch) /\ sch.ok /\ Listed(t)
      /\ sch.status[t] = "RUNNING"
  BY <1>1, RunnerFacts
<1>4. /\ sch' \in SchedState /\ Consistent(sch') /\ sch'.ok
      /\ sch'.status = [sch.status EXCEPT ![d] = "DIED"]
  BY <1>1, <1>2, <1>3, ReapLemma
<1>5. /\ thread_all_list' \in Seq(Threads) /\ NoDup(thread_all_list')
      /\ \A x \in Threads : Listed(x)' <=> Listed(x) /\ x # d
  BY <1>1, <1>2, RemovalFacts
<1>6. \A x \in Threads : x # d => /\ pid'[x] = pid[x] /\ parent_pid'[x] = parent_pid[x]
                                  /\ sch'.status[x] = sch.status[x]
  <2>1. \A x \in Threads : x # d => pid'[x] = pid[x] /\ parent_pid'[x] = parent_pid[x]
    BY <1>1 DEF PInv, TypeOK
  <2>2. \A x \in Threads : x # d => sch'.status[x] = sch.status[x]
    BY <1>3, <1>4 DEF SchedState
  <2> QED
    BY <2>1, <2>2
<1>7. sch'.status[d] = "DIED"
  BY <1>2, <1>3, <1>4 DEF SchedState
<1>8. /\ pc' \in [Threads -> Labels] /\ PcInv'
  <2>1. pc \in [Threads -> Labels] /\ Idle \in Threads /\ "user" \in Labels
    BY IdleAssumption DEF PInv, TypeOK, Labels
  <2>2. pc' \in [Threads -> Labels]
    BY <1>1, <2>1
  <2>3. \A x \in Threads : pc'[x] = IF x \in {d, t} THEN "user" ELSE pc[x]
    BY <1>1, <1>2, <2>1
  <2>4. t # Idle
    BY <2>1 DEF wait_reap, InWait, At, PInv, PcInv
  <2> QED
    BY <1>2, <2>1, <2>2, <2>3, <2>4 DEF PInv, PcInv
<1>9. TypeOK'
  <2>1. /\ pid \in [Threads -> Nat] /\ parent_pid \in [Threads -> Int]
        /\ pid_bitmap \subseteq Nat /\ pcbs \subseteq Threads /\ -1 \in Int
    BY DEF PInv, TypeOK
  <2>2. pid' \in [Threads -> Nat] /\ parent_pid' \in [Threads -> Int]
    BY <1>1, <2>1
  <2> QED
    BY <1>1, <1>4, <1>5, <1>8, <2>1, <2>2 DEF TypeOK
<1>10. TaskInv'
  BY <1>1, <1>2, <1>5, <1>6, <1>7 DEF PInv, TaskInv
<1>11. PidInv'
  <2>1. PidsUnique'
    <3>1. \A x \in Threads : Listed(x)' => Listed(x) /\ x # d /\ pid'[x] = pid[x]
      BY <1>5, <1>6
    <3>2. /\ \A x, y \in Threads : Listed(x) /\ Listed(y) /\ pid[x] = pid[y] => x = y
          /\ \A x \in Threads : Listed(x) => pid[x] \in pid_bitmap
      BY DEF PInv, PidInv, PidsUnique
    <3>3. \A x \in Threads : Listed(x)' => pid'[x] \in pid_bitmap'
      BY <1>1, <1>2, <3>1, <3>2
    <3> QED
      BY <3>1, <3>2, <3>3 DEF PidsUnique
  <2>2. pid'[Init1] = 1 /\ \A x \in Threads : Listed(x)' => pid'[x] # 0
    BY <1>2, <1>5, <1>6, ThreeTasks DEF PInv, PidInv
  <2> QED
    BY <2>1, <2>2 DEF PidInv
<1>12. ParentAlive'
  <2> SUFFICES ASSUME NEW x \in Threads \ {Init1, Main, Idle}, Listed(x)'
               PROVE  \E y \in Threads \ {Main, Idle} :
                        /\ Listed(y)' /\ pid'[y] = parent_pid'[x]
                        /\ sch'.status[y] \notin {"HANGING", "DIED"}
    BY DEF ParentAlive, HasPid
  <2>1. PICK y \in Threads \ {Main, Idle} :
          Listed(y) /\ pid[y] = parent_pid[x] /\ sch.status[y] \notin {"HANGING", "DIED"}
    BY <1>5 DEF PInv, FamilyInv, ParentAlive, HasPid
  <2> QED
    BY <1>2, <1>5, <1>6, <2>1
<1>13. WaiterHasNoZombie'
  <2> SUFFICES ASSUME NEW y \in Threads, sch'.status[y] = "WAITING"
               PROVE  /\ \E c \in Threads : Child(c, y)'
                      /\ y # Init1 => ~\E c \in Threads : HangingChild(c, y)'
    BY DEF WaiterHasNoZombie
  <2>1. y # d /\ sch.status[y] = "WAITING"
    BY <1>6, <1>7
  <2>2. \A c \in Threads \ {d} : /\ Child(c, y)' <=> Child(c, y)
                                 /\ HangingChild(c, y)' <=> HangingChild(c, y)
    BY <1>5, <1>6, <2>1 DEF Child, HangingChild
  <2>3. ~Child(d, y) /\ ~HangingChild(d, y)'
    <3>1. Listed(y) /\ y # t
      BY <1>3, <2>1 DEF PInv, TaskInv
    <3>2. pid[y] # pid[t]
      BY <1>3, <3>1 DEF PInv, PidInv, PidsUnique
    <3> QED
      BY <1>2, <1>5, <3>2 DEF Child, HangingChild
  <2> QED
    BY <2>1, <2>2, <2>3 DEF PInv, FamilyInv, WaiterHasNoZombie
<1>14. FamilyInv'
  BY <1>2, <1>6, <1>12, <1>13, ThreeTasks DEF PInv, FamilyInv
<1> QED
  BY <1>4, <1>8, <1>9, <1>10, <1>11, <1>14 DEF PInv, NoPanic

(* Main leaves for good; nobody is its child.                              *)
LEMMA MainExitsKeeps ==
  ASSUME PInv, main_exits
  PROVE  PInv'
<1>0. /\ Main \in Threads /\ Main # Idle /\ Main # Init1
      /\ Init1 \in Threads /\ Idle \in Threads /\ Init1 # Idle
  BY ThreeTasks
<1>1. /\ sch.cur = Main /\ sch' = thread_exit_self(sch)
      /\ thread_all_list' = list_remove(thread_all_list, Main)
      /\ pid_bitmap' = pid_bitmap \ {pid[Main]}
      /\ UNCHANGED <<pcbs, pid, parent_pid, pc>>
  BY DEF main_exits, At
<1>2. sch \in SchedState /\ Consistent(sch) /\ sch.ok /\ Listed(Main)
  BY <1>0, <1>1, RunnerFacts
<1>3. /\ sch' \in SchedState /\ Consistent(sch') /\ sch'.ok
      /\ sch'.status[Main] = "DIED" /\ SameSleepersBut(Main, sch, sch')
  BY <1>0, <1>1, <1>2, ExitLemma
<1>4. /\ thread_all_list' \in Seq(Threads) /\ NoDup(thread_all_list')
      /\ \A x \in Threads : Listed(x)' <=> Listed(x) /\ x # Main
  BY <1>0, <1>1, <1>2, RemovalFacts
<1>5. \A x \in Threads \ {Main} :
        /\ sch'.status[x] = "DIED" <=> sch.status[x] = "DIED"
        /\ sch'.status[x] = "HANGING" <=> sch.status[x] = "HANGING"
        /\ sch'.status[x] = "WAITING" <=> sch.status[x] = "WAITING"
  BY <1>2, <1>3, AwakeFacts
<1>6. TypeOK' /\ PcInv'
  BY <1>1, <1>3, <1>4 DEF PInv, TypeOK, PcInv
<1>7. TaskInv'
  BY <1>1, <1>3, <1>4, <1>5 DEF PInv, TaskInv
<1>8. PidInv'
  <2>1. PidsUnique'
    BY <1>0, <1>1, <1>2, <1>4 DEF PInv, PidInv, PidsUnique
  <2> QED
    BY <1>1, <1>4, <2>1 DEF PInv, PidInv
<1>9. ParentAlive'
  <2> SUFFICES ASSUME NEW x \in Threads \ {Init1, Main, Idle}, Listed(x)'
               PROVE  \E y \in Threads \ {Main, Idle} :
                        /\ Listed(y)' /\ pid'[y] = parent_pid'[x]
                        /\ sch'.status[y] \notin {"HANGING", "DIED"}
    BY DEF ParentAlive, HasPid
  <2>1. PICK y \in Threads \ {Main, Idle} :
          Listed(y) /\ pid[y] = parent_pid[x] /\ sch.status[y] \notin {"HANGING", "DIED"}
    BY <1>4 DEF PInv, FamilyInv, ParentAlive, HasPid
  <2> QED
    BY <1>1, <1>4, <1>5, <2>1
<1>10. WaiterHasNoZombie'
  <2> SUFFICES ASSUME NEW y \in Threads, sch'.status[y] = "WAITING"
               PROVE  /\ \E c \in Threads : Child(c, y)'
                      /\ y # Init1 => ~\E c \in Threads : HangingChild(c, y)'
    BY DEF WaiterHasNoZombie
  <2>1. y # Main /\ sch.status[y] = "WAITING"
    BY <1>3, <1>5
  <2>2. \A c \in Threads \ {Main} : /\ Child(c, y)' <=> Child(c, y)
                                    /\ HangingChild(c, y)' <=> HangingChild(c, y)
    BY <1>1, <1>4, <1>5 DEF Child, HangingChild
  <2>3. ~Child(Main, y) /\ ~HangingChild(Main, y)'
    BY <1>0, <1>4, ChildIsPage DEF Pages, Child, HangingChild
  <2> QED
    BY <2>1, <2>2, <2>3 DEF PInv, FamilyInv, WaiterHasNoZombie
<1>11. FamilyInv'
  BY <1>0, <1>1, <1>5, <1>9, <1>10 DEF PInv, FamilyInv
<1> QED
  BY <1>3, <1>6, <1>7, <1>8, <1>11 DEF PInv, NoPanic

(* sys_exit finds its parent, the one task with that pid, and wakes it if  *)
(* it sleeps in sys_wait.                                                  *)
LEMMA ExitFacts ==
  ASSUME PInv, NEW t \in Threads, NEW status, sys_exit(t, status)
  PROVE  \E p \in Threads \ {Main, Idle} :
           /\ HasPid(p, parent_pid[t])
           /\ sch' \in SchedState /\ Consistent(sch') /\ sch'.ok
           /\ sch'.status[t] = "HANGING" /\ sch'.status[p] # "WAITING"
           /\ \A x \in Threads \ {t} :
                /\ sch'.status[x] = "DIED" <=> sch.status[x] = "DIED"
                /\ sch'.status[x] = "HANGING" <=> sch.status[x] = "HANGING"
                /\ sch'.status[x] = "WAITING" => sch.status[x] = "WAITING"
<1>1. sch.cur = t /\ t \in Pages
  BY DEF sys_exit, At, Pages, Kernelthreads
<1>2. /\ sch \in SchedState /\ Consistent(sch) /\ sch.ok /\ Listed(t)
      /\ sch.status[t] = "RUNNING" /\ t # Idle
  BY <1>1, RunnerFacts DEF Pages
<1>3. PICK p \in Threads \ {Main, Idle} : HasPid(p, parent_pid[t])
  BY <1>1, <1>2 DEF PInv, FamilyInv, ParentAlive, Pages
<1>4. pid2thread(parent_pid[t]) = p
  <2> DEFINE S == {x \in Threads : HasPid(x, parent_pid[t])}
  <2>1. p \in S /\ Listed(p)
    BY <1>3 DEF HasPid
  <2>2. list_traversal(S) \in S
    BY <2>1, TraversalLemma DEF PInv, TypeOK
  <2> QED
    BY <2>1, <2>2 DEF pid2thread, HasPid, PInv, PidInv, PidsUnique
<1>5. parent_pid[t] # -1
  BY <1>3 DEF HasPid, PInv, TypeOK
<1>6. PICK s : s = wake_parent(sch, p)
  OBVIOUS
<1>7. sch' = thread_block(s, "HANGING")
  <2>1. \E x \in Threads : HasPid(x, parent_pid[t])
    BY <1>3
  <2>2. ASSERT(sch, parent_pid[t] # -1 /\ \E x \in Threads : HasPid(x, parent_pid[t])) = sch
    BY <1>2, <1>5, <2>1, AssertLemma
  <2> QED
    BY <1>2, <1>4, <1>6, <2>2 DEF sys_exit
<1>8. /\ s \in SchedState /\ Consistent(s) /\ s.ok /\ s.cur = t
      /\ s.status[p] # "WAITING"
      /\ \A x \in Threads : \/ s.status[x] = sch.status[x]
                            \/ sch.status[x] = "WAITING" /\ s.status[x] = "READY"
  <2>1. CASE sch.status[p] # "WAITING"
    BY <1>1, <1>2, <1>6, <2>1 DEF wake_parent
  <2>2. CASE sch.status[p] = "WAITING"
    <3>1. s = thread_unblock(sch, p)
      BY <1>6, <2>2 DEF wake_parent
    <3>2. /\ s \in SchedState /\ s.cur = sch.cur /\ s.ok = sch.ok
          /\ s.status = [sch.status EXCEPT ![p] = "READY"] /\ ReadyListInv(s)
      BY <1>2, <2>2, <3>1, UnblockLemma DEF Consistent, Blocking
    <3>3. \A x \in Threads : s.status[x] = IF x = p THEN "READY" ELSE sch.status[x]
      BY <1>2, <3>2 DEF SchedState
    <3>4. Consistent(s)
      BY <1>2, <2>2, <3>2, <3>3, IdleAssumption DEF Consistent, CpuInv, IdleInv
    <3> QED
      BY <1>1, <1>2, <2>2, <3>2, <3>3, <3>4
  <2> QED
    BY <2>1, <2>2
<1>9. /\ sch' \in SchedState /\ Consistent(sch') /\ sch'.ok
      /\ sch'.status[t] = "HANGING" /\ SameSleepersBut(t, s, sch')
  <2>1. "HANGING" \in Blocking
    BY DEF Blocking
  <2> QED
    BY <1>2, <1>7, <1>8, <2>1, BlockLemma
<1>10. ASSUME NEW x \in Threads \ {t}
       PROVE  /\ sch'.status[x] = "DIED" <=> s.status[x] = "DIED"
              /\ sch'.status[x] = "HANGING" <=> s.status[x] = "HANGING"
              /\ sch'.status[x] = "WAITING" <=> s.status[x] = "WAITING"
  BY <1>8, <1>9, AwakeFacts
<1>11. sch'.status[p] # "WAITING"
  BY <1>8, <1>9, <1>10
<1>12. ASSUME NEW x \in Threads \ {t}
       PROVE  /\ sch'.status[x] = "DIED" <=> sch.status[x] = "DIED"
              /\ sch'.status[x] = "HANGING" <=> sch.status[x] = "HANGING"
              /\ sch'.status[x] = "WAITING" => sch.status[x] = "WAITING"
  BY <1>8, <1>10
<1> QED
  BY <1>3, <1>9, <1>11, <1>12

(* sys_exit, which hands the children to init and wakes the parent.        *)
LEMMA ExitKeeps ==
  ASSUME PInv, NEW t \in Threads, NEW status, sys_exit(t, status)
  PROVE  PInv'
<1>1. /\ sch.cur = t /\ pc[t] = "user" /\ t \in Pages
      /\ parent_pid' = init_adopt(t) /\ pc' = [pc EXCEPT ![t] = "exit"]
      /\ UNCHANGED <<pcbs, thread_all_list, pid, pid_bitmap>>
  BY DEF sys_exit, At, Goto, Pages, Kernelthreads
<1>2. PICK p \in Threads \ {Main, Idle} :
        /\ HasPid(p, parent_pid[t])
        /\ sch' \in SchedState /\ Consistent(sch') /\ sch'.ok
        /\ sch'.status[t] = "HANGING" /\ sch'.status[p] # "WAITING"
        /\ \A x \in Threads \ {t} :
             /\ sch'.status[x] = "DIED" <=> sch.status[x] = "DIED"
             /\ sch'.status[x] = "HANGING" <=> sch.status[x] = "HANGING"
             /\ sch'.status[x] = "WAITING" => sch.status[x] = "WAITING"
  BY ExitFacts
<1>3. /\ sch.status[t] = "RUNNING" /\ Listed(t) /\ t \notin {Init1, Main, Idle}
  BY <1>1, RunnerFacts DEF Pages
<1>4. \A x \in Threads : /\ Listed(x)' <=> Listed(x)
                         /\ parent_pid'[x] = IF Child(x, t) THEN 1 ELSE parent_pid[x]
  BY <1>1 DEF Listed, init_adopt
<1>5. TypeOK'
  <2>1. parent_pid' \in [Threads -> Int]
    BY <1>1 DEF init_adopt, PInv, TypeOK
  <2> QED
    BY <1>1, <1>2, <2>1 DEF PInv, TypeOK, Labels
<1>6. PcInv'
  BY <1>1, <1>3, IdleAssumption DEF PInv, TypeOK, PcInv
<1>7. TaskInv'
  BY <1>1, <1>2, <1>3, <1>4 DEF PInv, TaskInv
<1>8. PidInv'
  BY <1>1, <1>4 DEF PInv, PidInv, PidsUnique
<1>9. /\ Init1 \in Threads \ {Main, Idle} /\ Listed(Init1)' /\ pid'[Init1] = 1
      /\ sch'.status[Init1] \notin {"HANGING", "DIED"}
  BY <1>1, <1>2, <1>3, <1>4, ThreeTasks DEF PInv, FamilyInv, TaskInv, PidInv
<1>10. ParentAlive'
  <2> SUFFICES ASSUME NEW x \in Threads \ {Init1, Main, Idle}, Listed(x)'
               PROVE  \E y \in Threads \ {Main, Idle} :
                        /\ Listed(y)' /\ pid'[y] = parent_pid'[x]
                        /\ sch'.status[y] \notin {"HANGING", "DIED"}
    BY DEF ParentAlive, HasPid
  <2>1. CASE Child(x, t)
    BY <1>4, <1>9, <2>1
  <2>2. CASE ~Child(x, t)
    <3>1. PICK y \in Threads \ {Main, Idle} :
            Listed(y) /\ pid[y] = parent_pid[x] /\ sch.status[y] \notin {"HANGING", "DIED"}
      BY <1>4 DEF PInv, FamilyInv, ParentAlive, HasPid
    <3>2. y # t
      BY <1>4, <2>2, <3>1 DEF Child
    <3> QED
      BY <1>1, <1>2, <1>4, <2>2, <3>1, <3>2
  <2> QED
    BY <2>1, <2>2
<1>11. WaiterHasNoZombie'
  <2> SUFFICES ASSUME NEW y \in Threads, sch'.status[y] = "WAITING"
               PROVE  /\ \E c \in Threads : Child(c, y)'
                      /\ y # Init1 => ~\E c \in Threads : HangingChild(c, y)'
    BY DEF WaiterHasNoZombie
  <2>1. y # t /\ y # p /\ sch.status[y] = "WAITING" /\ Listed(y)
    BY <1>2 DEF PInv, TaskInv
  <2>2. pid[y] # pid[t] /\ pid[y] # pid[p] /\ (y # Init1 => pid[y] # 1)
    <3>1. Listed(p) /\ p \in Threads /\ Listed(Init1) /\ pid[Init1] = 1 /\ Init1 \in Threads
      BY <1>2, <1>4, <1>9 DEF HasPid, PInv, PidInv
    <3>2. \A a, b \in Threads : Listed(a) /\ Listed(b) /\ a # b => pid[a] # pid[b]
      BY DEF PInv, PidInv, PidsUnique
    <3> QED
      BY <1>3, <2>1, <3>1, <3>2
  <2>3. \A c \in Threads : Child(c, y) => Child(c, y)'
    BY <1>1, <1>4, <2>2 DEF Child
  <2>4. ASSUME NEW c \in Threads, y # Init1, HangingChild(c, y)' PROVE FALSE
    <3>1. Child(c, y) /\ sch'.status[c] = "HANGING"
      BY <1>1, <1>4, <2>2, <2>4 DEF Child, HangingChild
    <3>2. c # t
      BY <1>2, <2>2, <3>1 DEF Child, HasPid
    <3>3. HangingChild(c, y)
      BY <1>2, <3>1, <3>2 DEF HangingChild
    <3> QED
      BY <2>1, <2>4, <3>3 DEF PInv, FamilyInv, WaiterHasNoZombie
  <2> QED
    BY <2>1, <2>3, <2>4 DEF PInv, FamilyInv, WaiterHasNoZombie
<1>12. FamilyInv'
  <2>1. \A x \in {Init1, Main, Idle} : parent_pid'[x] = -1
    BY <1>1, <1>4, ThreeTasks, ChildIsPage DEF Pages, PInv, FamilyInv
  <2> QED
    BY <1>9, <1>10, <1>11, <2>1 DEF FamilyInv
<1> QED
  BY <1>2, <1>5, <1>6, <1>7, <1>8, <1>12 DEF PInv, NoPanic

-----------------------------------------------------------------------------
(* The invariant holds when thread_init returns.                           *)
LEMMA PInvInit ==
  ASSUME Init
  PROVE  PInv
<1>0. /\ Init1 \in Threads /\ Main \in Threads /\ Idle \in Threads
      /\ Init1 # Main /\ Init1 # Idle /\ Main # Idle
  BY ThreeTasks
<1>1. /\ sch.cur = Main /\ sch.ready = <<Init1, Idle>> /\ sch.ticks = priority /\ sch.ok
      /\ sch.status = [t \in Threads |-> CASE t = Main -> "RUNNING"
                                           [] t \in {Init1, Idle} -> "READY"
                                           [] OTHER -> "DIED"]
      /\ sch = [cur |-> sch.cur, status |-> sch.status, ready |-> sch.ready,
                ticks |-> sch.ticks, ok |-> sch.ok]
  BY DEF Init
<1>2. \A t \in Threads : /\ t = Main => sch.status[t] = "RUNNING"
                         /\ t \in {Init1, Idle} => sch.status[t] = "READY"
                         /\ t \notin {Init1, Main, Idle} => sch.status[t] = "DIED"
  BY <1>0, <1>1
<1>3. /\ pcbs = {Init1, Main, Idle} /\ thread_all_list = <<Init1, Main, Idle>>
      /\ parent_pid = [t \in Threads |-> -1] /\ pid_bitmap = 1..3
      /\ pid = [t \in Threads |-> CASE t = Init1 -> 1 [] t = Main -> 2
                                    [] t = Idle -> 3 [] OTHER -> 0]
      /\ pc = [t \in Threads |-> CASE t = Init1 -> "start" [] t = Idle -> "top"
                                   [] OTHER -> "user"]
  BY DEF Init
<1>4. \A t \in Threads : /\ t = Init1 => pid[t] = 1 /\ pc[t] = "start"
                         /\ t = Main => pid[t] = 2 /\ pc[t] = "user"
                         /\ t = Idle => pid[t] = 3 /\ pc[t] = "top"
                         /\ t \notin {Init1, Main, Idle} => pid[t] = 0 /\ pc[t] = "user"
  BY <1>0, <1>3
<1>5. \A t : Listed(t) <=> t \in {Init1, Main, Idle}
  <2>1. \A t : Listed(t) <=> \E i \in 1..3 : <<Init1, Main, Idle>>[i] = t
    BY <1>3 DEF Listed, elem_find
  <2> QED
    BY <2>1
<1>6. sch \in SchedState
  <2>1. sch.status \in [Threads -> TaskStatus]
    BY <1>1, <1>2 DEF TaskStatus
  <2>2. sch.ready \in Seq(Threads)
    BY <1>0, <1>1
  <2> QED
    BY <1>0, <1>1, <2>1, <2>2, PriorityAssumption DEF SchedState
<1>7. Consistent(sch)
  <2>1. NoDup(sch.ready)
    BY <1>0, <1>1 DEF NoDup
  <2>2. \A t : elem_find(sch.ready, t) <=> t \in {Init1, Idle}
    <3>1. \A t : elem_find(sch.ready, t) <=> \E i \in 1..2 : <<Init1, Idle>>[i] = t
      BY <1>1 DEF elem_find
    <3> QED
      BY <3>1
  <2> QED
    BY <1>0, <1>1, <1>2, <2>1, <2>2 DEF Consistent, ReadyListInv, CpuInv, IdleInv
<1>8. TypeOK
  <2>1. pid \in [Threads -> Nat]
    BY <1>3, <1>4
  <2>2. pc \in [Threads -> Labels]
    BY <1>3, <1>4 DEF Labels
  <2>3. thread_all_list \in Seq(Threads)
    BY <1>0, <1>3
  <2>4. pid_bitmap \subseteq Nat
    BY <1>3
  <2>5. parent_pid \in [Threads -> Int]
    BY <1>3
  <2> QED
    BY <1>0, <1>3, <1>6, <2>1, <2>2, <2>3, <2>4, <2>5 DEF TypeOK
<1>9. PcInv
  BY <1>0, <1>4 DEF PcInv
<1>10. TaskInv
  <2>1. NoDup(thread_all_list)
    BY <1>0, <1>3 DEF NoDup
  <2> QED
    BY <1>0, <1>2, <1>3, <1>5, <2>1 DEF TaskInv
<1>11. PidInv
  <2>1. /\ pid[Init1] = 1 /\ pid[Main] = 2 /\ pid[Idle] = 3
        /\ 1 \in pid_bitmap /\ 2 \in pid_bitmap /\ 3 \in pid_bitmap
    BY <1>0, <1>3, <1>4
  <2> QED
    BY <1>5, <2>1 DEF PidInv, PidsUnique
<1>12. FamilyInv
  <2>1. ParentAlive
    BY <1>5 DEF ParentAlive
  <2>2. \A t \in Threads : sch.status[t] # "WAITING"
    BY <1>2
  <2>3. WaiterHasNoZombie
    BY <2>2 DEF WaiterHasNoZombie
  <2>4. \A t \in {Init1, Main, Idle} : parent_pid[t] = -1
    BY <1>0, <1>3
  <2> QED
    BY <1>0, <1>2, <2>1, <2>3, <2>4 DEF FamilyInv
<1> QED
  BY <1>1, <1>7, <1>8, <1>9, <1>10, <1>11, <1>12 DEF PInv, NoPanic

(* A step that changes nothing.                                            *)
LEMMA StutterKeeps ==
  ASSUME PInv, UNCHANGED vars
  PROVE  PInv'
<1>1. UNCHANGED <<sch, pcbs, thread_all_list, pid, parent_pid, pid_bitmap, pc>>
  BY DEF vars, procVars
<1>2. /\ \A t \in Threads : /\ Listed(t)' <=> Listed(t)
                            /\ \A n : HasPid(t, n)' <=> HasPid(t, n)
      /\ \A c, t \in Threads : /\ Child(c, t)' <=> Child(c, t)
                               /\ HangingChild(c, t)' <=> HangingChild(c, t)
  BY <1>1 DEF HasPid, Child, HangingChild, Listed
<1>3. TypeOK' /\ NoPanic' /\ Consistent(sch)'
  BY <1>1 DEF PInv, TypeOK, NoPanic
<1>4. PcInv' /\ TaskInv'
  BY <1>1, <1>2 DEF PInv, PcInv, TaskInv
<1>5. PidInv'
  <2>1. PidsUnique'
    BY <1>1, <1>2 DEF PInv, PidInv, PidsUnique
  <2> QED
    BY <1>1, <1>2, <2>1 DEF PInv, PidInv
<1>6. FamilyInv'
  <2>1. WaiterHasNoZombie'
    <3> SUFFICES ASSUME NEW y \in Threads, sch'.status[y] = "WAITING"
                 PROVE  /\ \E c \in Threads : Child(c, y)'
                        /\ y # Init1 => ~\E c \in Threads : HangingChild(c, y)'
      BY DEF WaiterHasNoZombie
    <3>1. /\ \E c \in Threads : Child(c, y)
          /\ y # Init1 => ~\E c \in Threads : HangingChild(c, y)
      BY <1>1 DEF PInv, FamilyInv, WaiterHasNoZombie
    <3>2. \A c \in Threads : /\ Child(c, y)' <=> Child(c, y)
                             /\ HangingChild(c, y)' <=> HangingChild(c, y)
      BY <1>2
    <3> QED
      BY <3>1, <3>2
  <2>2. ParentAlive'
    BY <1>1, <1>2 DEF PInv, FamilyInv, ParentAlive
  <2> QED
    BY <1>1, <2>1, <2>2 DEF PInv, FamilyInv
<1> QED
  BY <1>3, <1>4, <1>5, <1>6 DEF PInv

(* Every step keeps the invariant.                                         *)
LEMMA StepKeepsPInv ==
  ASSUME PInv, [Next]_vars
  PROVE  PInv'
<1>1. ASSUME NEW t \in Threads, sys_wait(t) PROVE PInv'
  BY <1>1, ReapKeeps, WaitBlockKeeps, ReturnKeeps DEF sys_wait
<1> QED
  BY <1>1, ForkKeeps, ForkFailsKeeps, ExitKeeps, IoWaitKeeps, IoDoneKeeps, ReturnKeeps,
     MainExitsKeeps, TimerKeeps, IdleKeeps, StutterKeeps DEF Next

(* The invariant of the processes, their parents and the pids.             *)
THEOREM ProcessInvariance == Spec => []PInv
<1>1. Init => PInv
  BY PInvInit
<1>2. PInv /\ [Next]_vars => PInv'
  BY StepKeepsPInv
<1> QED
  BY <1>1, <1>2, PTL DEF Spec

(* No ASSERT or PANIC is reached in fork, wait, exit and the scheduler:    *)
(* sys_exit always finds its parent.                                       *)
THEOREM ProcessesNeverPanic == Spec => []NoPanic
<1>1. PInv => NoPanic
  BY DEF PInv
<1> QED
  BY <1>1, ProcessInvariance, PTL

(* allocate_pid and thread_exit never let two tasks share a pid, nor a     *)
(* task that exists have a pid that is free.                               *)
THEOREM PidsStayUnique == Spec => []PidsUnique
<1>1. PInv => PidsUnique
  BY DEF PInv, PidInv
<1> QED
  BY <1>1, ProcessInvariance, PTL

(* init_adopt leaves no process with a parent that has exited.             *)
THEOREM ParentsStayAlive == Spec => []ParentAlive
<1>1. PInv => ParentAlive
  BY DEF PInv, FamilyInv
<1> QED
  BY <1>1, ProcessInvariance, PTL

(* thread_exit takes a task_struct off every list before it frees its page.*)
THEOREM NoTaskUsedAfterFree == Spec => []NoFreedTask
<1>1. PInv => NoFreedTask
  <2> SUFFICES ASSUME PInv, NEW t \in Threads,
                      Listed(t) \/ elem_find(sch.ready, t) \/ sch.cur = t
               PROVE  t \in pcbs
    BY DEF NoFreedTask
  <2>1. elem_find(sch.ready, t) => sch.status[t] = "READY"
    BY DEF PInv, Consistent, ReadyListInv
  <2>2. sch.cur = t => sch.status[t] = "RUNNING"
    BY DEF PInv, Consistent, CpuInv
  <2> QED
    BY <2>1, <2>2 DEF PInv, TaskInv
<1> QED
  BY <1>1, ProcessInvariance, PTL

(* A process that sleeps in sys_wait has a child, and unless it is init it *)
(* has none whose exit it missed.                                          *)
THEOREM NoExitMissed == Spec => []WaiterHasNoZombie
<1>1. PInv => WaiterHasNoZombie
  BY DEF PInv, FamilyInv
<1> QED
  BY <1>1, ProcessInvariance, PTL

-----------------------------------------------------------------------------
(* The status of a child.                                                  *)

(* exit_status is an int8_t: it holds what is left of the argument of exit.*)
StatusInv ==
  /\ exit_status \in [Threads -> Int] /\ given \in [Threads -> Statuses \cup {0}]
  /\ \A t \in Threads : exit_status[t] = Int8(given[t])

(* What the parent gets of any argument of exit.                           *)
NarrowStep ==
  \A c \in Threads \ {Main} :
    Listed(c) /\ ~Listed(c)' =>
      /\ parent_pid[c] = pid[sch.cur] /\ sch.status[c] = "HANGING"
      /\ got' = Int8(given[c])

(* A narrowed status is a value of a signed byte.                          *)
LEMMA Int8Type ==
  ASSUME NEW n \in Int
  PROVE  Int8(n) \in Int
BY DEF Int8

(* A number that fits an int8_t is not changed by the conversion.          *)
LEMMA SmallUnchanged ==
  ASSUME Statuses \subseteq -128..127, NEW n \in Statuses \cup {0}
  PROVE  Int8(n) = n
<1>1. n \in Int /\ -128 <= n /\ n <= 127
  OBVIOUS
<1>2. PICK m \in 0..255 : m = n + 128
  BY <1>1
<1>3. m % 256 = m
  BY <1>2
<1> QED
  BY <1>1, <1>2, <1>3 DEF Int8

(* The status in a task is the one its exit was given.                     *)
LEMMA StepKeepsStatusInv ==
  ASSUME PInv, StatusInv, [Next]_vars
  PROVE  StatusInv'
<1>1. ASSUME UNCHANGED <<exit_status, given>> PROVE StatusInv'
  BY <1>1 DEF StatusInv
<1>2. ASSUME NEW t \in Threads, wait_reap(t) PROVE StatusInv'
  <2>1. PICK d \in Pages : /\ exit_status' = [exit_status EXCEPT ![d] = 0]
                           /\ given' = [given EXCEPT ![d] = 0]
    BY <1>2, ReapFacts
  <2>2. Int8(0) = 0
    BY DEF Int8
  <2> QED
    BY <2>1, <2>2 DEF StatusInv, Pages
<1>3. ASSUME NEW t \in Threads, NEW v \in Statuses, sys_exit(t, v) PROVE StatusInv'
  <2>1. /\ exit_status' = [exit_status EXCEPT ![t] = Int8(v)]
        /\ given' = [given EXCEPT ![t] = v]
    BY <1>3 DEF sys_exit
  <2>2. Int8(v) \in Int
    BY Int8Type, StatusAssumption
  <2> QED
    BY <2>1, <2>2 DEF StatusInv
<1>4. ASSUME NEW t \in Threads, NEW child \in Threads,
             sys_fork(t, child) \/ \E b \in BOOLEAN : sys_fork_fails(t, child, b)
      PROVE  UNCHANGED <<exit_status, given>>
  BY <1>4 DEF sys_fork, sys_fork_fails
<1>5. ASSUME NEW t \in Threads,
             wait_block(t) \/ wait_no_child(t) \/ io_wait(t) \/ io_done(t) \/ io_return(t)
      PROVE  UNCHANGED <<exit_status, given>>
  BY <1>5 DEF wait_block, wait_no_child, io_wait, io_done, io_return, procVars
<1>6. ASSUME main_exits \/ timer_interrupt \/ idle PROVE UNCHANGED <<exit_status, given>>
  BY <1>6 DEF main_exits, timer_interrupt, idle, procVars
<1>7. ASSUME UNCHANGED vars PROVE UNCHANGED <<exit_status, given>>
  BY <1>7 DEF vars, procVars
<1>8. CASE Next
  BY <1>1, <1>2, <1>3, <1>4, <1>5, <1>6, <1>8 DEF Next, sys_wait
<1> QED
  BY <1>1, <1>7, <1>8

(* So it is in every reachable state.                                      *)
LEMMA StatusInvariance == Spec => []StatusInv
<1>1. Init => StatusInv
  <2> SUFFICES ASSUME Init PROVE StatusInv
    OBVIOUS
  <2>1. exit_status = [t \in Threads |-> 0] /\ given = [t \in Threads |-> 0]
    BY DEF Init
  <2>2. Int8(0) = 0
    BY DEF Int8
  <2> QED
    BY <2>1, <2>2 DEF StatusInv
<1>2. PInv /\ StatusInv /\ [Next]_vars => StatusInv'
  BY StepKeepsStatusInv
<1> QED
  BY <1>1, <1>2, ProcessInvariance, PTL DEF Spec

(* A task leaves thread_all_list in wait_reap of its parent only.          *)
LEMMA StepNarrows ==
  ASSUME PInv, StatusInv, [Next]_vars
  PROVE  NarrowStep
<1> SUFFICES ASSUME NEW c \in Threads \ {Main}, Listed(c), ~Listed(c)'
             PROVE  /\ parent_pid[c] = pid[sch.cur] /\ sch.status[c] = "HANGING"
                    /\ got' = Int8(given[c])
  BY DEF NarrowStep
<1>1. thread_all_list' # thread_all_list
  BY DEF Listed
<1>2. ASSUME NEW t \in Threads, wait_reap(t)
      PROVE  /\ parent_pid[c] = pid[sch.cur] /\ sch.status[c] = "HANGING"
             /\ got' = Int8(given[c])
  <2>1. PICK d \in Pages : /\ HangingChild(d, t) /\ sch.cur = t
                           /\ got' = exit_status[d]
                           /\ thread_all_list' = list_remove(thread_all_list, d)
    BY <1>2, ReapFacts
  <2>2. d \in Threads /\ Listed(d)
    BY <2>1 DEF Pages, HangingChild, Child
  <2>3. c = d
    BY <2>1, <2>2, RemovalFacts
  <2> QED
    BY <2>1, <2>2, <2>3 DEF HangingChild, Child, StatusInv
<1>3. ~main_exits
  <2> SUFFICES ASSUME main_exits PROVE FALSE
    OBVIOUS
  <2>1. /\ sch.cur = Main /\ Main \in Threads
        /\ thread_all_list' = list_remove(thread_all_list, Main)
    BY ThreeTasks DEF main_exits, At
  <2>2. Listed(Main)
    BY <2>1, RunnerFacts
  <2> QED
    BY <2>1, <2>2, RemovalFacts
<1>4. ASSUME NEW t \in Threads, NEW child \in Threads PROVE ~sys_fork(t, child)
  <2> SUFFICES ASSUME sys_fork(t, child) PROVE FALSE
    OBVIOUS
  <2>1. PICK q, r : q = thread_all_list /\ r = thread_all_list'
    OBVIOUS
  <2>2. q \in Seq(Threads) /\ r = list_append(q, child) /\ elem_find(q, c) /\ ~elem_find(r, c)
    BY <2>1 DEF sys_fork, PInv, TypeOK, Listed
  <2> QED
    BY <2>2, AppendLemma
<1>5. ASSUME NEW t \in Threads, NEW child \in Threads, NEW b PROVE ~sys_fork_fails(t, child, b)
  BY <1>1 DEF sys_fork_fails
<1>6. ASSUME NEW t \in Threads
      PROVE  /\ ~wait_block(t) /\ ~wait_no_child(t) /\ ~io_wait(t) /\ ~io_done(t)
             /\ ~io_return(t) /\ \A v : ~sys_exit(t, v)
  BY <1>1 DEF wait_block, wait_no_child, io_wait, io_done, io_return, sys_exit, procVars
<1>7. ~timer_interrupt /\ ~idle /\ ~UNCHANGED vars
  BY <1>1 DEF timer_interrupt, idle, vars, procVars
<1>8. \E t \in Threads : wait_reap(t)
  BY <1>3, <1>4, <1>5, <1>6, <1>7 DEF Next, sys_wait
<1> QED
  BY <1>2, <1>8

(* Whatever a child gives to exit, its parent gets the low byte of it, as  *)
(* a signed number, and gets it from a child that has exited.              *)
THEOREM StatusNarrowed == Spec => [][NarrowStep]_vars
<1>1. PInv /\ StatusInv /\ [Next]_vars => [NarrowStep]_vars
  BY StepNarrows
<1> QED
  BY <1>1, ProcessInvariance, StatusInvariance, PTL DEF Spec

(* The status arrives unchanged as long as the arguments of exit fit the   *)
(* int8_t of task_struct.exit_status.                                      *)
THEOREM SmallStatusDelivered ==
  ASSUME Statuses \subseteq -128..127
  PROVE  Spec => StatusDelivered
<1>1. StatusInv /\ NarrowStep => ReapStep
  <2> SUFFICES ASSUME StatusInv, NarrowStep,
                      NEW c \in Threads \ {Main}, Listed(c), ~Listed(c)'
               PROVE  /\ parent_pid[c] = pid[sch.cur] /\ sch.status[c] = "HANGING"
                      /\ got' = given[c]
    BY DEF ReapStep
  <2>1. given[c] \in Statuses \cup {0}
    BY DEF StatusInv
  <2>2. Int8(given[c]) = given[c]
    BY <2>1, SmallUnchanged
  <2> QED
    BY <2>2 DEF NarrowStep
<1> QED
  BY <1>1, StatusNarrowed, StatusInvariance, PTL DEF StatusDelivered
=============================================================================
