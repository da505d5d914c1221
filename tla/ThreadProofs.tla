---------------------------- MODULE ThreadProofs ----------------------------
(***************************************************************************)
(* What the functions of thread/thread.c do to a scheduler state, proved   *)
(* for any number of tasks and any priorities.  The proofs about the       *)
(* modules that call these functions cite the lemmas of this module.       *)
(***************************************************************************)
EXTENDS Thread, SequenceTheorems, TLAPS

Awake == {"RUNNING", "READY"}

(* Only the idle task may fall asleep or wake up between s and r.          *)
SameSleepers(s, r) ==
  \A t \in Threads \ {Idle} :
    \/ r.status[t] = s.status[t]
    \/ s.status[t] \in Awake /\ r.status[t] \in Awake

(* The states in which schedule is called: the task on the processor may   *)
(* have blocked, queued itself or died, everything else is in order.       *)
Leaving(s) ==
  /\ s \in SchedState
  /\ ReadyListInv(s)
  /\ IdleInv(s)
  /\ \A t \in Threads : s.status[t] = "RUNNING" => t = s.cur

-----------------------------------------------------------------------------
(* The lists of lib/kernel/list.c.                                         *)

(* list_append adds its element, and no duplicate if it was not there.     *)
LEMMA AppendLemma ==
  ASSUME NEW S, NEW q \in Seq(S), NEW e \in S
  PROVE  /\ list_append(q, e) \in Seq(S)
         /\ list_append(q, e) # << >>
         /\ \A x : elem_find(list_append(q, e), x) <=> elem_find(q, x) \/ x = e
         /\ NoDup(q) /\ ~elem_find(q, e) => NoDup(list_append(q, e))
<1> DEFINE r == list_append(q, e)
<1>1. /\ r \in Seq(S) /\ Len(r) = Len(q) + 1 /\ r # << >>
      /\ \A i \in 1..Len(q) : r[i] = q[i]
      /\ r[Len(r)] = e
  BY DEF list_append
<1>2. Len(q) \in Nat
  OBVIOUS
<1>3. ASSUME NEW x PROVE elem_find(r, x) <=> elem_find(q, x) \/ x = e
  BY <1>1, <1>2 DEF elem_find
<1>4. NoDup(q) /\ ~elem_find(q, e) => NoDup(r)
  BY <1>1, <1>2 DEF elem_find, NoDup
<1> QED
  BY <1>1, <1>3, <1>4

(* So does list_push, at the other end.                                    *)
LEMMA PushLemma ==
  ASSUME NEW S, NEW q \in Seq(S), NEW e \in S
  PROVE  /\ list_push(q, e) \in Seq(S)
         /\ list_push(q, e) # << >>
         /\ \A x : elem_find(list_push(q, e), x) <=> elem_find(q, x) \/ x = e
         /\ NoDup(q) /\ ~elem_find(q, e) => NoDup(list_push(q, e))
<1> DEFINE r == list_push(q, e)
<1>1. /\ r \in Seq(S) /\ Len(r) = Len(q) + 1 /\ r # << >>
      /\ r[1] = e
      /\ \A i \in 1..Len(q) : r[i + 1] = q[i]
  BY DEF list_push
<1>2. Len(q) \in Nat
  OBVIOUS
<1>3. \A i \in 2..Len(r) : i - 1 \in 1..Len(q) /\ r[i] = q[i - 1]
  BY <1>1, <1>2
<1> HIDE DEF r
<1>4. ASSUME NEW x PROVE elem_find(r, x) <=> elem_find(q, x) \/ x = e
  <2>1. elem_find(r, x) => elem_find(q, x) \/ x = e
    BY <1>1, <1>2, <1>3 DEF elem_find
  <2>2. ASSUME elem_find(q, x) PROVE elem_find(r, x)
    <3>1. PICK i \in 1..Len(q) : q[i] = x
      BY <2>2 DEF elem_find
    <3>2. i + 1 \in 1..Len(r) /\ r[i + 1] = x
      BY <1>1, <1>2, <3>1
    <3> QED
      BY <3>2 DEF elem_find
  <2>3. elem_find(r, e)
    BY <1>1, <1>2 DEF elem_find
  <2> QED
    BY <2>1, <2>2, <2>3
<1>5. ASSUME NoDup(q), ~elem_find(q, e) PROVE NoDup(r)
  <2> SUFFICES ASSUME NEW i \in 1..Len(r), NEW j \in 1..Len(r), r[i] = r[j]
               PROVE  i = j
    BY DEF NoDup
  <2>1. CASE i = 1 \/ j = 1
    BY <1>1, <1>2, <1>3, <1>5, <2>1 DEF elem_find
  <2>2. CASE i # 1 /\ j # 1
    <3>1. i - 1 \in 1..Len(q) /\ j - 1 \in 1..Len(q) /\ q[i - 1] = q[j - 1]
      BY <1>1, <1>2, <1>3, <2>2
    <3>2. i - 1 = j - 1
      BY <1>5, <3>1 DEF NoDup
    <3> QED
      BY <1>1, <1>2, <3>2
  <2> QED
    BY <2>1, <2>2
<1> QED
  BY <1>1, <1>4, <1>5 DEF r

(* list_pop takes the head away, which is nowhere else in the list.        *)
LEMMA PopLemma ==
  ASSUME NEW S, NEW q \in Seq(S), q # << >>
  PROVE  /\ Head(q) \in S /\ Tail(q) \in Seq(S) /\ elem_find(q, Head(q))
         /\ NoDup(q) => /\ NoDup(Tail(q))
                        /\ \A x : elem_find(Tail(q), x) <=>
                                    elem_find(q, x) /\ x # Head(q)
<1>1. /\ Len(q) \in Nat \ {0} /\ Head(q) = q[1] /\ Head(q) \in S
      /\ Tail(q) \in Seq(S) /\ Len(Tail(q)) = Len(q) - 1
      /\ \A i \in 1..Len(Tail(q)) : Tail(q)[i] = q[i + 1]
  OBVIOUS
<1>2. elem_find(q, Head(q))
  BY <1>1 DEF elem_find
<1>3. \A i \in 2..Len(q) : i - 1 \in 1..Len(Tail(q)) /\ q[i] = Tail(q)[i - 1]
  BY <1>1
<1>4. ASSUME NoDup(q) PROVE NoDup(Tail(q))
  BY <1>1, <1>4 DEF NoDup
<1>5. ASSUME NoDup(q), NEW x
      PROVE  elem_find(Tail(q), x) <=> elem_find(q, x) /\ x # Head(q)
  BY <1>1, <1>3, <1>5, SMTT(30) DEF NoDup, elem_find
<1> QED
  BY <1>1, <1>2, <1>4, <1>5

(* An empty list finds nothing.                                            *)
LEMMA EmptyLemma ==
  /\ NoDup(<< >>) /\ \A x : ~elem_find(<< >>, x)
BY DEF NoDup, elem_find

(* list_remove unlinks its element and leaves the others.                  *)
LEMMA RemoveLemma ==
  ASSUME NEW S, NEW q \in Seq(S), NEW e, elem_find(q, e), NoDup(q)
  PROVE  /\ list_remove(q, e) \in Seq(S) /\ NoDup(list_remove(q, e))
         /\ \A x : elem_find(list_remove(q, e), x) <=> elem_find(q, x) /\ x # e
<1> DEFINE k == CHOOSE i \in 1..Len(q) : q[i] = e
<1>1. k \in 1..Len(q) /\ q[k] = e
  BY DEF elem_find
<1> HIDE DEF k
<1>2. PICK a, b : a = SubSeq(q, 1, k - 1) /\ b = SubSeq(q, k + 1, Len(q))
  OBVIOUS
<1>3. Len(q) \in Nat /\ \A i \in 1..Len(q) : q[i] \in S
  OBVIOUS
<1>4. /\ a \in Seq(S) /\ Len(a) = k - 1
      /\ \A i \in 1..(k - 1) : a[i] = q[i]
  BY <1>1, <1>2, <1>3, SubSeqProperties
<1>5. /\ b \in Seq(S) /\ Len(b) = Len(q) - k
      /\ \A i \in 1..(Len(q) - k) : b[i] = q[k + i]
  BY <1>1, <1>2, <1>3, SubSeqProperties
<1>6. PICK r : r = list_remove(q, e)
  OBVIOUS
<1>7. /\ r \in Seq(S) /\ Len(r) = Len(q) - 1
      /\ \A i \in 1..(Len(q) - 1) : r[i] = IF i < k THEN q[i] ELSE q[i + 1]
  <2>1. r = a \o b
    BY <1>2, <1>6 DEF list_remove, k
  <2>2. /\ r \in Seq(S) /\ Len(r) = Len(a) + Len(b)
        /\ \A i \in 1..(Len(a) + Len(b)) :
             r[i] = IF i <= Len(a) THEN a[i] ELSE b[i - Len(a)]
    BY <1>4, <1>5, <2>1, ConcatProperties
  <2>3. k \in Nat /\ 1 <= k /\ k <= Len(q) /\ Len(q) \in Nat
    BY <1>1, <1>3
  <2>4. Len(r) = Len(q) - 1
    BY <1>4, <1>5, <2>2, <2>3
  <2>5. ASSUME NEW i \in 1..(Len(q) - 1)
        PROVE  r[i] = IF i < k THEN q[i] ELSE q[i + 1]
    <3>1. r[i] = IF i <= Len(a) THEN a[i] ELSE b[i - Len(a)]
      BY <1>4, <1>5, <2>2, <2>3
    <3>2. CASE i < k
      BY <1>4, <2>3, <3>1, <3>2
    <3>3. CASE ~(i < k)
      <4>1. i - Len(a) \in 1..(Len(q) - k) /\ k + (i - Len(a)) = i + 1
        BY <1>4, <2>3, <3>3
      <4>2. b[i - Len(a)] = q[k + (i - Len(a))]
        BY <1>5, <4>1
      <4> QED
        BY <1>4, <2>3, <3>1, <3>3, <4>1, <4>2
    <3> QED
      BY <3>2, <3>3
  <2> QED
    BY <2>2, <2>4, <2>5
<1>8. NoDup(r)
  <2> SUFFICES ASSUME NEW i \in 1..Len(r), NEW j \in 1..Len(r), r[i] = r[j]
               PROVE  i = j
    BY DEF NoDup
  <2>1. PICK m \in 1..Len(q) : r[i] = q[m] /\ m = IF i < k THEN i ELSE i + 1
    BY <1>1, <1>3, <1>7
  <2>2. PICK n \in 1..Len(q) : r[j] = q[n] /\ n = IF j < k THEN j ELSE j + 1
    BY <1>1, <1>3, <1>7
  <2>3. m = n
    BY <2>1, <2>2 DEF NoDup
  <2> QED
    BY <1>1, <1>3, <2>1, <2>2, <2>3
<1>9. ASSUME NEW x, elem_find(r, x) PROVE elem_find(q, x) /\ x # e
  BY <1>1, <1>3, <1>7, <1>9 DEF elem_find, NoDup
<1>10. ASSUME NEW x, elem_find(q, x), x # e PROVE elem_find(r, x)
  <2>1. PICK i \in 1..Len(q) : q[i] = x /\ i # k
    BY <1>1, <1>10 DEF elem_find
  <2>2. CASE i < k
    BY <1>1, <1>3, <1>7, <2>1, <2>2 DEF elem_find
  <2>3. CASE i > k
    <3>1. i - 1 \in 1..Len(r) /\ r[i - 1] = x
      BY <1>1, <1>3, <1>7, <2>1, <2>3
    <3> QED
      BY <3>1 DEF elem_find
  <2> QED
    BY <1>1, <2>1, <2>2, <2>3
<1> QED
  BY <1>6, <1>7, <1>8, <1>9, <1>10

-----------------------------------------------------------------------------
(* The functions of thread.c.                                              *)

(* thread_unblock of a sleeping task makes it READY and passes its ASSERTs.*)
LEMMA UnblockLemma ==
  ASSUME NEW s \in SchedState, ReadyListInv(s),
         NEW t \in Threads, s.status[t] \in Blocking
  PROVE  LET r == thread_unblock(s, t)
         IN  /\ r \in SchedState
             /\ r.cur = s.cur /\ r.ok = s.ok /\ r.ticks = s.ticks
             /\ r.status = [s.status EXCEPT ![t] = "READY"]
             /\ r.ready # << >>
             /\ ReadyListInv(r)
<1> DEFINE r == thread_unblock(s, t)
<1>1. s.status[t] # "READY" /\ ~elem_find(s.ready, t)
  BY DEF Blocking, ReadyListInv
<1>2. /\ r.cur = s.cur /\ r.ok = s.ok /\ r.ticks = s.ticks
      /\ r.status = [s.status EXCEPT ![t] = "READY"]
      /\ r.ready = list_push(s.ready, t)
      /\ r = [cur |-> r.cur, status |-> r.status, ready |-> r.ready,
              ticks |-> r.ticks, ok |-> r.ok]
  BY <1>1 DEF thread_unblock, ASSERT, SchedState
<1> HIDE DEF r
<1>0. s.ready \in Seq(Threads)
  BY DEF SchedState
<1>3. /\ r.ready \in Seq(Threads) /\ r.ready # << >> /\ NoDup(r.ready)
      /\ \A x : elem_find(r.ready, x) <=> elem_find(s.ready, x) \/ x = t
  <2>1. PICK q, p : q = s.ready /\ p = r.ready
    OBVIOUS
  <2>2. q \in Seq(Threads) /\ p = list_push(q, t) /\ NoDup(q) /\ ~elem_find(q, t)
    BY <1>0, <1>1, <1>2, <2>1 DEF ReadyListInv
  <2>3. /\ p \in Seq(Threads) /\ p # << >> /\ NoDup(p)
        /\ \A x : elem_find(p, x) <=> elem_find(q, x) \/ x = t
    BY <2>2, PushLemma
  <2> QED
    BY <2>1, <2>3
<1>4. r \in SchedState
  BY <1>2, <1>3 DEF SchedState, TaskStatus
<1>5. ReadyListInv(r)
  BY <1>2, <1>3 DEF ReadyListInv, SchedState
<1> QED
  BY <1>2, <1>3, <1>4, <1>5 DEF r

(* schedule, from any state it is called in, leaves one RUNNING task and   *)
(* a ready list of exactly the READY ones, and none of its ASSERTs fails:  *)
(* when the ready list is empty the idle task is BLOCKED.                  *)
LEMMA ScheduleLemma ==
  ASSUME NEW s, Leaving(s)
  PROVE  /\ schedule(s) \in SchedState
         /\ Consistent(schedule(s))
         /\ schedule(s).ok = s.ok
         /\ SameSleepers(s, schedule(s))
<1> DEFINE a == requeue(s)
           b == wake_idle(a)
           c == dispatch(b)
<1>0. s \in SchedState /\ s.cur \in Threads /\ Idle \in Threads
  BY IdleAssumption DEF Leaving, SchedState
<1>1. /\ a \in SchedState /\ a.ok = s.ok /\ a.cur = s.cur
      /\ ReadyListInv(a) /\ IdleInv(a)
      /\ \A t \in Threads : a.status[t] # "RUNNING"
      /\ SameSleepers(s, a)
  <2>1. CASE s.status[s.cur] = "RUNNING"
    <3>1. ~elem_find(s.ready, s.cur)
      BY <1>0, <2>1 DEF Leaving, ReadyListInv
    <3>2. /\ a.cur = s.cur /\ a.ok = s.ok
          /\ a.ticks = [s.ticks EXCEPT ![s.cur] = priority[s.cur]]
          /\ a.status = [s.status EXCEPT ![s.cur] = "READY"]
          /\ a.ready = list_append(s.ready, s.cur)
          /\ a = [cur |-> a.cur, status |-> a.status, ready |-> a.ready,
                  ticks |-> a.ticks, ok |-> a.ok]
      BY <1>0, <2>1, <3>1 DEF requeue, ASSERT, SchedState
    <3> HIDE DEF a
    <3>0. s.ready \in Seq(Threads)
      BY <1>0 DEF SchedState
    <3>3. /\ a.ready \in Seq(Threads) /\ NoDup(a.ready)
          /\ \A x : elem_find(a.ready, x) <=> elem_find(s.ready, x) \/ x = s.cur
      <4>1. PICK q, p, e : q = s.ready /\ p = a.ready /\ e = s.cur
        OBVIOUS
      <4>2. /\ q \in Seq(Threads) /\ e \in Threads /\ p = list_append(q, e)
            /\ NoDup(q) /\ ~elem_find(q, e)
        BY <1>0, <3>0, <3>1, <3>2, <4>1 DEF Leaving, ReadyListInv
      <4>3. /\ p \in Seq(Threads) /\ NoDup(p)
            /\ \A x : elem_find(p, x) <=> elem_find(q, x) \/ x = e
        BY <4>2, AppendLemma
      <4> QED
        BY <4>1, <4>3
    <3>4. a \in SchedState
      <4>1. a.ticks \in [Threads -> Nat]
        BY <1>0, <3>2, PriorityAssumption DEF SchedState
      <4>2. a.status \in [Threads -> TaskStatus]
        BY <1>0, <3>2 DEF SchedState, TaskStatus
      <4> QED
        BY <1>0, <3>2, <3>3, <4>1, <4>2 DEF SchedState
    <3>5. ReadyListInv(a)
      BY <1>0, <3>2, <3>3 DEF ReadyListInv, SchedState, Leaving
    <3>6. IdleInv(a) /\ \A t \in Threads : a.status[t] # "RUNNING"
      BY <1>0, <3>2 DEF Leaving, IdleInv, SchedState
    <3>7. SameSleepers(s, a)
      BY <1>0, <2>1, <3>2 DEF SameSleepers, Awake, SchedState
    <3> QED
      BY <3>2, <3>4, <3>5, <3>6, <3>7
  <2>2. CASE s.status[s.cur] # "RUNNING"
    BY <1>0, <2>2 DEF requeue, Leaving, SameSleepers
  <2> QED
    BY <2>1, <2>2
<1>2. /\ b \in SchedState /\ b.ok = s.ok
      /\ ReadyListInv(b) /\ IdleInv(b) /\ b.ready # << >>
      /\ \A t \in Threads : b.status[t] # "RUNNING"
      /\ SameSleepers(s, b)
  <2>1. CASE a.ready = << >>
    <3>1. a.status[Idle] = "BLOCKED"
      BY <1>0, <1>1, <2>1, EmptyLemma DEF ReadyListInv, IdleInv
    <3>2. b = thread_unblock(a, Idle)
      BY <2>1 DEF wake_idle
    <3> HIDE DEF a, b
    <3>3. /\ b \in SchedState /\ b.ok = a.ok /\ ReadyListInv(b) /\ b.ready # << >>
          /\ b.status = [a.status EXCEPT ![Idle] = "READY"]
      BY <1>0, <1>1, <3>1, <3>2, UnblockLemma DEF Blocking
    <3> QED
      BY <1>0, <1>1, <3>3 DEF IdleInv, SameSleepers, SchedState
  <2>2. CASE a.ready # << >>
    BY <1>1, <2>2 DEF wake_idle
  <2> QED
    BY <2>1, <2>2
<1> HIDE DEF a, b
<1> DEFINE next == Head(b.ready)
<1>3. /\ next \in Threads /\ b.status[next] = "READY"
      /\ Tail(b.ready) \in Seq(Threads) /\ NoDup(Tail(b.ready))
      /\ \A x : elem_find(Tail(b.ready), x) <=> elem_find(b.ready, x) /\ x # next
  BY <1>2, PopLemma DEF SchedState, ReadyListInv
<1>4. /\ c.cur = next /\ c.ready = Tail(b.ready) /\ c.ok = b.ok
      /\ c.status = [b.status EXCEPT ![next] = "RUNNING"]
      /\ c.ticks = b.ticks
      /\ c = [cur |-> c.cur, status |-> c.status, ready |-> c.ready,
              ticks |-> c.ticks, ok |-> c.ok]
  <2> HIDE DEF next
  <2>1. c = [b EXCEPT !.cur = next, !.ready = Tail(@), !.status[next] = "RUNNING"]
    BY DEF dispatch, next
  <2> HIDE DEF c
  <2> QED
    BY <1>2, <2>1 DEF SchedState
<1> HIDE DEF c, next
<1>5. c \in SchedState
  <2>1. /\ c.cur \in Threads /\ c.ready \in Seq(Threads)
        /\ c.ticks \in [Threads -> Nat]
    BY <1>2, <1>3, <1>4 DEF SchedState
  <2>2. c.ok \in BOOLEAN
    BY <1>2, <1>4, Zenon DEF SchedState
  <2>3. c.status \in [Threads -> TaskStatus]
    BY <1>2, <1>3, <1>4 DEF SchedState, TaskStatus
  <2> QED
    BY <1>4, <2>1, <2>2, <2>3, Zenon DEF SchedState
<1>6. ReadyListInv(c)
  BY <1>2, <1>3, <1>4 DEF ReadyListInv, SchedState
<1>7. CpuInv(c) /\ IdleInv(c)
  BY <1>2, <1>3, <1>4 DEF CpuInv, IdleInv, SchedState
<1>8. SameSleepers(s, c)
  BY <1>2, <1>3, <1>4 DEF SameSleepers, Awake, SchedState
<1>9. schedule(s) = c
  BY DEF schedule, a, b, c
<1> QED
  BY <1>2, <1>4, <1>5, <1>6, <1>7, <1>8, <1>9 DEF Consistent

(* The same, but for the task u.                                           *)
SameSleepersBut(u, s, r) ==
  \A t \in Threads \ {Idle, u} :
    \/ r.status[t] = s.status[t]
    \/ s.status[t] \in Awake /\ r.status[t] \in Awake

(* An ASSERT that holds changes nothing.                                   *)
LEMMA AssertLemma ==
  ASSUME NEW s \in SchedState, NEW c, c
  PROVE  ASSERT(s, c) = s
BY DEF ASSERT, SchedState

(* thread_block puts the running task to sleep and another one on the      *)
(* processor; the idle task may only be put to sleep as BLOCKED.           *)
LEMMA BlockLemma ==
  ASSUME NEW s \in SchedState, Consistent(s),
         NEW stat \in Blocking, s.cur = Idle => stat = "BLOCKED"
  PROVE  LET r == thread_block(s, stat)
         IN  /\ r \in SchedState /\ Consistent(r) /\ r.ok = s.ok
             /\ s.cur # Idle => r.status[s.cur] = stat
             /\ SameSleepersBut(s.cur, s, r)
<1> DEFINE m == [s EXCEPT !.status[s.cur] = stat]
<1>1. thread_block(s, stat) = schedule(m)
  BY AssertLemma DEF thread_block
<1>2. s.cur \in Threads
  BY DEF SchedState
<1>3. /\ m.cur = s.cur /\ m.ready = s.ready /\ m.ticks = s.ticks /\ m.ok = s.ok
      /\ m.status = [s.status EXCEPT ![s.cur] = stat]
      /\ m = [cur |-> m.cur, status |-> m.status, ready |-> m.ready,
              ticks |-> m.ticks, ok |-> m.ok]
  <2>1. PICK u : u = s.cur
    OBVIOUS
  <2>2. m = [s EXCEPT !.status[u] = stat]
    BY <2>1
  <2> HIDE DEF m
  <2>3. /\ m.cur = s.cur /\ m.ready = s.ready /\ m.ticks = s.ticks /\ m.ok = s.ok
        /\ m.status = [s.status EXCEPT ![u] = stat]
        /\ m = [cur |-> m.cur, status |-> m.status, ready |-> m.ready,
                ticks |-> m.ticks, ok |-> m.ok]
    BY <2>2 DEF SchedState
  <2> QED
    BY <2>1, <2>3
<1> HIDE DEF m
<1>4. m \in SchedState
  BY <1>2, <1>3 DEF SchedState, Blocking, TaskStatus
<1>5. ReadyListInv(m)
  BY <1>2, <1>3 DEF Consistent, ReadyListInv, CpuInv, SchedState, Blocking
<1>6. IdleInv(m) /\ \A t \in Threads : m.status[t] = "RUNNING" => t = m.cur
  BY <1>2, <1>3, IdleAssumption DEF Consistent, IdleInv, CpuInv, SchedState, Blocking
<1>7. Leaving(m)
  BY <1>4, <1>5, <1>6 DEF Leaving
<1> DEFINE r == schedule(m)
<1>8. r \in SchedState /\ Consistent(r) /\ r.ok = m.ok /\ SameSleepers(m, r)
  BY <1>7, ScheduleLemma
<1> HIDE DEF r
<1>9. s.cur # Idle => r.status[s.cur] = stat
  <2>1. m.status[s.cur] = stat /\ stat \notin Awake
    BY <1>2, <1>3 DEF SchedState, Awake, Blocking
  <2> QED
    BY <1>2, <1>8, <2>1 DEF SameSleepers
<1>10. SameSleepersBut(s.cur, s, r)
  BY <1>3, <1>8 DEF SameSleepers, SameSleepersBut, SchedState
<1> QED
  BY <1>1, <1>3, <1>8, <1>9, <1>10 DEF r

(* thread_yield keeps every task awake that was.                           *)
LEMMA YieldLemma ==
  ASSUME NEW s \in SchedState, Consistent(s)
  PROVE  LET r == thread_yield(s)
         IN  r \in SchedState /\ Consistent(r) /\ r.ok = s.ok /\ SameSleepers(s, r)
<1> DEFINE m == [s EXCEPT !.ready = list_append(@, s.cur), !.status[s.cur] = "READY"]
<1>1. s.cur \in Threads /\ s.status[s.cur] = "RUNNING" /\ ~elem_find(s.ready, s.cur)
  BY DEF SchedState, Consistent, CpuInv, ReadyListInv
<1>2. thread_yield(s) = schedule(m)
  BY <1>1, AssertLemma DEF thread_yield
<1>3. /\ m.cur = s.cur /\ m.ready = list_append(s.ready, s.cur)
      /\ m.ticks = s.ticks /\ m.ok = s.ok
      /\ m.status = [s.status EXCEPT ![s.cur] = "READY"]
      /\ m = [cur |-> m.cur, status |-> m.status, ready |-> m.ready,
              ticks |-> m.ticks, ok |-> m.ok]
  <2>1. PICK u : u = s.cur
    OBVIOUS
  <2>2. m = [s EXCEPT !.ready = list_append(@, u), !.status[u] = "READY"]
    BY <2>1
  <2> HIDE DEF m
  <2>3. /\ m.cur = s.cur /\ m.ready = list_append(s.ready, u)
        /\ m.ticks = s.ticks /\ m.ok = s.ok
        /\ m.status = [s.status EXCEPT ![u] = "READY"]
        /\ m = [cur |-> m.cur, status |-> m.status, ready |-> m.ready,
                ticks |-> m.ticks, ok |-> m.ok]
    BY <2>2 DEF SchedState
  <2> QED
    BY <2>1, <2>3
<1> HIDE DEF m
<1>4. /\ m.ready \in Seq(Threads) /\ NoDup(m.ready)
      /\ \A x : elem_find(m.ready, x) <=> elem_find(s.ready, x) \/ x = s.cur
  <2>1. PICK q, p, e : q = s.ready /\ p = m.ready /\ e = s.cur
    OBVIOUS
  <2>2. /\ q \in Seq(Threads) /\ e \in Threads /\ p = list_append(q, e)
        /\ NoDup(q) /\ ~elem_find(q, e)
    BY <1>1, <1>3, <2>1 DEF Consistent, ReadyListInv, SchedState
  <2>3. /\ p \in Seq(Threads) /\ NoDup(p)
        /\ \A x : elem_find(p, x) <=> elem_find(q, x) \/ x = e
    BY <2>2, AppendLemma
  <2> QED
    BY <2>1, <2>3
<1>5. m \in SchedState
  <2>1. m.cur \in Threads /\ m.ticks \in [Threads -> Nat]
    BY <1>3 DEF SchedState
  <2>2. m.ok \in BOOLEAN
    BY <1>3, Zenon DEF SchedState
  <2>3. m.status \in [Threads -> TaskStatus]
    BY <1>3 DEF SchedState, TaskStatus
  <2> QED
    BY <1>3, <1>4, <2>1, <2>2, <2>3, Zenon DEF SchedState
<1>6. ReadyListInv(m)
  BY <1>1, <1>3, <1>4 DEF Consistent, ReadyListInv, SchedState
<1>7. IdleInv(m) /\ \A t \in Threads : m.status[t] = "RUNNING" => t = m.cur
  BY <1>1, <1>3, IdleAssumption DEF Consistent, IdleInv, CpuInv, SchedState
<1>8. Leaving(m)
  BY <1>5, <1>6, <1>7 DEF Leaving
<1> DEFINE r == schedule(m)
<1>9. r \in SchedState /\ Consistent(r) /\ r.ok = m.ok /\ SameSleepers(m, r)
  BY <1>8, ScheduleLemma
<1> HIDE DEF r
<1>10. SameSleepers(s, r)
  BY <1>1, <1>3, <1>9, ZenonT(40) DEF SameSleepers, SchedState, Awake
<1> QED
  BY <1>2, <1>3, <1>9, <1>10 DEF r

(* A task that exits is never found in the ready list, and dies; the idle  *)
(* task does not exit.                                                     *)
LEMMA ExitLemma ==
  ASSUME NEW s \in SchedState, Consistent(s), s.cur # Idle
  PROVE  LET r == thread_exit_self(s)
         IN  /\ r \in SchedState /\ Consistent(r) /\ r.ok = s.ok
             /\ r.status[s.cur] = "DIED"
             /\ SameSleepersBut(s.cur, s, r)
<1>1. PICK u : u = s.cur
  OBVIOUS
<1>2. u \in Threads /\ s.status[u] = "RUNNING" /\ ~elem_find(s.ready, u)
  BY <1>1 DEF SchedState, Consistent, CpuInv, ReadyListInv
<1>3. PICK m : m = thread_exit(s, u)
  OBVIOUS
<1>4. /\ m.cur = s.cur /\ m.ready = s.ready /\ m.ticks = s.ticks /\ m.ok = s.ok
      /\ m.status = [s.status EXCEPT ![u] = "DIED"]
      /\ m = [cur |-> m.cur, status |-> m.status, ready |-> m.ready,
              ticks |-> m.ticks, ok |-> m.ok]
  BY <1>2, <1>3 DEF thread_exit, SchedState
<1>5. m \in SchedState
  BY <1>2, <1>4 DEF SchedState, TaskStatus
<1>6. ReadyListInv(m)
  BY <1>2, <1>4 DEF Consistent, ReadyListInv, SchedState
<1>7. IdleInv(m) /\ \A t \in Threads : m.status[t] = "RUNNING" => t = m.cur
  BY <1>1, <1>2, <1>4, IdleAssumption DEF Consistent, IdleInv, CpuInv, SchedState
<1>8. PICK r : r = schedule(m)
  OBVIOUS
<1>9. r \in SchedState /\ Consistent(r) /\ r.ok = m.ok /\ SameSleepers(m, r)
  <2>1. Leaving(m)
    BY <1>5, <1>6, <1>7 DEF Leaving
  <2> QED
    BY <1>8, <2>1, ScheduleLemma
<1>10. r.status[u] = "DIED"
  <2>1. m.status[u] = "DIED"
    BY <1>2, <1>4 DEF SchedState
  <2> QED
    BY <1>1, <1>2, <1>9, <2>1 DEF SameSleepers, Awake
<1>11. SameSleepersBut(u, s, r)
  BY <1>4, <1>9 DEF SameSleepers, SameSleepersBut, SchedState
<1> QED
  BY <1>1, <1>3, <1>4, <1>8, <1>9, <1>10, <1>11 DEF thread_exit_self

(* thread_exit of a task that hangs: it is in no ready list.               *)
LEMMA ReapLemma ==
  ASSUME NEW s \in SchedState, Consistent(s),
         NEW u \in Threads, s.status[u] = "HANGING"
  PROVE  LET r == thread_exit(s, u)
         IN  /\ r \in SchedState /\ Consistent(r) /\ r.ok = s.ok /\ r.cur = s.cur
             /\ r.status = [s.status EXCEPT ![u] = "DIED"]
<1>1. ~elem_find(s.ready, u) /\ u # Idle
  BY DEF Consistent, ReadyListInv, IdleInv
<1>2. PICK m : m = thread_exit(s, u)
  OBVIOUS
<1>3. /\ m.cur = s.cur /\ m.ready = s.ready /\ m.ticks = s.ticks /\ m.ok = s.ok
      /\ m.status = [s.status EXCEPT ![u] = "DIED"]
      /\ m = [cur |-> m.cur, status |-> m.status, ready |-> m.ready,
              ticks |-> m.ticks, ok |-> m.ok]
  BY <1>1, <1>2 DEF thread_exit, SchedState
<1>4. m \in SchedState
  BY <1>3 DEF SchedState, TaskStatus
<1>5. Consistent(m)
  BY <1>1, <1>3, IdleAssumption DEF Consistent, ReadyListInv, IdleInv, CpuInv, SchedState
<1> QED
  BY <1>2, <1>3, <1>4, <1>5

(* A new task starts READY.                                                *)
LEMMA StartLemma ==
  ASSUME NEW s \in SchedState, Consistent(s),
         NEW u \in Threads, s.status[u] = "DIED"
  PROVE  LET r == thread_start(s, u)
         IN  /\ r \in SchedState /\ Consistent(r) /\ r.ok = s.ok /\ r.cur = s.cur
             /\ r.status = [s.status EXCEPT ![u] = "READY"]
<1>1. ~elem_find(s.ready, u) /\ u # Idle
  BY DEF Consistent, ReadyListInv, IdleInv
<1>2. PICK m : m = thread_start(s, u)
  OBVIOUS
<1>3. /\ m.cur = s.cur /\ m.ready = list_append(s.ready, u) /\ m.ok = s.ok
      /\ m.ticks = [s.ticks EXCEPT ![u] = priority[u]]
      /\ m.status = [s.status EXCEPT ![u] = "READY"]
      /\ m = [cur |-> m.cur, status |-> m.status, ready |-> m.ready,
              ticks |-> m.ticks, ok |-> m.ok]
  BY <1>1, <1>2 DEF thread_start, ASSERT, SchedState
<1>4. /\ m.ready \in Seq(Threads) /\ NoDup(m.ready)
      /\ \A x : elem_find(m.ready, x) <=> elem_find(s.ready, x) \/ x = u
  <2>1. PICK q, p : q = s.ready /\ p = m.ready
    OBVIOUS
  <2>2. q \in Seq(Threads) /\ p = list_append(q, u) /\ NoDup(q) /\ ~elem_find(q, u)
    BY <1>1, <1>3, <2>1 DEF Consistent, ReadyListInv, SchedState
  <2>3. /\ p \in Seq(Threads) /\ NoDup(p)
        /\ \A x : elem_find(p, x) <=> elem_find(q, x) \/ x = u
    BY <2>2, AppendLemma
  <2> QED
    BY <2>1, <2>3
<1>5. m \in SchedState
  <2>1. m.ticks \in [Threads -> Nat]
    BY <1>3, PriorityAssumption DEF SchedState
  <2>2. m.status \in [Threads -> TaskStatus]
    BY <1>3 DEF SchedState, TaskStatus
  <2> QED
    BY <1>3, <1>4, <2>1, <2>2 DEF SchedState
<1>6. ReadyListInv(m)
  BY <1>3, <1>4 DEF Consistent, ReadyListInv, SchedState
<1>7. IdleInv(m) /\ CpuInv(m)
  BY <1>1, <1>3, IdleAssumption DEF Consistent, IdleInv, CpuInv, SchedState
<1> QED
  BY <1>2, <1>3, <1>5, <1>6, <1>7 DEF Consistent

(* A timer interrupt preempts, or counts down; nobody falls asleep.        *)
LEMMA TickLemma ==
  ASSUME NEW s \in SchedState, Consistent(s)
  PROVE  LET r == timer_tick(s)
         IN  r \in SchedState /\ Consistent(r) /\ r.ok = s.ok /\ SameSleepers(s, r)
<1>1. CASE s.ticks[s.cur] = 0
  <2>1. Leaving(s)
    BY DEF Leaving, Consistent, CpuInv
  <2> QED
    BY <1>1, <2>1, ScheduleLemma DEF timer_tick
<1>2. CASE s.ticks[s.cur] # 0
  <2>1. PICK u, m : u = s.cur /\ m = timer_tick(s)
    OBVIOUS
  <2>2. m = [s EXCEPT !.ticks[u] = @ - 1]
    BY <1>2, <2>1 DEF timer_tick
  <2>3. /\ m.cur = s.cur /\ m.ready = s.ready /\ m.ok = s.ok /\ m.status = s.status
        /\ m.ticks = [s.ticks EXCEPT ![u] = @ - 1]
        /\ m = [cur |-> m.cur, status |-> m.status, ready |-> m.ready,
                ticks |-> m.ticks, ok |-> m.ok]
    BY <2>2 DEF SchedState
  <2>4. m.ticks \in [Threads -> Nat]
    BY <1>2, <2>1, <2>3 DEF SchedState
  <2>5. m \in SchedState
    BY <2>3, <2>4 DEF SchedState
  <2>6. Consistent(m) /\ SameSleepers(s, m)
    BY <2>3 DEF Consistent, ReadyListInv, CpuInv, IdleInv, SameSleepers
  <2> QED
    BY <2>1, <2>3, <2>5, <2>6
<1> QED
  BY <1>1, <1>2
=============================================================================
