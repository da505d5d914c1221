-------------------------------- MODULE Pipe --------------------------------
(***************************************************************************)
(* pipe_read and pipe_write of shell/pipe.c over one ring, by tasks that   *)
(* share the pipe after a fork.  Both choose the number of bytes from the  *)
(* state of the ring when they are called.                                 *)
(***************************************************************************)
EXTENDS Ioqueue

CONSTANTS Readers, Writers,   \* the tasks that read, and that write
          MaxCount            \* bound: the largest count of a call

ASSUME RolesAssumption ==
  Readers \subseteq Threads \ {Idle} /\ Writers \subseteq Threads \ {Idle}
ASSUME CountAssumption == MaxCount \in Nat

Init == ioqueue_init

(* Mutated form: the length of the ring is not looked at.                  *)
pipe_read_all(t, count) == Enter(t, "consumer", count)

pipe_read(t, count) ==
  Enter(t, "consumer", IF ioq_length > count THEN count ELSE ioq_length)

pipe_write(t, count) ==
  LET ioq_left == bufsize - ioq_length
  IN  Enter(t, "producer", IF ioq_left > count THEN count ELSE ioq_left)

Read(t) == \E n \in 1..MaxCount : pipe_read(t, n)

Write(t) == \E n \in 1..MaxCount : pipe_write(t, n)

Next ==
  \/ QueueNext
  \/ \E t \in Readers : Read(t)
  \/ \E t \in Writers : Write(t)

Spec == Init /\ [][Next]_queueVars

(* The readers never stop reading.                                         *)
FairSpec ==
  /\ Spec
  /\ QueueFairness
  /\ \A t \in Readers : SF_queueVars(Read(t))

-----------------------------------------------------------------------------
(* "Choose the smaller amount to read, to avoid blocking": no pipe_read    *)
(* ever sleeps, neither on the empty ring nor on the lock.                 *)
ReadNeverBlocks ==
  \A t \in Threads : InQueue(t) /\ side[t] = "consumer" => sch.cur = t

(* "Choose the smaller amount to write, to avoid blocking": the same of    *)
(* pipe_write.                                                             *)
WriteNeverBlocks ==
  \A t \in Threads : InQueue(t) /\ side[t] = "producer" => sch.cur = t

(* At most one task is inside pipe_write: the use the shell makes of a     *)
(* pipe.  With two, the flaw of ConsumerSleepsOnlyWhenEmpty shows on the   *)
(* writers' side.                                                          *)
OneWriter ==
  Cardinality({t \in Threads : InQueue(t) /\ side[t] = "producer"}) <= 1

(* ioqueue.h says of the producer that it goes on as long as the buffer is *)
(* not full and sleeps otherwise: if writers take turns, one that sleeps   *)
(* has a full ring before it, so every ioq_getchar that makes room has     *)
(* woken it.                                                               *)
ProducerSleepsOnlyWhenFull ==
  []OneWriter => [](sleeper["producer"] # NULL => ioq_full)

(* If writers take turns a pipe_write returns, as long as somebody keeps   *)
(* reading.                                                                *)
WriteCompletes ==
  []OneWriter => \A t \in Writers : InQueue(t) ~> pc[t] = "user"
=============================================================================
