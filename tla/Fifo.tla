-------------------------------- MODULE Fifo --------------------------------
(***************************************************************************)
(* What a ring of device/ioqueue.c promises its users: a first-in,         *)
(* first-out queue of bytes that holds at most Capacity of them.           *)
(***************************************************************************)
EXTENDS Naturals, Sequences

CONSTANTS Capacity, Bytes, NULL

VARIABLES queue,   \* the bytes stored and not yet taken
          byte     \* the last byte taken

Init == queue = << >> /\ byte = NULL

Put(b) ==
  /\ Len(queue) < Capacity
  /\ queue' = Append(queue, b)
  /\ UNCHANGED byte

Get ==
  /\ queue # << >>
  /\ byte' = Head(queue)
  /\ queue' = Tail(queue)

Next == Get \/ \E b \in Bytes : Put(b)

Spec == Init /\ [][Next]_<<queue, byte>>
=============================================================================
