---------------------------- MODULE ByteChannel ----------------------------
(***************************************************************************)
(* What the receive side of a serial port promises: a bounded FIFO of      *)
(* bytes that refuses a byte only when it is full, and then says so until  *)
(* the reader has been told.                                               *)
(***************************************************************************)
EXTENDS Naturals, Sequences

CONSTANTS
  Byte,
  Capacity   \* how many bytes the queue holds, a natural number

VARIABLES
  queue,    \* the bytes accepted and not yet delivered
  overrun   \* a byte was refused and the reader does not know yet

Init == queue = <<>> /\ overrun = FALSE

\* A byte goes to the end of the queue.
Accept == /\ Len(queue) < Capacity
          /\ \E b \in Byte : queue' = Append(queue, b)
          /\ UNCHANGED overrun

\* A full queue refuses a byte and the refusal is on record.
Refuse == /\ Len(queue) = Capacity
          /\ overrun' = TRUE
          /\ UNCHANGED queue

Deliver == /\ queue # <<>>
           /\ queue' = Tail(queue)
           /\ UNCHANGED overrun

\* The reader throws away what it has not read.
Flush == queue' = <<>> /\ UNCHANGED overrun

\* The reader learns of the refusal.
Report == overrun' = FALSE /\ UNCHANGED queue

Next == Accept \/ Refuse \/ Deliver \/ Flush \/ Report

Spec == Init /\ [][Next]_<<queue, overrun>>
=============================================================================
