------------------------------ MODULE FrameFifo ------------------------------
(***************************************************************************)
(* What a CAN frame FIFO promises its writer and its reader: frames come   *)
(* out whole, once, in the order they went in, and never more than         *)
(* Capacity of them wait.  A FIFO that drops its oldest frame to make room *)
(* (DropOldest) may lose the head, and only when it is full.               *)
(* CpFifo implements this specification.                                   *)
(***************************************************************************)
EXTENDS Naturals, Sequences

CONSTANTS
  Capacity,    \* number of frames the FIFO can hold
  Frame,       \* the CAN frames
  NoFrame,     \* what the reader holds before its first frame
  DropOldest   \* TRUE when the writer makes room by dropping the head

VARIABLES
  queue,       \* the frames that wait, oldest first
  got,         \* the frame the last completed read handed out
  call         \* the call that took effect last

vars == <<queue, got, call>>

Init == queue = <<>> /\ got = NoFrame /\ call = "init"

Put(f) ==
  /\ Len(queue) < Capacity
  /\ queue' = Append(queue, f)
  /\ call' = "put"
  /\ UNCHANGED got

Get ==
  /\ queue # <<>>
  /\ got' = Head(queue)
  /\ queue' = Tail(queue)
  /\ call' = "get"

Drop ==
  /\ DropOldest
  /\ Len(queue) = Capacity
  /\ queue' = Tail(queue)
  /\ call' = "drop"
  /\ UNCHANGED got

Clear ==
  /\ queue' = <<>>
  /\ call' = "clear"
  /\ UNCHANGED got

(* The content of another FIFO of the same capacity replaces this one's. *)
Copy ==
  /\ queue' \in Seq(Frame) /\ Len(queue') <= Capacity
  /\ call' = "copy"
  /\ UNCHANGED got

Next == (\E f \in Frame : Put(f)) \/ Get \/ Drop \/ Clear \/ Copy

Spec == Init /\ [][Next]_vars
==============================================================================
