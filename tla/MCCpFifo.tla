------------------------------ MODULE MCCpFifo -------------------------------
(* CpFifo for TLC, in the two situations of the repository: the constants   *)
(* of the configuration describe a driver and an application that preempt   *)
(* each other, Loop an event loop without atomics where handleCanFrame of   *)
(* the QCan driver drops the oldest frame.  The frames are interchangeable. *)
EXTENDS CpFifo, TLC

VARIABLE situation

Loop == INSTANCE CpFifo WITH Atomic <- FALSE, Preemptive <- FALSE, DropOldest <- TRUE

MCInit == Init /\ situation \in {"preemptive", "loop"}

MCNext ==
  /\ UNCHANGED situation
  /\ \/ situation = "preemptive" /\ Next
     \/ situation = "loop" /\ Loop!Next

MCSpec == MCInit /\ [][MCNext]_<<vars, situation>>

(* ImplementsFrameFifo of CpFifo in either situation: frames come out       *)
(* whole, once and in order, and only an event loop drops the oldest one.   *)
RingImplements ==
  /\ Queue!Init
  /\ [][IF situation = "loop" THEN Loop!Queue!Next ELSE Queue!Next]_(Queue!vars)

FrameSymmetry == Permutations(Frame)
==============================================================================
