-------------------------- MODULE QCanInterfacePeak --------------------------
(***************************************************************************)
(* An interface of the PEAK plug-in (qcan_interface_peak.cpp) and the      *)
(* network it is attached to.  A timer polls the driver library: a frame   *)
(* it finds is stored and announced with readyRead(), and the network then *)
(* reads until read() has nothing left and starts the timer again.         *)
(*                                                                         *)
(* The library is external: Frames wait in a queue of the channel, between *)
(* them "status" messages, "buserror" results and a "failure" of the       *)
(* hardware.  A channel that was initialised for classic CAN is not read   *)
(* with the CAN FD function, nor the other way round.  write() hands the   *)
(* frame to the library and keeps no state of its own.  Of the content of  *)
(* a frame the remote bit is kept.                                         *)
(***************************************************************************)
EXTENDS Integers, Sequences, Subsequences

CONSTANTS
  Frame,       \* bound: the frames that are received, each once
  Remote,      \* the remote frames among them
  None,        \* what a new QCanFrame object holds instead of one of them
  MaxRestart   \* bound: calls that start, stop, reset or reconfigure

VARIABLES
  p,           \* the members of QCanInterfacePeak
  queue,       \* external: what the next calls of CAN_Read will find
  attached,    \* the interface is attached to a network
  timers,      \* the single shots of onTimerEvent() that are under way
  taken,       \* history: frames that CAN_Read has returned
  delivered,   \* history: frames the network has read
  noise,       \* history: results other than frames that were in the queue
  failed,      \* history: a read answered eERROR_DEVICE since connect()
  glitch,      \* history: a bus error was read with the CAN FD function
  restarts

vars == <<p, queue, attached, timers, taken, delivered, noise, failed, glitch, restarts>>

Noise == {"status", "buserror", "failure"}
Elements(s) == {s[i] : i \in DOMAIN s}

NewFrame == [frame |-> None, rtr |-> FALSE]

(* channel is what the library has initialised.                            *)
Init ==
  /\ p = [teConnectedP |-> FALSE, channel |-> "none", btFdUsedP |-> FALSE,
          btHasReceivedFrameP |-> FALSE, clRcvFrameP |-> NewFrame, teCanModeP |-> "init"]
  /\ queue = <<>> /\ attached = FALSE /\ timers = 0
  /\ taken = <<>> /\ delivered = <<>> /\ noise = {}
  /\ failed = FALSE /\ glitch = FALSE /\ restarts = 0

------------------------------------------------------------------------------
(* What a call of CAN_Read or CAN_ReadFD finds.                            *)
Result(q) ==
  IF p.channel # (IF p.btFdUsedP THEN "fd" ELSE "classic") THEN "failure"
  ELSE IF q = <<>> THEN "empty" ELSE Head(q)

(* readFrame() and readFrameFD() answer eERROR_NONE for a frame, and for a *)
(* bus error with CAN FD, which leaves the frame of the caller as it is.   *)
(* The remote bit of the caller's frame is set by readFrame(), and cleared *)
(* only by readFrameFD().                                                  *)
IsNone(r) == r \in Frame \/ (p.btFdUsedP /\ r = "buserror")
Content(r, old) ==
  IF r \in Frame
  THEN [frame |-> r, rtr |-> r \in Remote \/ (old.rtr /\ ~p.btFdUsedP)]
  ELSE old

disconnect(s) ==
  IF s.channel = "none" THEN s
  ELSE [s EXCEPT !.teConnectedP = FALSE, !.channel = "none"]

(* Mutant: what was read is not taken out of the library. *)
StatusStays(s, r, q) ==
  /\ timers' = timers /\ failed' = failed /\ p' = s /\ queue' = q

(* A read that is not answered with eERROR_NONE: the timer starts again,   *)
(* unless the hardware has failed.  r is the result, q the queue before.   *)
LastRead(s, r, q) ==
  /\ timers' = IF r = "failure" THEN timers - 1 ELSE timers
  /\ failed' = (failed \/ r = "failure")
  /\ p' = IF r = "failure" /\ ~p.btFdUsedP THEN disconnect(s) ELSE s
  /\ queue' = IF p.channel = "none" \/ r = "failure" THEN <<>>
              ELSE IF q = <<>> THEN q ELSE Tail(q)

(* How many results of the queue the loop of onInterfaceNewData() reads.   *)
Run(q) ==
  IF \A k \in DOMAIN q : IsNone(q[k]) THEN Len(q)
  ELSE (CHOOSE k \in DOMAIN q : ~IsNone(q[k]) /\ \A j \in 1 .. k - 1 : IsNone(q[j])) - 1

(* The frames a sequence of such results hands out, one after the other.   *)
HandedOut(first, q) ==
  LET out[k \in 0 .. Len(q)] == IF k = 0 THEN first ELSE Content(q[k], out[k - 1])
  IN [k \in DOMAIN q |-> out[k]]
FramesOf(q) == Only(q, Frame)

(* Mutant: the frame the timer has found is not stored. *)
NetworkReadsOn(stored, rest) ==
  LET q == SubSeq(rest, 1, Run(rest))
      left == SubSeq(rest, Run(rest) + 1, Len(rest))
  IN /\ delivered' = delivered \o HandedOut(stored, q)
     /\ taken' = taken \o FramesOf(<<Head(queue)>> \o q)
     /\ glitch' = (glitch \/ "buserror" \in Elements(<<Head(queue)>> \o q))
     /\ LastRead([p EXCEPT !.clRcvFrameP = stored], Result(left), left)

(* onInterfaceNewData(): the stored frame is read first, then the library. *)
NetworkReads(stored, rest) ==
  LET q == SubSeq(rest, 1, Run(rest))
      left == SubSeq(rest, Run(rest) + 1, Len(rest))
  IN /\ delivered' = delivered \o <<stored>> \o HandedOut(stored, q)
     /\ taken' = taken \o FramesOf(<<Head(queue)>> \o q)
     /\ glitch' = (glitch \/ "buserror" \in Elements(<<Head(queue)>> \o q))
     /\ LastRead([p EXCEPT !.clRcvFrameP = stored], Result(left), left)

onTimerEvent ==
  /\ timers > 0
  /\ LET r == Result(queue)
     IN \/ /\ IsNone(r) /\ attached
           /\ NetworkReads(Content(r, p.clRcvFrameP), Tail(queue))
        \/ /\ IsNone(r) /\ ~attached
           /\ p' = [p EXCEPT !.btHasReceivedFrameP = TRUE,
                             !.clRcvFrameP = Content(r, @)]
           /\ timers' = timers - 1
           /\ UNCHANGED <<queue, taken, delivered, glitch, failed>>
        \/ /\ ~IsNone(r)
           /\ LastRead(p, r, queue)
           /\ UNCHANGED <<taken, delivered, glitch>>
  /\ UNCHANGED <<attached, noise, restarts>>

------------------------------------------------------------------------------
Restart == restarts < MaxRestart /\ restarts' = restarts + 1
Initialized(s, mode, ok) == [s EXCEPT !.channel = IF ok THEN mode ELSE "none"]

(* The bit rate is set by initialising the channel again.  The method      *)
(* answers eERROR_LIBRARY even when this succeeds, so startInterface()     *)
(* goes no further and never calls setMode().                              *)
setBitrate(s, fd, ok) ==
  [Initialized(s, IF fd THEN "fd" ELSE "classic", ok) EXCEPT !.btFdUsedP = fd]

startInterface(connects, fd, ok) ==
  /\ Restart /\ ~attached /\ attached' = TRUE
  /\ queue' = <<>>
  /\ \/ /\ connects
        /\ p' = setBitrate([p EXCEPT !.teConnectedP = TRUE], fd, ok)
        /\ timers' = timers + 1 /\ failed' = FALSE
     \/ /\ ~connects /\ ok /\ ~fd
        /\ p' = [p EXCEPT !.teConnectedP = FALSE, !.channel = "none"]
        /\ UNCHANGED <<timers, failed>>
  /\ UNCHANGED <<taken, delivered, noise, glitch>>

stopInterface ==
  /\ Restart /\ attached /\ attached' = FALSE
  /\ p' = LET s == [p EXCEPT !.teCanModeP = "init"]
          IN IF p.teConnectedP THEN disconnect(s) ELSE s
  /\ queue' = IF p.teConnectedP THEN <<>> ELSE queue
  /\ UNCHANGED <<timers, taken, delivered, noise, failed, glitch>>

(* The channel is initialised for classic CAN, whatever it was before.     *)
reset(ok) ==
  /\ Restart /\ attached /\ p.channel # "none"
  /\ p' = IF p.teConnectedP THEN Initialized(p, "classic", ok) ELSE p
  /\ queue' = <<>>
  /\ UNCHANGED <<attached, timers, taken, delivered, noise, failed, glitch>>

(* QCanNetwork::setBitrate() of a network with the interface attached.     *)
changeBitrate(fd, ok) ==
  /\ Restart /\ attached
  /\ p' = [setBitrate(p, fd, ok) EXCEPT !.teCanModeP = "start"]
  /\ queue' = <<>>
  /\ UNCHANGED <<attached, timers, taken, delivered, noise, failed, glitch>>

Arrive(r) ==
  /\ p.channel # "none" /\ r \notin noise \cup Elements(taken) \cup Elements(queue)
  /\ queue' = Append(queue, r)
  /\ noise' = IF r \in Noise THEN noise \cup {r} ELSE noise
  /\ UNCHANGED <<p, attached, timers, taken, delivered, failed, glitch, restarts>>

Next ==
  \/ onTimerEvent \/ stopInterface
  \/ \E ok, fd \in BOOLEAN :
       \/ \E connects \in BOOLEAN : startInterface(connects, fd, ok)
       \/ changeBitrate(fd, ok)
  \/ \E ok \in BOOLEAN : reset(ok)
  \/ \E r \in Frame \cup Noise : Arrive(r)

(* A timer that was started expires.                                       *)
Fairness == WF_vars(onTimerEvent)
Spec == Init /\ [][Next]_vars /\ Fairness

------------------------------------------------------------------------------
Object == [frame : Frame \cup {None}, rtr : BOOLEAN]
TypeOK ==
  /\ p.channel \in {"none", "classic", "fd"} /\ p.clRcvFrameP \in Object
  /\ p.teConnectedP \in BOOLEAN /\ p.btFdUsedP \in BOOLEAN
  /\ p.btHasReceivedFrameP \in BOOLEAN /\ p.teCanModeP \in {"init", "start"}
  /\ queue \in Seq(Frame \cup Noise) /\ attached \in BOOLEAN /\ timers \in Nat
  /\ taken \in Seq(Frame) /\ delivered \in Seq(Object)
  /\ restarts \in 0 .. MaxRestart

(* The network reads what the driver library has handed out, in the same   *)
(* order and nothing twice, through the stored frame and the two loops:    *)
(* unless a bus error was read with the CAN FD function, which answers it  *)
(* with eERROR_NONE and an old frame (qcan_interface_peak.cpp:838).        *)
ReadExactly == glitch \/ [k \in DOMAIN delivered |-> delivered[k].frame] = taken

(* A data frame is not read as a remote frame: "copied to ... clDataR" the *)
(* frame of the interface (qcan_interface.hpp:209).  readFrame() never     *)
(* clears the bit, and both its callers use one object for many frames.    *)
RemoteIsRemote == \A k \in DOMAIN delivered :
  delivered[k].rtr => delivered[k].frame \in Remote

(* The polling of a connected interface goes on through all that can come  *)
(* from the library, and through every restart; only a failure of the      *)
(* hardware ends it (read, onTimerEvent).                                  *)
Polled == attached /\ p.teConnectedP /\ ~failed => timers > 0

(* No frame is left in the driver library while the interface works.       *)
Emptied == \A f \in Frame :
  f \in Elements(queue) ~> (f \notin Elements(queue) \/ failed \/ ~(attached /\ p.teConnectedP))
==============================================================================
