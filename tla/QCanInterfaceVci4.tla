-------------------------- MODULE QCanInterfaceVci4 --------------------------
(***************************************************************************)
(* An interface of the VCI 4 plug-in (qcan_interface_vci4.cpp) and the     *)
(* network it is attached to.  A timer looks for messages and announces    *)
(* them with readyRead(); the network then reads until nothing is left,    *)
(* and this last read() starts the timer again.  The same timer asks       *)
(* whether the list of devices has changed and reports a failure if so:    *)
(* the network stops the interface and lets it go.                         *)
(*                                                                         *)
(* The VCI library is external: every channel it makes has a reader of its *)
(* own, which keeps what it holds when the channel is deactivated; Frames  *)
(* (error messages are read as frames too) arrive while the line runs,     *)
(* and "info" or "status" messages between them; a device may be unplugged *)
(* and plugged in again.  What a frame holds is left out, and write().     *)
(***************************************************************************)
EXTENDS Integers, Sequences, Subsequences

CONSTANTS
  Frame,       \* bound: the frames that are received, each once
  MaxRestart,  \* bound: calls that start, stop or reset the interface
  MaxPlug      \* bound: changes of the list of devices

VARIABLES
  v,           \* the members of QCanInterfaceVci
  fifo,        \* external: the messages each reader holds
  line,        \* external: the CAN line runs
  plugged,     \* external: the device is there
  event,       \* external: ulDeviceEventP is signalled
  attached,    \* the interface is attached to a network
  timers,      \* the single shots of onTimerEvent() that are under way
  taken,       \* history: frames in the order they arrived, with their reader
  delivered,   \* history: frames the network has read
  broken,      \* history: a connect() has failed half way
  restarts, plugs

network == <<attached, delivered>>
vars == <<v, fifo, line, plugged, event, timers, taken, broken, network, restarts, plugs>>

Messages == Frame \cup {"info"}
Elements(s) == {s[i] : i \in DOMAIN s}

(* ptsRcvFifoP is the number of a reader, 0 is nullptr.                    *)
Init ==
  /\ v = [teConnectedP |-> FALSE, ptsRcvFifoP |-> 0, ptsCanControlP |-> FALSE,
          teCanModeP |-> "stop", ulDeviceEventP |-> FALSE]
  /\ fifo = <<>> /\ line = FALSE /\ plugged = TRUE /\ event = FALSE
  /\ attached = FALSE /\ timers = 0 /\ taken = <<>> /\ delivered = <<>>
  /\ broken = FALSE /\ restarts = 0 /\ plugs = 0

------------------------------------------------------------------------------
(* Methods.  run is the state of the line.                                 *)
setMode(s, run, mode) ==
  IF mode = "start"
  THEN [s |-> IF s.ptsCanControlP THEN [s EXCEPT !.teCanModeP = mode] ELSE s,
        run |-> run \/ s.ptsCanControlP]
  ELSE [s |-> [s EXCEPT !.teCanModeP = mode], run |-> run /\ ~s.ptsCanControlP]

(* disconnect() releases the control and keeps the reader.                 *)
disconnect(s) == [s EXCEPT !.teConnectedP = FALSE, !.ptsCanControlP = FALSE]

(* Mutant: the control is released while the line runs. *)
ReleaseKeepsLine(s, run) ==
  IF s.teConnectedP THEN [s |-> disconnect(s), run |-> run] ELSE setMode(s, run, "stop")

(* QCanNetwork::stopInterface().                                           *)
Stopped(s, run) ==
  LET m == setMode(s, run, "stop")
  IN IF s.teConnectedP THEN [s |-> disconnect(m.s), run |-> FALSE] ELSE m

(* Mutant: the network only shows the state. *)
OnlyShown(failure) == UNCHANGED <<v, line, attached>>

(* QCanNetwork::onInterfaceConnectionChanged() of a failure.               *)
Failed(failure) ==
  IF failure /\ attached
  THEN v' = Stopped(v, line).s /\ line' = Stopped(v, line).run /\ attached' = FALSE
  ELSE UNCHANGED <<v, line, attached>>

------------------------------------------------------------------------------
Restart == restarts < MaxRestart /\ restarts' = restarts + 1

(* Mutant: the reader is set although GetReader() has failed. *)
DanglingReader(outcome) ==
  [v EXCEPT !.ulDeviceEventP = TRUE, !.ptsCanControlP = outcome # "nodevice",
            !.ptsRcvFifoP = Len(fifo) + 1]

(* connect(): the device is not opened; or socketInit() fails, where only  *)
(* the failures that follow Initialize() are told to connect(), which then *)
(* returns eERROR_NONE all the same; or it succeeds.                       *)
Connected(outcome) ==
  LET new == Len(fifo) + 1
      s == [v EXCEPT !.ulDeviceEventP = TRUE]
  IN CASE outcome = "nodevice" -> s
       [] outcome = "nochannel" -> [s EXCEPT !.teConnectedP = TRUE]
       [] outcome = "noreader" -> [s EXCEPT !.ptsCanControlP = TRUE]
       [] outcome = "nowriter" -> [s EXCEPT !.ptsCanControlP = TRUE, !.ptsRcvFifoP = new]
       [] outcome = "ok" -> [s EXCEPT !.ptsCanControlP = TRUE, !.ptsRcvFifoP = new,
                                      !.teConnectedP = TRUE]

(* Mutant: the timer is started only when the bit rate has been set.       *)
StartWithoutTimer(outcome) ==
  /\ Restart /\ ~attached /\ attached' = TRUE
  /\ outcome = "ok" /\ plugged
  /\ v' = setMode(Connected(outcome), line, "start").s /\ line' = TRUE
  /\ fifo' = Append(fifo, <<>>)
  /\ UNCHANGED <<plugged, event, taken, delivered, plugs, timers, broken>>

(* startInterface() with the interface just added: setBitrate() answers    *)
(* eERROR_MODE without a control, and then setMode() is not called.        *)
startInterface(outcome) ==
  /\ Restart /\ ~attached /\ attached' = TRUE
  /\ outcome \in IF plugged THEN {"nochannel", "noreader", "nowriter", "ok"} ELSE {"nodevice"}
  /\ LET s == Connected(outcome)
         m == setMode(s, line, "start")
         started == outcome # "nodevice" /\ s.ptsCanControlP
     IN /\ v' = IF started THEN m.s ELSE s
        /\ line' = IF started THEN m.run ELSE line
  /\ fifo' = IF outcome \in {"nowriter", "ok"} THEN Append(fifo, <<>>) ELSE fifo
  /\ timers' = IF outcome \in {"nochannel", "ok"} THEN timers + 1 ELSE timers
  /\ broken' = (broken \/ outcome # "ok")
  /\ UNCHANGED <<plugged, event, taken, delivered, plugs>>

(* stopInterface() and removeInterface() of the server dialog.             *)
stopInterface ==
  /\ Restart /\ attached /\ attached' = FALSE
  /\ v' = Stopped(v, line).s /\ line' = Stopped(v, line).run
  /\ UNCHANGED <<fifo, plugged, event, timers, taken, delivered, broken, plugs>>

(* ResetLine() stops the line, setMode() starts it again.                  *)
reset ==
  /\ Restart /\ attached
  /\ line' = setMode(v, line /\ ~v.ptsCanControlP, v.teCanModeP).run
  /\ v' = setMode(v, line, v.teCanModeP).s
  /\ UNCHANGED <<fifo, plugged, event, timers, taken, network, broken, plugs>>

(* QCanNetwork::setBitrate() with the interface attached.                  *)
setBitrate ==
  /\ Restart /\ attached
  /\ LET m == setMode(v, line, "stop")
         n == setMode(m.s, m.run, "start")
     IN v' = n.s /\ line' = n.run
  /\ UNCHANGED <<fifo, plugged, event, timers, taken, network, broken, plugs>>

------------------------------------------------------------------------------
reader == v.ptsRcvFifoP

(* What onInterfaceNewData() reads at once: up to the first "info" message *)
(* or to the end, as read() answers both with eERROR_FIFO_RCV_EMPTY.       *)
Reads(q) ==
  CHOOSE k \in 0 .. Len(q) :
    /\ \A j \in 1 .. k : q[j] # "info"
    /\ k < Len(q) => q[k + 1] = "info"
Rest(q) == SubSeq(q, Reads(q) + 2, Len(q))

(* The poll: messages are waiting, or the fill count is asked of a device  *)
(* that is gone, where the answer may be any and read() reports a failure. *)
onTimerEvent(filled) ==
  LET q == fifo[reader]
      asks == reader # 0 /\ IF plugged THEN q # <<>> ELSE filled
      reading == asks /\ attached /\ plugged
  IN /\ timers > 0 /\ (filled => reader # 0 /\ ~plugged)
     /\ timers' = IF reader = 0 \/ (asks /\ ~attached) THEN timers - 1 ELSE timers
     /\ fifo' = IF reading THEN [fifo EXCEPT ![reader] = Rest(q)] ELSE fifo
     /\ delivered' = IF reading THEN delivered \o
                       [k \in 1 .. Reads(q) |-> [frame |-> q[k], reader |-> Len(fifo)]]
                     ELSE delivered
     /\ event' = FALSE
     /\ Failed(event \/ (asks /\ attached /\ ~plugged))
     /\ UNCHANGED <<plugged, taken, broken, restarts, plugs>>

Arrive(r) ==
  /\ line /\ plugged /\ v.teConnectedP /\ reader # 0
  /\ r \notin {taken[k].frame : k \in DOMAIN taken}
  /\ ~(r = "info" /\ "info" \in Elements(fifo[reader]))   \* bound
  /\ fifo' = [fifo EXCEPT ![reader] = Append(@, r)]
  /\ taken' = IF r \in Frame THEN Append(taken, [frame |-> r, reader |-> reader]) ELSE taken
  /\ UNCHANGED <<v, line, plugged, event, timers, network, broken, restarts, plugs>>

(* The event is signalled for every change of the list of devices, from    *)
(* the first connect() on: of this device, or of any other.                *)
DevicesChange(mine) ==
  /\ plugs < MaxPlug /\ plugs' = plugs + 1
  /\ plugged' = IF mine THEN ~plugged ELSE plugged
  /\ line' = (line /\ plugged')
  /\ event' = v.ulDeviceEventP
  /\ UNCHANGED <<v, fifo, timers, taken, network, broken, restarts>>

Next ==
  \/ \E outcome \in {"nodevice", "nochannel", "noreader", "nowriter", "ok"} :
       startInterface(outcome)
  \/ stopInterface \/ reset \/ setBitrate
  \/ \E b \in BOOLEAN : onTimerEvent(b) \/ DevicesChange(b)
  \/ \E r \in Messages : Arrive(r)

(* A timer that was started expires.                                       *)
Expire == \E b \in BOOLEAN : onTimerEvent(b)
Fairness == WF_vars(Expire)
Spec == Init /\ [][Next]_vars /\ Fairness

------------------------------------------------------------------------------
TypeOK ==
  /\ v.teConnectedP \in BOOLEAN /\ v.ptsCanControlP \in BOOLEAN
  /\ v.ptsRcvFifoP \in 0 .. Len(fifo) /\ v.teCanModeP \in {"stop", "start"}
  /\ fifo \in Seq(Seq(Messages)) /\ timers \in Nat
  /\ taken \in Seq([frame : Frame, reader : Nat])
  /\ delivered \in Seq([frame : Frame, reader : Nat])
  /\ line \in BOOLEAN /\ event \in BOOLEAN /\ attached \in BOOLEAN

(* The network reads the frames of a channel in the order they arrived,    *)
(* all of them and none twice, and none of an earlier channel after a      *)
(* restart, as long as connect() does what it reports: the reader of an    *)
(* earlier channel stays readable (socketRelease, onTimerEvent, read).     *)
OfReader(n) == [frame : Messages, reader : {n}]
DeliveredFrom(n) == Only(delivered, OfReader(n))
TakenFrom(n) == Only(taken, OfReader(n))
FramesIn(n) == Only(fifo[n], Frame)
ReadExactly ==
  ~broken =>
    \A n \in 1 .. Len(fifo) :
      [k \in DOMAIN DeliveredFrom(n) |-> DeliveredFrom(n)[k].frame] \o FramesIn(n)
        = [k \in DOMAIN TakenFrom(n) |-> TakenFrom(n)[k].frame]

Working == attached /\ v.teConnectedP /\ reader # 0

(* The polling of a connected interface with a reader never ends, whatever *)
(* is read, reset or plugged (onTimerEvent, read, connect).                *)
Polled == Working => timers > 0

(* The line runs for the network an interface is attached to only: never   *)
(* after the interface was stopped or has failed (Stopped, socketRelease). *)
LineIsUsed == line => attached /\ v.ptsCanControlP /\ v.teCanModeP = "start"

(* A device that is unplugged is detached from its network, and messages   *)
(* do not wait for ever.                                                   *)
Waits(f) == IF Working THEN f \in Elements(fifo[reader]) ELSE FALSE
Noticed ==
  /\ (Working /\ ~plugged) ~> (~attached \/ plugged)
  /\ \A f \in Frame : Waits(f) ~> ~Waits(f)
==============================================================================
