-------------------------- MODULE QCanInterfaceUsart --------------------------
(***************************************************************************)
(* The interfaces of the USART plug-in (qcan_interface_usart.cpp), used by *)
(* networks: onInterfaceChange() of the server dialog adds and starts an   *)
(* interface, or stops and removes it; a network resets it, changes its    *)
(* bit rate, writes frames, and reads after readyRead() until nothing is   *)
(* left.  All interfaces share the lists of frames, the pending flag, the  *)
(* CANpie port and the serial port, which are global variables.            *)
(***************************************************************************)
EXTENDS CpUsart, FiniteSets

CONSTANTS
  Interface,    \* the interfaces of the plug-in
  ChannelOf,    \* uwUsartNumberP + 1 of an interface
  ListMax,      \* QCAN_FRAME_LIST_MAX
  Outgoing,     \* bound: the frames networks write, each once
  MaxRestart    \* bound: calls that add, remove, reset or reconfigure

ASSUME InterfaceAssumption ==
  /\ ChannelOf \in [Interface -> Channel]
  /\ ListMax \in Nat \ {0} /\ MaxRestart \in Nat /\ Outgoing \subseteq Frame

VARIABLES
  u,          \* the state of the program
  attached,   \* the interfaces that are attached to a network
  timers,     \* the single shots of onTimerEvent() that are under way
  wire,       \* history: the frames the serial port has written
  accepted,   \* history: the frames write() returned eERROR_NONE for
  arrived,    \* history: the frames the serial port received, with the epoch
  delivered,  \* history: the frames read(), with the epoch
  epoch,      \* history: number of connections made so far
  partly,     \* history: bytesWritten() has come before a frame was complete
  disturbed,  \* history: the plug-in was used in a way it does not survive
  restarts

seen == <<wire, accepted, arrived, delivered>>
vars == <<u, attached, timers, seen, epoch, partly, disturbed, restarts>>

Elements(s) == {s[i] : i \in DOMAIN s}
Frames(s) == [i \in DOMAIN s |-> s[i].frame]

Init ==
  /\ u = [ubDrvInfo |-> "off", ubPhyIf |-> 1,
          atsCanMsgS |-> [c \in Channel |-> [b \in Buffer |-> ClearBuffer]],
          usart |-> 0, open |-> FALSE, in |-> <<>>, out |-> <<>>, clUartTrmBufG |-> None,
          pending |-> FALSE, readList |-> <<>>, writeList |-> <<>>,
          connected |-> [i \in Interface |-> FALSE], mode |-> [i \in Interface |-> "stop"]]
  /\ attached = {} /\ timers = [i \in Interface |-> 0]
  /\ wire = <<>> /\ accepted = <<>> /\ arrived = <<>> /\ delivered = <<>>
  /\ epoch = 0 /\ partly = FALSE /\ disturbed = FALSE /\ restarts = 0

------------------------------------------------------------------------------
(* Methods, as operators on the state of the program.                      *)

(* Mutant: every write() sends at once. *)
TransmitAlways(v) ==
  IF v.writeList = <<>> THEN v
  ELSE LET f == Head(v.writeList)
           w == [v EXCEPT !.pending = TRUE, !.writeList = Tail(@)]
       IN CpCoreBufferSend(
            CpCoreBufferConfig(w, TrmBuffer, f, FALSE, f \in Ext, TRUE), TrmBuffer)

(* btWrtieIsPendingG is set, and an interface of channel 1 sends with      *)
(* buffer 1.  An error of the driver is only logged.                       *)
transmitFrame(v) ==
  IF v.pending \/ v.writeList = <<>> THEN v
  ELSE LET f == Head(v.writeList)
           w == [v EXCEPT !.pending = TRUE, !.writeList = Tail(@)]
       IN CpCoreBufferSend(
            CpCoreBufferConfig(w, TrmBuffer, f, FALSE, f \in Ext, TRUE), TrmBuffer)

(* Mutant: the list is handled before the flag is cleared. *)
TransmitBeforeClear(v) == [transmitFrame(v) EXCEPT !.pending = FALSE]

(* Mutant: an empty list is an early return, before the flag is cleared.   *)
NothingToSend(v) ==
  IF v.writeList = <<>> THEN v ELSE transmitFrame([v EXCEPT !.pending = FALSE])

AppCanTrmHandler(v) == transmitFrame([v EXCEPT !.pending = FALSE])

CpUsart1TrmHandler(v) ==
  IF CpCanMsgFromBuffer(v, v.clUartTrmBufG, TRUE) = TrmBuffer THEN AppCanTrmHandler(v) ELSE v

CpUsart1RcvHandler(v, f) ==
  IF CpCanMsgFromBuffer(v, f, FALSE) = None THEN v ELSE [v EXCEPT !.readList = Append(@, f)]

(* Mutant: the bytes stay in the serial port. *)
ReadyReadPeeks(v) == CpUsart1RcvHandler(v, Head(v.in))

(* One frame per readyRead() of the port, however many have arrived.       *)
onReadyRead(v) == CpUsart1RcvHandler([v EXCEPT !.in = Tail(@)], Head(v.in))

disconnect(v, i) ==
  IF ~CheckParam(v) THEN v
  ELSE [CpCoreDriverRelease(v) EXCEPT
          !.readList = <<>>, !.writeList = <<>>, !.connected[i] = FALSE]

RcvConfig(v, ext) == CpCoreBufferConfig(v, RcvBuffer(ext), None, TRUE, ext, FALSE)
(* Mutant: connect() trusts the lists to be empty. *)
ConnectKeepsLists(v, i) ==
  [RcvConfig(RcvConfig(CpCoreIntFunctions(CpCoreDriverInit(v, ChannelOf[i])), FALSE), TRUE)
     EXCEPT !.connected[i] = TRUE]

(* Only when the driver is not in use; the pending flag stays as it is.    *)
connect(v, i) ==
  [RcvConfig(RcvConfig(CpCoreIntFunctions(CpCoreDriverInit(v, ChannelOf[i])), FALSE), TRUE)
     EXCEPT !.readList = <<>>, !.writeList = <<>>, !.connected[i] = TRUE]

setMode(v, i, m) ==
  IF m = "start" /\ ~CheckParam(v) THEN v ELSE [v EXCEPT !.mode[i] = m]

------------------------------------------------------------------------------
(* What the network and the server do.                                     *)
Restart == restarts < MaxRestart /\ restarts' = restarts + 1
Poll(i) == timers' = [timers EXCEPT ![i] = @ + 1]
UnderWay == u.out # <<>>

(* addInterface() and startInterface(); its result is not looked at.       *)
startInterface(i, opens) ==
  /\ Restart /\ i \notin attached /\ attached' = attached \cup {i}
  /\ \/ /\ ~CheckParam(u)
        /\ u' = setMode(CpCoreBitrate(connect(u, i), opens), i, "start")
        /\ Poll(i) /\ epoch' = epoch + 1
        /\ disturbed' = (disturbed \/ UnderWay \/ ~opens \/ ChannelOf[i] # 1)
     \/ /\ CheckParam(u) /\ opens
        /\ disturbed' = TRUE
        /\ UNCHANGED <<u, timers, epoch>>
  /\ UNCHANGED <<seen, partly>>

(* stopInterface() and removeInterface().                                  *)
stopInterface(i) ==
  /\ Restart /\ i \in attached /\ attached' = attached \ {i}
  /\ u' = LET v == setMode(u, i, "stop") IN IF u.connected[i] THEN disconnect(v, i) ELSE v
  /\ UNCHANGED <<timers, seen, epoch, partly, disturbed>>

reset(i, opens) ==
  /\ Restart /\ i \in attached /\ u.connected[i]
  /\ u' = setMode(CpCoreBitrate(connect(disconnect(u, i), i), opens), i, u.mode[i])
  /\ Poll(i) /\ epoch' = epoch + 1
  /\ disturbed' = (disturbed \/ UnderWay \/ ~opens)
  /\ UNCHANGED <<attached, seen, partly>>

(* QCanNetwork::setBitrate() stops the interface first and starts it then. *)
setBitrate(i, opens) ==
  /\ Restart /\ i \in attached
  /\ u' = setMode(CpCoreBitrate(setMode(u, i, "stop"), opens), i, "start")
  /\ disturbed' = (disturbed \/ UnderWay \/ ~opens)
  /\ UNCHANGED <<attached, timers, seen, epoch, partly>>

(* The dialog of the plug-in opens the port even if the driver is off; it  *)
(* is modelled from the first connection on.                               *)
configureDevice(i, opens) ==
  /\ Restart /\ i \in attached /\ u.usart # 0
  /\ u' = setConfig(u, opens)
  /\ disturbed' = (disturbed \/ UnderWay \/ ~opens)
  /\ UNCHANGED <<attached, timers, seen, epoch, partly>>

(* A full list answers eERROR_FIFO_TRM_FULL and changes nothing.           *)
write(i, f) ==
  /\ i \in attached /\ f \notin Elements(accepted) /\ Len(u.writeList) < ListMax
  /\ u' = transmitFrame([u EXCEPT !.writeList = Append(@, f)])
  /\ accepted' = Append(accepted, f)
  /\ disturbed' = (disturbed \/ ~u.connected[i])
  /\ UNCHANGED <<attached, timers, wire, arrived, delivered, epoch, partly, restarts>>

(* Signals of the serial port.  bytesWritten() comes when bytes have left, *)
(* the count it reports is not looked at.                                  *)
onBytesWritten(complete) ==
  /\ u.out # <<>> /\ (complete \/ ~partly)
  /\ partly' = (partly \/ ~complete)
  /\ wire' = IF complete THEN Append(wire, Head(u.out)) ELSE wire
  /\ u' = CpUsart1TrmHandler([u EXCEPT !.out = IF complete THEN Tail(@) ELSE @])
  /\ UNCHANGED <<attached, timers, accepted, arrived, delivered, epoch, disturbed, restarts>>

Arrive(fs) ==
  /\ u.open /\ Elements(fs) \cap Elements(Frames(arrived)) = {}
  /\ u' = onReadyRead([u EXCEPT !.in = @ \o fs])
  /\ arrived' = arrived \o [i \in DOMAIN fs |-> [frame |-> fs[i], epoch |-> epoch]]
  /\ UNCHANGED <<attached, timers, wire, accepted, delivered, epoch, partly, disturbed, restarts>>

(* With an empty list the timer is started again, nothing changes.  Else   *)
(* readyRead() makes the network read until the list is empty, and then    *)
(* read() has started the timer again.                                     *)
onTimerEvent(i) ==
  /\ timers[i] > 0 /\ u.readList # <<>>
  /\ \/ /\ i \in attached /\ u.connected[i]
        /\ delivered' = delivered \o
             [k \in DOMAIN u.readList |-> [frame |-> u.readList[k], epoch |-> epoch]]
        /\ u' = [u EXCEPT !.readList = <<>>]
        /\ UNCHANGED timers
     \/ /\ ~(i \in attached /\ u.connected[i])
        /\ timers' = [timers EXCEPT ![i] = @ - 1]
        /\ UNCHANGED <<u, delivered>>
  /\ UNCHANGED <<attached, wire, accepted, arrived, epoch, partly, disturbed, restarts>>

Incoming == Frame \ Outgoing
Pairs == {fs \in Incoming \X Incoming : fs[1] # fs[2]}
Singles == {<<f>> : f \in Incoming}

Next ==
  \/ \E i \in Interface :
       \/ \E opens \in BOOLEAN :
            startInterface(i, opens) \/ reset(i, opens) \/ setBitrate(i, opens)
              \/ configureDevice(i, opens)
       \/ stopInterface(i) \/ onTimerEvent(i)
       \/ \E f \in Outgoing : write(i, f)
  \/ \E complete \in BOOLEAN : onBytesWritten(complete)
  \/ \E fs \in Singles \cup Pairs : Arrive(fs)

(* The event loop runs expired timers; the serial line drains.             *)
Fairness == WF_vars(onBytesWritten(TRUE)) /\ \A i \in Interface : WF_vars(onTimerEvent(i))
Spec == Init /\ [][Next]_vars /\ Fairness

------------------------------------------------------------------------------
TypeOK ==
  /\ u.ubDrvInfo \in {"off", "init"} /\ u.ubPhyIf \in Channel /\ u.usart \in {0} \cup Channel
  /\ u.open \in BOOLEAN /\ u.pending \in BOOLEAN
  /\ u.in \in Seq(Incoming) /\ u.readList \in Seq(Incoming)
  /\ u.out \in Seq(Outgoing) /\ u.writeList \in Seq(Outgoing)
  /\ Len(u.writeList) <= ListMax
  /\ u.connected \in [Interface -> BOOLEAN] /\ u.mode \in [Interface -> {"stop", "start"}]
  /\ attached \subseteq Interface /\ timers \in [Interface -> Nat]
  /\ epoch \in Nat /\ restarts \in 0 .. MaxRestart

(* s holds frames of t in the order of t, each at most once.               *)
Position(f, t) == CHOOSE k \in DOMAIN t : t[k] = f
InOrder(s, t) ==
  /\ Elements(s) \subseteq Elements(t)
  /\ \A j, k \in DOMAIN s : j < k => Position(s[j], t) < Position(s[k], t)

(* Frames leave in the order write() accepted them, none twice, whatever   *)
(* is restarted and however the bytes are written (transmitFrame).         *)
SentInOrder == InOrder(wire \o u.out \o u.writeList, accepted)

(* The network reads frames in the order they arrived, none twice, with    *)
(* the lists, the port and the polling between (onReadyRead, read).        *)
ReadInOrder == InOrder(Frames(delivered) \o u.readList \o u.in, Frames(arrived))

(* No frame that arrived before a connection is read after it, also when   *)
(* it came after disconnect(), which leaves the serial port open.          *)
NothingOld == \A k \in DOMAIN delivered :
  delivered[k].epoch = arrived[Position(delivered[k].frame, Frames(arrived))].epoch

(* "so that no collisions occur": as long as bytesWritten() reports whole  *)
(* frames, the port never holds two, and clUartTrmBufG is the one it has.  *)
OneUnderWay == ~partly =>
  /\ Len(u.out) <= 1
  /\ u.out # <<>> => u.pending /\ u.clUartTrmBufG = Head(u.out)

(* The pending flag is only set while the serial port has something to     *)
(* write: else nothing would ever be sent again (transmitFrame).           *)
PendingMeansUnderWay == u.pending => UnderWay
NotStuck == disturbed \/ PendingMeansUnderWay

(* A connected interface of a network is polled (onTimerEvent, read).      *)
Polled == \A i \in attached : u.connected[i] => timers[i] > 0

(* An accepted frame does not wait for ever, nor does a received one.      *)
Answered ==
  /\ \A f \in Outgoing :
       f \in Elements(u.writeList \o u.out) ~> (f \notin Elements(u.writeList \o u.out) \/ disturbed)
  /\ \A f \in Incoming :
       f \in Elements(u.readList)
         ~> (f \notin Elements(u.readList) \/ \A i \in attached : ~u.connected[i])
==============================================================================
