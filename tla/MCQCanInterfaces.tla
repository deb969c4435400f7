--------------------------- MODULE MCQCanInterfaces ---------------------------
(* The three plug-ins, each with its own networks: kind says which one a   *)
(* behaviour is about.  The variables of the others keep the value Idle.   *)
EXTENDS QCanInterfaceUsart, TLC

CONSTANTS
  i1, i2,       \* the interfaces of the USART plug-in
  Received,     \* the frames a PEAK or a VCI interface receives
  Remote,       \* the remote frames among them
  MaxPlug       \* bound of QCanInterfaceVci4

MCChannelOf == (i1 :> 1) @@ (i2 :> 2)

(* A frame is not one of the other results of the libraries.               *)
ASSUME ResultsAssumption ==
  Received \cap {"empty", "status", "buserror", "failure", "info"} = {}

VARIABLES kind, p, queue, taken, noise, failed, glitch,
          v, fifo, line, plugged, event, broken, plugs

peak == <<p, queue, noise, failed, glitch>>
vci == <<v, fifo, line, plugged, event, broken, plugs>>
usart == <<u, wire, accepted, arrived, epoch, partly, disturbed>>

P == INSTANCE QCanInterfacePeak WITH Frame <- Received
V == INSTANCE QCanInterfaceVci4 WITH Frame <- Received

Idle == 0
PeakIdle == p = Idle /\ queue = Idle /\ noise = Idle /\ failed = Idle /\ glitch = Idle
VciIdle ==
  /\ v = Idle /\ fifo = Idle /\ line = Idle /\ plugged = Idle
  /\ event = Idle /\ broken = Idle /\ plugs = Idle
UsartIdle ==
  /\ u = Idle /\ wire = Idle /\ accepted = Idle /\ arrived = Idle
  /\ epoch = Idle /\ partly = Idle /\ disturbed = Idle

MCInit ==
  \/ kind = "usart" /\ Init /\ PeakIdle /\ VciIdle /\ taken = Idle
  \/ kind = "peak" /\ P!Init /\ UsartIdle /\ VciIdle
  \/ kind = "vci4" /\ V!Init /\ UsartIdle /\ PeakIdle

MCNext ==
  /\ UNCHANGED kind
  /\ \/ kind = "usart" /\ Next /\ UNCHANGED <<peak, vci, taken>>
     \/ kind = "peak" /\ P!Next /\ UNCHANGED <<usart, vci>>
     \/ kind = "vci4" /\ V!Next /\ UNCHANGED <<usart, peak>>

MCvars == <<kind, usart, peak, vci, taken, attached, timers, delivered, restarts>>

(* The fairness of the three modules.                                      *)
Drains == kind = "usart" /\ onBytesWritten(TRUE) /\ UNCHANGED <<kind, peak, vci, taken>>
Expires ==
  \/ kind = "peak" /\ P!onTimerEvent /\ UNCHANGED <<kind, usart, vci>>
  \/ kind = "vci4" /\ V!Expire /\ UNCHANGED <<kind, usart, peak>>
ExpiresOf(i) == kind = "usart" /\ onTimerEvent(i) /\ UNCHANGED <<kind, peak, vci, taken>>

MCSpec ==
  /\ MCInit /\ [][MCNext]_MCvars
  /\ WF_MCvars(Drains) /\ WF_MCvars(Expires) /\ \A i \in Interface : WF_MCvars(ExpiresOf(i))

(* The types of whichever plug-in runs.                                    *)
TypesOK ==
  /\ kind = "usart" => TypeOK
  /\ kind = "peak" => P!TypeOK
  /\ kind = "vci4" => V!TypeOK

(* SentInOrder and ReadInOrder of QCanInterfaceUsart: one order each way,  *)
(* nothing twice.                                                          *)
UsartInOrder == kind = "usart" => SentInOrder /\ ReadInOrder

(* NothingOld of QCanInterfaceUsart: no frame from before a connection.    *)
UsartNothingOld == kind = "usart" => NothingOld

(* OneUnderWay of QCanInterfaceUsart: no collisions on the serial port.    *)
UsartOneUnderWay == kind = "usart" => OneUnderWay

(* NotStuck of QCanInterfaceUsart: the pending flag is not left behind.    *)
UsartNotStuck == kind = "usart" => NotStuck

(* The pending flag is set while a transmission is pending, and only then  *)
(* (qcan_interface_usart.hpp:70).                                          *)
UsartPendingMeansUnderWay == kind = "usart" => PendingMeansUnderWay

(* ReadExactly of QCanInterfacePeak and of QCanInterfaceVci4: the network  *)
(* reads what the library, or each of its channels, has handed out.        *)
ReadExactly ==
  /\ kind = "peak" => P!ReadExactly
  /\ kind = "vci4" => V!ReadExactly

(* LineIsUsed of QCanInterfaceVci4.                                        *)
VciLineIsUsed == kind = "vci4" => V!LineIsUsed

(* A connected interface of a network is polled, in each of the plug-ins   *)
(* (onTimerEvent, read, connect).                                          *)
InterfacesPolled ==
  /\ kind = "usart" => Polled
  /\ kind = "peak" => P!Polled
  /\ kind = "vci4" => V!Polled

------------------------------------------------------------------------------
(* Answered of QCanInterfaceUsart: no frame waits for ever in its lists.   *)
ToSend(f) == IF kind = "usart" THEN f \in Elements(u.writeList \o u.out) ELSE FALSE
ToRead(f) == IF kind = "usart" THEN f \in Elements(u.readList) ELSE FALSE
InUse == IF kind = "usart" THEN \E i \in attached : u.connected[i] ELSE FALSE
UsartAnswered ==
  /\ \A f \in Outgoing : ToSend(f) ~> (~ToSend(f) \/ disturbed)
  /\ \A f \in Incoming : ToRead(f) ~> (~ToRead(f) \/ ~InUse)

(* Emptied of QCanInterfacePeak: no frame is left in the driver library.   *)
Queued(f) ==
  IF kind = "peak"
  THEN f \in Elements(queue) /\ ~failed /\ attached /\ p.teConnectedP
  ELSE FALSE
PeakEmptied == \A f \in Received : Queued(f) ~> ~Queued(f)

(* Noticed of QCanInterfaceVci4: an unplugged device is detached, and no   *)
(* message waits for ever.                                                 *)
Unplugged == IF kind = "vci4" THEN V!Working /\ ~plugged ELSE FALSE
Waiting(f) == IF kind = "vci4" THEN V!Waits(f) ELSE FALSE
VciNoticed ==
  /\ Unplugged ~> ~Unplugged
  /\ \A f \in Received : Waiting(f) ~> ~Waiting(f)
===============================================================================
