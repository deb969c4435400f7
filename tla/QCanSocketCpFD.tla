--------------------------- MODULE QCanSocketCpFD ----------------------------
(***************************************************************************)
(* The CANpie FD driver on top of a QCan socket, one CAN port of it        *)
(* (device/qcan/qcan_socket_canpie_fd.cpp): message buffers with an        *)
(* acceptance filter, FIFOs attached to them, the receive callback and the *)
(* statistic counters, driven by the readyRead() signal of the socket.     *)
(*                                                                         *)
(* Everything runs in one thread.  What makes it hard is re-entrancy: the  *)
(* receive callback may call the API, and may let the event loop run,      *)
(* which starts onSocketReceive() again inside of itself.                  *)
(***************************************************************************)
EXTENDS Integers, Sequences, FiniteSets

CONSTANTS
  BufferMax,   \* CP_BUFFER_MAX
  ExtBits,     \* the identifier bits of CP_MASK_EXT_FRAME ...
  StdBits,     \* ... and those of CP_MASK_STD_FRAME among them
  Dlc,         \* the data length codes
  Frame,       \* the frames the network sends
  Setting,     \* parameters of CpCoreBufferConfig
  Fifo,        \* the FIFOs of the application
  NoFifo,      \* nullptr
  Capacity,    \* number of entries of a FIFO
  CounterMod,  \* 2^32, for the statistic counters
  MaxQueue,    \* bound: frames waiting in the socket
  MaxNesting,  \* bound: depth of nested calls of onSocketReceive()
  MaxSlots     \* bound: connections of onSocketReceive() to readyRead()

Identifiers == SUBSET ExtBits
Message == [id : Identifiers, ext : BOOLEAN, dlc : Dlc]

ASSUME BufferAssumption == BufferMax \in Nat \ {0}
ASSUME BitsAssumption == StdBits \subseteq ExtBits /\ 0 \in Dlc
ASSUME FrameAssumption ==
  Frame \subseteq [id : Identifiers, ext : BOOLEAN, dlc : Dlc, type : {"data", "error"}]
ASSUME SettingAssumption ==
  Setting \subseteq [id : Identifiers, mask : Identifiers, ext : BOOLEAN, dir : {"rcv", "trm"}]
ASSUME FifoAssumption == NoFifo \notin Fifo /\ Capacity \in Nat \ {0}
ASSUME BoundAssumption ==
  CounterMod \in Nat \ {0} /\ MaxQueue \in Nat /\ MaxNesting \in Nat /\ MaxSlots \in Nat

VARIABLES
  ubDrvInfo,       \* CpPort_ts: CpCoreDriverInit succeeded at least once
  ubCanErrState,   \* CpState_ts: "init" or "active"
  link,            \* the socket: "down", "connecting" or "up"
  slots,           \* how often onSocketReceive() is connected to readyRead()
  waiting,         \* CpCoreDriverInit waits for the connection
  clReceiveFifo,   \* frames in the receive FIFO of the socket
  atsCanMsg,       \* the message buffers: identifier, format, DLC
  ulMsgUser,       \* their direction flag: "none", "rcv" or "trm"
  atsAccMask,      \* their acceptance masks
  aptsCanFifo,     \* the FIFOs attached to them
  fifo,            \* content of every FIFO
  pfnRcvIntHandler,\* a receive callback is installed
  ulRcvMsgCount,
  ulTrmMsgCount,
  loops,           \* the running calls of onSocketReceive(), the innermost last
  inCallback,      \* the innermost one is inside of the receive callback
  filter,          \* history: identifier and format a buffer was last given
  allocated,       \* history: configured and not released
  delivered        \* history: frames accepted since the counters were cleared

port == <<ubDrvInfo, ubCanErrState, pfnRcvIntHandler>>
socket == <<link, slots, waiting>>
buffers == <<atsCanMsg, ulMsgUser, atsAccMask, aptsCanFifo, filter, allocated>>
counters == <<ulRcvMsgCount, ulTrmMsgCount, delivered>>
calls == <<loops, inCallback>>
vars == <<port, socket, clReceiveFifo, buffers, fifo, counters, calls>>

Buffer == 0 .. BufferMax - 1
Counter == 0 .. CounterMod - 1
Plus(n, k) == (n + k) % CounterMod

(***************************************************************************)
(* Identifiers are sets of bits, so that masking is intersection.          *)
(***************************************************************************)
Mask(ext) == IF ext THEN ExtBits ELSE StdBits
CpMsgGetIdentifier(m) == m.id \cap Mask(m.ext)

(* The type of the frame is not part of a CpCanMsg_ts.                     *)
fromCanFrame(f) == [id |-> f.id \cap Mask(f.ext), ext |-> f.ext, dlc |-> f.dlc]

(* Mutant: the format is not compared. *)
AcceptsAnyFormat(b, m) ==
  /\ ulMsgUser[b] = "rcv"
  /\ CpMsgGetIdentifier(atsCanMsg[b]) \cap atsAccMask[b]
       = CpMsgGetIdentifier(m) \cap atsAccMask[b]

Accepts(b, m) ==
  /\ ulMsgUser[b] = "rcv"
  /\ atsCanMsg[b].ext = m.ext
  /\ CpMsgGetIdentifier(atsCanMsg[b]) \cap atsAccMask[b]
       = CpMsgGetIdentifier(m) \cap atsAccMask[b]

(* The buffer with the lowest number wins. *)
First(b, m) == Accepts(b, m) /\ \A c \in Buffer : c < b => ~Accepts(c, m)

(* Mutant: room is made one frame late. *)
PushLate(q, m) == Append(IF Len(q) > Capacity THEN Tail(q) ELSE q, m)

(* CpFifoIsFull, CpFifoIncOut, CpFifoDataInPtr, CpFifoIncIn *)
Push(q, m) == Append(IF Len(q) = Capacity THEN Tail(q) ELSE q, m)

------------------------------------------------------------------------------
(* The static objects start out zeroed, the port structure is off.         *)
EmptyMessage == [id |-> {}, ext |-> FALSE, dlc |-> 0]

Init ==
  /\ ubDrvInfo = "off" /\ ubCanErrState = "init" /\ pfnRcvIntHandler = FALSE
  /\ link = "down" /\ slots = 0 /\ waiting = FALSE
  /\ clReceiveFifo = <<>>
  /\ atsCanMsg = [b \in Buffer |-> EmptyMessage]
  /\ ulMsgUser = [b \in Buffer |-> "none"]
  /\ atsAccMask = [b \in Buffer |-> {}]
  /\ aptsCanFifo = [b \in Buffer |-> NoFifo]
  /\ fifo = [q \in Fifo |-> <<>>]
  /\ ulRcvMsgCount = 0 /\ ulTrmMsgCount = 0
  /\ loops = <<>> /\ inCallback = FALSE
  /\ filter = [b \in Buffer |-> [id |-> {}, ext |-> FALSE]]
  /\ allocated = [b \in Buffer |-> FALSE]
  /\ delivered = 0

(* Calls of onSocketReceive() whose receive callback has not returned yet. *)
OpenCallbacks == IF loops = <<>> THEN 0
                 ELSE IF inCallback THEN Len(loops) ELSE Len(loops) - 1

(* The application runs outside of all handlers, or in the callback.       *)
AppRuns == inCallback \/ (loops = <<>> /\ ~waiting)

(* The event loop runs outside of all handlers, in CpCoreDriverInit, or    *)
(* because the callback called CpSocketProcessEvents.                      *)
EventsRun == loops = <<>> \/ inCallback

(* CheckParam: ubDrvInfo is not reset by CpCoreDriverRelease.              *)
Api == AppRuns /\ ubDrvInfo = "init"

------------------------------------------------------------------------------
(* CpCoreDriverInit, called outside of callbacks: connectNetwork, then     *)
(* events are processed until the socket is connected or 100 ms are over.  *)
CpCoreDriverInit ==
  /\ loops = <<>> /\ ~waiting
  /\ waiting' = TRUE
  /\ link' = IF link = "up" THEN link ELSE "connecting"
  /\ UNCHANGED <<port, slots, clReceiveFifo, buffers, fifo, counters, calls>>

(* The second half: the slot is connected once more, FIFOs are detached,   *)
(* counters are cleared; filters and callbacks stay as they are.           *)
DriverInitDone ==
  /\ waiting /\ loops = <<>> /\ link = "up" /\ slots < MaxSlots
  /\ waiting' = FALSE
  /\ slots' = slots + 1
  /\ aptsCanFifo' = [b \in Buffer |-> NoFifo]
  /\ ubDrvInfo' = "init" /\ ubCanErrState' = "init"
  /\ ulRcvMsgCount' = 0 /\ ulTrmMsgCount' = 0 /\ delivered' = 0
  /\ UNCHANGED <<pfnRcvIntHandler, link, clReceiveFifo, atsCanMsg, ulMsgUser,
                 atsAccMask, filter, allocated, fifo, calls>>

(* eCP_ERR_INIT_FAIL; the connection may still be established later on.    *)
DriverInitFail ==
  /\ waiting /\ loops = <<>> /\ link # "up"
  /\ waiting' = FALSE
  /\ UNCHANGED <<port, link, slots, clReceiveFifo, buffers, fifo, counters, calls>>

(* Frames already received stay in the socket, running loops go on.        *)
CpCoreDriverRelease ==
  /\ Api
  /\ ubCanErrState' = "init"
  /\ slots' = 0
  /\ link' = "down"
  /\ loops' = [i \in DOMAIN loops |-> [loops[i] EXCEPT !.again = 0]]
  /\ UNCHANGED <<ubDrvInfo, pfnRcvIntHandler, waiting, clReceiveFifo, buffers, fifo,
                 counters, inCallback>>

(* eCP_MODE_INIT, and the modes START and LISTEN_ONLY *)
CpCoreCanMode ==
  /\ Api
  /\ ubCanErrState' \in {"init", "active"}
  /\ UNCHANGED <<ubDrvInfo, pfnRcvIntHandler, socket, clReceiveFifo, buffers, fifo,
                 counters, calls>>

CpCoreIntFunctions ==
  /\ Api
  /\ pfnRcvIntHandler' \in BOOLEAN
  /\ UNCHANGED <<ubDrvInfo, ubCanErrState, socket, clReceiveFifo, buffers, fifo,
                 counters, calls>>

CpCoreStatisticClear ==
  /\ Api
  /\ ulRcvMsgCount' = 0 /\ ulTrmMsgCount' = 0
  /\ delivered' = Plus(0, OpenCallbacks)
  /\ UNCHANGED <<port, socket, clReceiveFifo, buffers, fifo, calls>>

------------------------------------------------------------------------------
(* Message buffers.                                                        *)
CpCoreBufferConfig(b, s) ==
  /\ Api
  /\ atsCanMsg' = [atsCanMsg EXCEPT ![b].id = s.id \cap Mask(s.ext), ![b].ext = s.ext]
  /\ ulMsgUser' = [ulMsgUser EXCEPT ![b] = s.dir]
  /\ atsAccMask' = [atsAccMask EXCEPT ![b] = s.mask \cap Mask(s.ext)]
  /\ filter' = [filter EXCEPT ![b] = [id |-> s.id \cap Mask(s.ext), ext |-> s.ext]]
  /\ allocated' = [allocated EXCEPT ![b] = TRUE]
  /\ UNCHANGED <<port, socket, clReceiveFifo, aptsCanFifo, fifo, counters, calls>>

(* Neither the direction flag nor the acceptance mask is cleared.          *)
CpCoreBufferRelease(b) ==
  /\ Api
  /\ atsCanMsg' = [atsCanMsg EXCEPT ![b] = EmptyMessage]
  /\ aptsCanFifo' = [aptsCanFifo EXCEPT ![b] = NoFifo]
  /\ filter' = [filter EXCEPT ![b] = [id |-> {}, ext |-> FALSE]]
  /\ allocated' = [allocated EXCEPT ![b] = FALSE]
  /\ UNCHANGED <<port, socket, clReceiveFifo, ulMsgUser, atsAccMask, fifo, counters, calls>>

CpCoreBufferSetDlc(b, dlc) ==
  /\ Api
  /\ atsCanMsg' = [atsCanMsg EXCEPT ![b].dlc = dlc]
  /\ UNCHANGED <<port, socket, clReceiveFifo, ulMsgUser, atsAccMask, aptsCanFifo, filter,
                 allocated, fifo, counters, calls>>

(* write() succeeds or fails with eCP_ERR_TRM_FULL, which changes nothing. *)
CpCoreBufferSend(b) ==
  /\ Api /\ link = "up"
  /\ ulTrmMsgCount' = Plus(ulTrmMsgCount, 1)
  /\ UNCHANGED <<port, socket, clReceiveFifo, buffers, fifo, ulRcvMsgCount, delivered, calls>>

------------------------------------------------------------------------------
(* FIFOs.                                                                  *)
CpCoreFifoConfig(b, q) ==
  /\ Api
  /\ aptsCanFifo' = [aptsCanFifo EXCEPT ![b] = q]
  /\ UNCHANGED <<port, socket, clReceiveFifo, atsCanMsg, ulMsgUser, atsAccMask, filter,
                 allocated, fifo, counters, calls>>

CpCoreFifoRelease(b) == CpCoreFifoConfig(b, NoFifo)

CpCoreFifoRead(b) ==
  /\ Api
  /\ aptsCanFifo[b] # NoFifo
  /\ fifo[aptsCanFifo[b]] # <<>>
  /\ fifo' = [fifo EXCEPT ![aptsCanFifo[b]] = Tail(@)]
  /\ UNCHANGED <<port, socket, clReceiveFifo, buffers, counters, calls>>

(* n frames were written before one failed or all were done; no FIFO is    *)
(* involved.                                                               *)
CpCoreFifoWrite(n) ==
  /\ Api /\ link = "up"
  /\ ulTrmMsgCount' = Plus(ulTrmMsgCount, n)
  /\ UNCHANGED <<port, socket, clReceiveFifo, buffers, fifo, ulRcvMsgCount, delivered, calls>>

------------------------------------------------------------------------------
(* Events of the socket.                                                   *)
Connected ==
  /\ EventsRun /\ link = "connecting"
  /\ link' = "up"
  /\ UNCHANGED <<port, slots, waiting, clReceiveFifo, buffers, fifo, counters, calls>>

Disconnected ==
  /\ EventsRun /\ link # "down"
  /\ link' = "down"
  /\ UNCHANGED <<port, slots, waiting, clReceiveFifo, buffers, fifo, counters, calls>>

(* Mutant: one frame is read for every readyRead(). *)
CallForOne(queue, again) == [left |-> 1, again |-> again]

(* A call of onSocketReceive() takes framesAvailable() as its bound; again *)
(* counts the further connections of the same slot it is called for.       *)
Call(queue, again) == [left |-> Len(queue), again |-> again]

(* Frames arrive together and are announced by one readyRead().            *)
ReadyRead(frames) ==
  /\ EventsRun /\ link = "up"
  /\ Len(clReceiveFifo) + Len(frames) <= MaxQueue
  /\ clReceiveFifo' = clReceiveFifo \o frames
  /\ \/ slots = 0 /\ UNCHANGED calls
     \/ /\ slots > 0 /\ Len(loops) < MaxNesting
        /\ loops' = Append(loops, Call(clReceiveFifo', slots - 1))
        /\ inCallback' = FALSE
  /\ UNCHANGED <<port, socket, buffers, fifo, counters>>

------------------------------------------------------------------------------
(* onSocketReceive().  Last is the innermost call.                         *)
Last == loops[Len(loops)]
Running == loops # <<>> /\ ~inCallback

(* Mutant: the frame counter of the loop is not incremented. *)
SameFrame == UNCHANGED loops

NextFrame == loops' = [loops EXCEPT ![Len(loops)].left = @ - 1]
Count == ulRcvMsgCount' = Plus(ulRcvMsgCount, 1)

(* read() finds nothing, or no buffer accepts the frame. *)
IgnoreFrame ==
  /\ Running /\ Last.left > 0
  /\ \/ clReceiveFifo = <<>> /\ UNCHANGED clReceiveFifo
     \/ /\ clReceiveFifo # <<>>
        /\ \A b \in Buffer : ~Accepts(b, fromCanFrame(Head(clReceiveFifo)))
        /\ clReceiveFifo' = Tail(clReceiveFifo)
  /\ NextFrame
  /\ UNCHANGED <<port, socket, buffers, fifo, counters, inCallback>>

(* handleCanFrame() for a frame that buffer b takes. *)
HandleFrame(b) ==
  /\ Running /\ Last.left > 0 /\ clReceiveFifo # <<>>
  /\ LET m == fromCanFrame(Head(clReceiveFifo)) IN
     /\ First(b, m)
     /\ atsCanMsg' = [atsCanMsg EXCEPT ![b] = m]
     /\ \/ /\ aptsCanFifo[b] = NoFifo /\ pfnRcvIntHandler
           /\ inCallback' = TRUE
           /\ UNCHANGED <<fifo, ulRcvMsgCount, loops>>
        \/ /\ aptsCanFifo[b] = NoFifo /\ ~pfnRcvIntHandler
           /\ Count /\ NextFrame
           /\ UNCHANGED <<fifo, inCallback>>
        \/ /\ aptsCanFifo[b] # NoFifo
           /\ fifo' = [fifo EXCEPT ![aptsCanFifo[b]] = Push(@, m)]
           /\ Count /\ NextFrame
           /\ UNCHANGED inCallback
  /\ clReceiveFifo' = Tail(clReceiveFifo)
  /\ delivered' = Plus(delivered, 1)
  /\ UNCHANGED <<port, socket, ulMsgUser, atsAccMask, aptsCanFifo, filter, allocated,
                 ulTrmMsgCount>>

(* Mutant: a frame passed to the callback is not counted. *)
ReturnUncounted ==
  /\ inCallback
  /\ inCallback' = FALSE
  /\ NextFrame
  /\ UNCHANGED <<port, socket, clReceiveFifo, buffers, fifo, counters>>

CallbackReturn ==
  /\ inCallback
  /\ inCallback' = FALSE
  /\ Count /\ NextFrame
  /\ UNCHANGED <<port, socket, clReceiveFifo, buffers, fifo, ulTrmMsgCount, delivered>>

(* The loop is done.  The slot is called again for its next connection, or *)
(* control returns to the callback from which events were processed.       *)
LoopDone ==
  /\ Running /\ Last.left = 0
  /\ \/ /\ Last.again > 0
        /\ loops' = [loops EXCEPT ![Len(loops)] = Call(clReceiveFifo, Last.again - 1)]
        /\ UNCHANGED inCallback
     \/ /\ Last.again = 0
        /\ loops' = SubSeq(loops, 1, Len(loops) - 1)
        /\ inCallback' = (Len(loops) > 1)
  /\ UNCHANGED <<port, socket, clReceiveFifo, buffers, fifo, counters>>

------------------------------------------------------------------------------
Driver == \/ CpCoreDriverInit \/ DriverInitDone \/ DriverInitFail \/ CpCoreDriverRelease
          \/ CpCoreCanMode \/ CpCoreIntFunctions \/ CpCoreStatisticClear

Access == \/ \E b \in Buffer, s \in Setting : CpCoreBufferConfig(b, s)
          \/ \E b \in Buffer : CpCoreBufferRelease(b)
          \/ \E b \in Buffer, dlc \in Dlc : CpCoreBufferSetDlc(b, dlc)
          \/ \E b \in Buffer : CpCoreBufferSend(b)
          \/ \E b \in Buffer, q \in Fifo \cup {NoFifo} : CpCoreFifoConfig(b, q)
          \/ \E b \in Buffer : CpCoreFifoRelease(b)
          \/ \E b \in Buffer : CpCoreFifoRead(b)
          \/ \E n \in 1 .. 2 : CpCoreFifoWrite(n)

Event == \/ Connected \/ Disconnected
         \/ \E f \in Frame : ReadyRead(<<f>>)
         \/ \E f, g \in Frame : ReadyRead(<<f, g>>)

Receive == \/ IgnoreFrame
           \/ \E b \in Buffer : HandleFrame(b)
           \/ CallbackReturn
           \/ LoopDone

Next == Driver \/ Access \/ Event \/ Receive

Spec == Init /\ [][Next]_vars

(* The code of onSocketReceive() keeps running, and every callback that    *)
(* processes events again and again returns in the end.                    *)
FairSpec == /\ Spec
            /\ WF_vars(Receive)
            /\ \A n \in 1 .. MaxNesting : SF_vars(CallbackReturn /\ Len(loops) = n)

------------------------------------------------------------------------------
(* Properties.                                                             *)

(* The types of the variables. *)
TypeOK ==
  /\ ubDrvInfo \in {"off", "init"} /\ ubCanErrState \in {"init", "active"}
  /\ link \in {"down", "connecting", "up"} /\ slots \in Nat /\ waiting \in BOOLEAN
  /\ clReceiveFifo \in Seq(Frame)
  /\ atsCanMsg \in [Buffer -> Message]
  /\ ulMsgUser \in [Buffer -> {"none", "rcv", "trm"}]
  /\ atsAccMask \in [Buffer -> Identifiers]
  /\ aptsCanFifo \in [Buffer -> Fifo \cup {NoFifo}]
  /\ fifo \in [Fifo -> Seq(Message)] /\ \A q \in Fifo : Len(fifo[q]) <= Capacity
  /\ pfnRcvIntHandler \in BOOLEAN
  /\ ulRcvMsgCount \in Counter /\ ulTrmMsgCount \in Counter /\ delivered \in Counter
  /\ loops \in Seq([left : Nat, again : Nat]) /\ inCallback \in BOOLEAN
  /\ filter \in [Buffer -> [id : Identifiers, ext : BOOLEAN]]
  /\ allocated \in [Buffer -> BOOLEAN]

(* Every frame a buffer takes overwrites the identifier and the format the *)
(* next frame is compared with; the set of frames the buffer accepts still *)
(* is the one it was configured for.                                       *)
AcceptanceStable ==
  \A b \in Buffer :
    /\ atsCanMsg[b].ext = filter[b].ext
    /\ CpMsgGetIdentifier(atsCanMsg[b]) \cap atsAccMask[b] = filter[b].id \cap atsAccMask[b]

(* A frame is counted when its callback returns, which may be after nested *)
(* calls counted theirs and after the counters were cleared: the count is  *)
(* still that of the accepted frames, less the callbacks under way.        *)
RcvCountExact == Plus(ulRcvMsgCount, OpenCallbacks) = delivered

(* The bound onSocketReceive() took before the callbacks ran is stale when *)
(* they processed events, yet it is never too small: the innermost call    *)
(* has at least as many turns left as there are frames, so that no frame   *)
(* stays behind in the socket when the calls have returned.                *)
NothingLeftBehind ==
  /\ inCallback => loops # <<>>
  /\ \A i \in 1 .. OpenCallbacks : loops[i].left > 0
  /\ loops # <<>> => Last.left >= Len(clReceiveFifo) + (IF inCallback THEN 1 ELSE 0)

(* Reception ends: the calls of onSocketReceive() that an event started    *)
(* have all returned some time later.                                      *)
ReceptionEnds == loops # <<>> ~> loops = <<>>

------------------------------------------------------------------------------
(* What documents and comments say of the driver (see README).             *)

(* cp_core.h: after CpCoreBufferRelease, reception is disabled on the      *)
(* buffer.                                                                 *)
ReleasedIsSilent == [][\A b \in Buffer : HandleFrame(b) => allocated[b]]_vars

(* qcan_frame.hpp: an error frame tells the error state; it carries no     *)
(* identifier, so that it is no frame for a message buffer.                *)
ErrorFramesAreNoMessages ==
  [][\A b \in Buffer : HandleFrame(b) => Head(clReceiveFifo).type = "data"]_vars
==============================================================================
