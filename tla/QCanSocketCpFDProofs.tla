------------------------ MODULE QCanSocketCpFDProofs -------------------------
(***************************************************************************)
(* Theorems about the CANpie FD driver on top of a QCan socket, for every  *)
(* number of buffers, set of frames, depth of nesting and so on.           *)
(***************************************************************************)
EXTENDS QCanSocketCpFD, TLAPS

(* A call of onSocketReceive() starts only for a connected slot, and while *)
(* one runs nothing connects again: frames that arrive during a call are   *)
(* announced by a further call.                                            *)
LinkInv == loops # <<>> => /\ link # "connecting"
                           /\ slots = 0 => link = "down"

(* Types, the bounds of the calls and the link depend on each other.       *)
DriverInv == TypeOK /\ NothingLeftBehind /\ LinkInv

(* The counters stay in their range.                                       *)
LEMMA PlusType == ASSUME NEW n \in Nat, NEW k \in Nat PROVE Plus(n, k) \in Counter
BY BoundAssumption DEF Plus, Counter

(* A frame taken from the socket becomes a message of the API.             *)
LEMMA MessageType == ASSUME NEW f \in Frame PROVE fromCanFrame(f) \in Message
BY FrameAssumption DEF fromCanFrame, Message, Identifiers

(* Masked with the bits of its format, an identifier is one.               *)
LEMMA MaskType == ASSUME NEW i \in Identifiers, NEW x \in BOOLEAN
                  PROVE i \cap Mask(x) \in Identifiers
BY DEF Identifiers

(* A FIFO of the application takes one more message and keeps its size.    *)
LEMMA PushType ==
  ASSUME NEW q \in Seq(Message), Len(q) <= Capacity, NEW m \in Message
  PROVE Push(q, m) \in Seq(Message) /\ Len(Push(q, m)) <= Capacity
<1>1. Capacity \in Nat \ {0} BY FifoAssumption
<1>2. CASE Len(q) = Capacity
  <2>1. q # <<>> BY <1>1, <1>2
  <2>2. Tail(q) \in Seq(Message) /\ Len(Tail(q)) = Len(q) - 1 BY <2>1
  <2> QED BY <1>1, <1>2, <2>2 DEF Push
<1>3. CASE Len(q) # Capacity BY <1>1, <1>3 DEF Push
<1> QED BY <1>2, <1>3

(* Every running call of onSocketReceive() has a bound and a number of     *)
(* further connections.                                                    *)
LEMMA ElementType == ASSUME NEW S, NEW q \in Seq(S), NEW i \in 1 .. Len(q) PROVE q[i] \in S
OBVIOUS

(* The innermost one is one of them.                                       *)
LEMMA LastType ==
  ASSUME NEW S, NEW q \in Seq(S), q # <<>>
  PROVE Len(q) \in Nat /\ Len(q) > 0 /\ q[Len(q)] \in S
<1>1. Len(q) \in Nat /\ Len(q) # 0 OBVIOUS
<1>2. Len(q) \in 1 .. Len(q) BY <1>1
<1> QED BY <1>1, <1>2, ElementType

(* One more frame.                                                         *)
LEMMA CountType == ASSUME NEW n \in Counter PROVE Plus(n, 1) \in Counter
<1>1. n \in Nat BY BoundAssumption DEF Counter
<1> QED BY <1>1, PlusType

(* The initial state satisfies the invariant.                              *)
LEMMA InitInv == Init => DriverInv
<1> SUFFICES ASSUME Init PROVE DriverInv OBVIOUS
<1>1. TypeOK
  <2>1. EmptyMessage \in Message
    BY BitsAssumption DEF EmptyMessage, Message, Identifiers
  <2>2. atsCanMsg \in [Buffer -> Message] BY <2>1 DEF Init
  <2>3. aptsCanFifo \in [Buffer -> Fifo \cup {NoFifo}] BY DEF Init
  <2>4. fifo \in [Fifo -> Seq(Message)] /\ \A q \in Fifo : Len(fifo[q]) <= Capacity
    BY FifoAssumption DEF Init
  <2>5. ulRcvMsgCount \in Counter /\ ulTrmMsgCount \in Counter /\ delivered \in Counter
    BY BoundAssumption DEF Init, Counter
  <2>6. atsAccMask \in [Buffer -> Identifiers] BY DEF Init, Identifiers
  <2>7. filter \in [Buffer -> [id : Identifiers, ext : BOOLEAN]] BY DEF Init, Identifiers
  <2>8. clReceiveFifo \in Seq(Frame) /\ loops \in Seq([left : Nat, again : Nat])
    BY DEF Init
  <2>9. /\ ulMsgUser \in [Buffer -> {"none", "rcv", "trm"}]
        /\ allocated \in [Buffer -> BOOLEAN]
    BY DEF Init
  <2>10. /\ ubDrvInfo \in {"off", "init"} /\ ubCanErrState \in {"init", "active"}
         /\ link \in {"down", "connecting", "up"} /\ slots \in Nat /\ waiting \in BOOLEAN
         /\ pfnRcvIntHandler \in BOOLEAN /\ inCallback \in BOOLEAN
    BY DEF Init
  <2> QED BY <2>2, <2>3, <2>4, <2>5, <2>6, <2>7, <2>8, <2>9, <2>10 DEF TypeOK
<1>2. NothingLeftBehind BY DEF Init, NothingLeftBehind, OpenCallbacks
<1>3. LinkInv BY DEF Init, LinkInv
<1> QED BY <1>1, <1>2, <1>3 DEF DriverInv

(* Actions that leave the calls, the socket and its queue alone.           *)
LEMMA QuietStep ==
  ASSUME NothingLeftBehind, LinkInv, UNCHANGED <<socket, calls, clReceiveFifo>>
  PROVE NothingLeftBehind' /\ LinkInv'
BY DEF NothingLeftBehind, OpenCallbacks, Last, LinkInv, socket, calls

(* Initialisation, release, modes, callbacks and statistic.                *)
LEMMA DriverStep == DriverInv /\ Driver => DriverInv'
<1> SUFFICES ASSUME DriverInv, Driver PROVE DriverInv' OBVIOUS
<1> USE DEF DriverInv
<1>1. CASE CpCoreDriverInit
  <2>1. TypeOK' BY <1>1 DEF CpCoreDriverInit, TypeOK, port, buffers, counters, calls
  <2>2. NothingLeftBehind'
    BY <1>1 DEF CpCoreDriverInit, NothingLeftBehind, OpenCallbacks, calls
  <2>3. LinkInv' BY <1>1 DEF CpCoreDriverInit, LinkInv, calls
  <2> QED BY <2>1, <2>2, <2>3
<1>2. CASE DriverInitDone
  <2>1. 0 \in Counter BY BoundAssumption DEF Counter
  <2>2. slots' \in Nat /\ aptsCanFifo' \in [Buffer -> Fifo \cup {NoFifo}]
    BY <1>2 DEF DriverInitDone, TypeOK
  <2>5. ulRcvMsgCount' \in Counter /\ ulTrmMsgCount' \in Counter /\ delivered' \in Counter
    BY <1>2, <2>1 DEF DriverInitDone
  <2>6. TypeOK' BY <1>2, <2>2, <2>5 DEF DriverInitDone, TypeOK, calls
  <2>3. NothingLeftBehind' BY <1>2 DEF DriverInitDone, NothingLeftBehind, OpenCallbacks, calls
  <2>4. LinkInv' BY <1>2 DEF DriverInitDone, LinkInv, calls
  <2> QED BY <2>3, <2>4, <2>6
<1>3. CASE DriverInitFail
  <2>1. TypeOK' BY <1>3 DEF DriverInitFail, TypeOK, port, buffers, counters, calls
  <2>2. NothingLeftBehind' BY <1>3 DEF DriverInitFail, NothingLeftBehind, OpenCallbacks, calls
  <2>3. LinkInv' BY <1>3 DEF DriverInitFail, LinkInv, calls
  <2> QED BY <2>1, <2>2, <2>3
<1>4. CASE CpCoreDriverRelease
  <2> DEFINE T == [left : Nat, again : Nat]
             f == [i \in 1 .. Len(loops) |-> [loops[i] EXCEPT !.again = 0]]
  <2>5. loops \in Seq(T) /\ Len(loops) \in Nat /\ DOMAIN loops = 1 .. Len(loops)
    BY DEF TypeOK
  <2>6. loops' = f BY <1>4, <2>5 DEF CpCoreDriverRelease
  <2>7. ASSUME NEW i \in 1 .. Len(loops)
        PROVE [loops[i] EXCEPT !.again = 0] \in T
              /\ [loops[i] EXCEPT !.again = 0].left = loops[i].left
    <3> HIDE DEF T
    <3>1. loops[i] \in T BY <2>5, ElementType
    <3> QED BY <3>1 DEF T
  <2>8. f \in Seq(T) /\ Len(f) = Len(loops)
    <3> HIDE DEF T
    <3> QED BY <2>5, <2>7
  <2>1. /\ loops' \in Seq([left : Nat, again : Nat]) /\ Len(loops') = Len(loops)
        /\ \A i \in 1 .. Len(loops) : loops'[i].left = loops[i].left
        /\ loops' = <<>> <=> loops = <<>>
    <3>1. loops' \in Seq(T) /\ Len(loops') = Len(loops) BY <2>6, <2>8
    <3>2. ASSUME NEW i \in 1 .. Len(loops) PROVE loops'[i].left = loops[i].left
      BY <2>6, <2>7
    <3>3. loops' = <<>> <=> loops = <<>>
      <4> HIDE DEF T
      <4>1. loops' = <<>> <=> Len(loops') = 0 BY <3>1
      <4>2. loops = <<>> <=> Len(loops) = 0 BY <2>5
      <4> QED BY <3>1, <4>1, <4>2
    <3> QED BY <3>1, <3>2, <3>3
  <2>2. TypeOK' BY <1>4, <2>1 DEF CpCoreDriverRelease, TypeOK, buffers, counters
  <2>3. NothingLeftBehind'
    BY <1>4, <2>1, SMTT(30) DEF CpCoreDriverRelease, NothingLeftBehind, OpenCallbacks, Last, TypeOK
  <2>4. LinkInv' BY <1>4 DEF CpCoreDriverRelease, LinkInv
  <2> QED BY <2>2, <2>3, <2>4
<1>5. CASE CpCoreCanMode
  <2>1. TypeOK' BY <1>5 DEF CpCoreCanMode, TypeOK, socket, buffers, counters, calls
  <2> QED BY <1>5, <2>1, QuietStep DEF CpCoreCanMode
<1>6. CASE CpCoreIntFunctions
  <2>1. TypeOK' BY <1>6 DEF CpCoreIntFunctions, TypeOK, socket, buffers, counters, calls
  <2> QED BY <1>6, <2>1, QuietStep DEF CpCoreIntFunctions
<1>7. CASE CpCoreStatisticClear
  <2>1. OpenCallbacks \in Nat BY DEF OpenCallbacks, TypeOK
  <2>2. 0 \in Counter /\ Plus(0, OpenCallbacks) \in Counter
    BY <2>1, PlusType, BoundAssumption DEF Counter
  <2>3. TypeOK' BY <1>7, <2>2 DEF CpCoreStatisticClear, TypeOK, port, socket, buffers, calls
  <2> QED BY <1>7, <2>3, QuietStep DEF CpCoreStatisticClear
<1> QED BY <1>1, <1>2, <1>3, <1>4, <1>5, <1>6, <1>7 DEF Driver

(* The functions for buffers and FIFOs.                                    *)
LEMMA AccessStep == DriverInv /\ Access => DriverInv'
<1> SUFFICES ASSUME DriverInv, Access PROVE DriverInv' OBVIOUS
<1> USE DEF DriverInv
<1>1. ASSUME NEW b \in Buffer, NEW s \in Setting, CpCoreBufferConfig(b, s) PROVE DriverInv'
  <2>1. /\ s.ext \in BOOLEAN /\ s.dir \in {"rcv", "trm"}
        /\ s.id \cap Mask(s.ext) \in Identifiers /\ s.mask \cap Mask(s.ext) \in Identifiers
    BY SettingAssumption DEF Identifiers
  <2> DEFINE m == [atsCanMsg[b] EXCEPT !.id = s.id \cap Mask(s.ext), !.ext = s.ext]
  <2>5. atsCanMsg \in [Buffer -> Message] /\ atsCanMsg[b] \in Message BY DEF TypeOK
  <2>6. m \in Message BY <2>1, <2>5 DEF Message
  <2>7. atsCanMsg' = [atsCanMsg EXCEPT ![b] = m] BY <1>1, <2>5 DEF CpCoreBufferConfig, Message
  <2>2. atsCanMsg' \in [Buffer -> Message] BY <2>5, <2>6, <2>7
  <2>3. filter' \in [Buffer -> [id : Identifiers, ext : BOOLEAN]]
    BY <1>1, <2>1 DEF CpCoreBufferConfig, TypeOK
  <2>4. TypeOK'
    BY <1>1, <2>1, <2>2, <2>3 DEF CpCoreBufferConfig, TypeOK, port, socket, counters, calls
  <2> QED BY <1>1, <2>4, QuietStep DEF CpCoreBufferConfig
<1>2. ASSUME NEW b \in Buffer, CpCoreBufferRelease(b) PROVE DriverInv'
  <2>1. EmptyMessage \in Message /\ [id |-> {}, ext |-> FALSE] \in [id : Identifiers, ext : BOOLEAN]
    BY BitsAssumption DEF EmptyMessage, Message, Identifiers
  <2>2. TypeOK'
    BY <1>2, <2>1 DEF CpCoreBufferRelease, TypeOK, port, socket, counters, calls
  <2> QED BY <1>2, <2>2, QuietStep DEF CpCoreBufferRelease
<1>3. ASSUME NEW b \in Buffer, NEW dlc \in Dlc, CpCoreBufferSetDlc(b, dlc) PROVE DriverInv'
  <2>1. atsCanMsg' \in [Buffer -> Message] BY <1>3, ZenonT(40) DEF CpCoreBufferSetDlc, TypeOK, Message
  <2>2. TypeOK' BY <1>3, <2>1 DEF CpCoreBufferSetDlc, TypeOK, port, socket, counters, calls
  <2> QED BY <1>3, <2>2, QuietStep DEF CpCoreBufferSetDlc
<1>4. ASSUME NEW b \in Buffer, CpCoreBufferSend(b) PROVE DriverInv'
  <2>1. ulTrmMsgCount' \in Counter
    BY <1>4, PlusType DEF CpCoreBufferSend, TypeOK, Counter
  <2>2. TypeOK' BY <1>4, <2>1 DEF CpCoreBufferSend, TypeOK, port, socket, buffers, calls
  <2> QED BY <1>4, <2>2, QuietStep DEF CpCoreBufferSend
<1>5. ASSUME NEW b \in Buffer, NEW q \in Fifo \cup {NoFifo}, CpCoreFifoConfig(b, q)
      PROVE DriverInv'
  <2>1. TypeOK' BY <1>5 DEF CpCoreFifoConfig, TypeOK, port, socket, counters, calls
  <2> QED BY <1>5, <2>1, QuietStep DEF CpCoreFifoConfig
<1>6. ASSUME NEW b \in Buffer, CpCoreFifoRelease(b) PROVE DriverInv'
  BY <1>5, <1>6 DEF CpCoreFifoRelease
<1>7. ASSUME NEW b \in Buffer, CpCoreFifoRead(b) PROVE DriverInv'
  <2> DEFINE q == aptsCanFifo[b]
  <2>1. q \in Fifo /\ fifo[q] \in Seq(Message) /\ Len(fifo[q]) <= Capacity /\ fifo[q] # <<>>
    BY <1>7 DEF CpCoreFifoRead, TypeOK
  <2>2. Tail(fifo[q]) \in Seq(Message) /\ Len(Tail(fifo[q])) <= Capacity
    BY <2>1, FifoAssumption
  <2>3. fifo' \in [Fifo -> Seq(Message)] /\ \A p \in Fifo : Len(fifo'[p]) <= Capacity
    BY <1>7, <2>1, <2>2 DEF CpCoreFifoRead, TypeOK
  <2>4. TypeOK' BY <1>7, <2>3 DEF CpCoreFifoRead, TypeOK, port, socket, buffers, counters, calls
  <2> QED BY <1>7, <2>4, QuietStep DEF CpCoreFifoRead
<1>8. ASSUME NEW n \in 1 .. 2, CpCoreFifoWrite(n) PROVE DriverInv'
  <2>1. ulTrmMsgCount' \in Counter
    <3>1. n \in Nat /\ ulTrmMsgCount \in Nat BY BoundAssumption DEF TypeOK, Counter
    <3> QED BY <1>8, <3>1, PlusType DEF CpCoreFifoWrite
  <2>2. TypeOK' BY <1>8, <2>1 DEF CpCoreFifoWrite, TypeOK, port, socket, buffers, calls
  <2> QED BY <1>8, <2>2, QuietStep DEF CpCoreFifoWrite
<1> QED BY <1>1, <1>2, <1>3, <1>4, <1>5, <1>6, <1>7, <1>8 DEF Access

(* Connections end, frames arrive: a new call has room for all of them.    *)
LEMMA EventStep == DriverInv /\ Event => DriverInv'
<1> SUFFICES ASSUME DriverInv, Event PROVE DriverInv' OBVIOUS
<1> USE DEF DriverInv
<1>1. CASE Connected
  <2>1. TypeOK' BY <1>1 DEF Connected, TypeOK, port, buffers, counters, calls
  <2>2. NothingLeftBehind'
    BY <1>1 DEF Connected, NothingLeftBehind, OpenCallbacks, Last, calls
  <2>3. LinkInv' BY <1>1 DEF Connected, LinkInv, calls
  <2> QED BY <2>1, <2>2, <2>3
<1>2. CASE Disconnected
  <2>1. TypeOK' BY <1>2 DEF Disconnected, TypeOK, port, buffers, counters, calls
  <2>2. NothingLeftBehind'
    BY <1>2 DEF Disconnected, NothingLeftBehind, OpenCallbacks, Last, calls
  <2>3. LinkInv' BY <1>2 DEF Disconnected, LinkInv, calls
  <2> QED BY <2>1, <2>2, <2>3
<1>3. ASSUME NEW fs \in Seq(Frame), ReadyRead(fs) PROVE DriverInv'
  <2>1. clReceiveFifo' \in Seq(Frame) BY <1>3 DEF ReadyRead, TypeOK
  <2>2. CASE slots = 0
    <3>1. UNCHANGED <<loops, inCallback, link, slots>> BY <1>3, <2>2 DEF ReadyRead, calls, socket
    <3>2. loops = <<>> BY <1>3, <2>2 DEF ReadyRead, LinkInv
    <3>3. TypeOK' BY <1>3, <2>1, <3>1 DEF ReadyRead, TypeOK, port, socket, buffers, counters
    <3>4. NothingLeftBehind' BY <3>1, <3>2 DEF NothingLeftBehind, OpenCallbacks
    <3>5. LinkInv' BY <3>1 DEF LinkInv
    <3> QED BY <3>3, <3>4, <3>5
  <2>3. CASE slots > 0
    <3> DEFINE c == Call(clReceiveFifo', slots - 1)
    <3>1. c \in [left : Nat, again : Nat] /\ c.left = Len(clReceiveFifo')
      BY <2>1, <2>3 DEF Call, TypeOK
    <3>2. loops' = Append(loops, c) /\ inCallback' = FALSE BY <1>3, <2>3 DEF ReadyRead, TypeOK
    <3> HIDE DEF c
    <3>3. /\ loops' \in Seq([left : Nat, again : Nat]) /\ Len(loops') = Len(loops) + 1
          /\ loops'[Len(loops')] = c /\ \A i \in 1 .. Len(loops) : loops'[i] = loops[i]
          /\ loops' # <<>>
      <4>1. loops \in Seq([left : Nat, again : Nat]) BY DEF TypeOK
      <4>2. loops' \in Seq([left : Nat, again : Nat]) /\ Len(loops') = Len(loops) + 1
        BY <3>1, <3>2, <4>1
      <4>3. \A i \in 1 .. Len(loops) : loops'[i] = loops[i] BY <3>2, <4>1
      <4>4. loops'[Len(loops) + 1] = c BY <3>2, <4>1
      <4>5. loops' # <<>> BY <4>1, <4>2
      <4> QED BY <4>2, <4>3, <4>4, <4>5
    <3>4. TypeOK' BY <1>3, <2>1, <3>2, <3>3 DEF ReadyRead, TypeOK, port, socket, buffers, counters
    <3>5. OpenCallbacks' = Len(loops) BY <3>2, <3>3 DEF OpenCallbacks, TypeOK
    <3>6. OpenCallbacks = Len(loops) BY <1>3 DEF ReadyRead, EventsRun, OpenCallbacks, TypeOK
    <3>7. NothingLeftBehind'
      BY <2>1, <3>1, <3>2, <3>3, <3>5, <3>6 DEF NothingLeftBehind, Last, TypeOK
    <3>8. LinkInv' BY <1>3, <2>3 DEF ReadyRead, LinkInv, socket
    <3> QED BY <3>4, <3>7, <3>8
  <2> QED BY <2>2, <2>3 DEF TypeOK
<1>4. ASSUME NEW f \in Frame, NEW g \in Frame
      PROVE <<f>> \in Seq(Frame) /\ <<f, g>> \in Seq(Frame)
  OBVIOUS
<1> QED BY <1>1, <1>2, <1>3, <1>4 DEF Event

(* The frame counter of the innermost call moves on, that of no other one. *)
LEMMA NextFrameStep ==
  ASSUME TypeOK, loops # <<>>, Last.left > 0, NextFrame
  PROVE /\ loops' \in Seq([left : Nat, again : Nat]) /\ Len(loops') = Len(loops)
        /\ loops' # <<>> /\ Last'.left = Last.left - 1
        /\ \A i \in 1 .. Len(loops) - 1 : loops'[i].left = loops[i].left
<1> DEFINE T == [left : Nat, again : Nat]
           r == [Last EXCEPT !.left = @ - 1]
<1>1. loops \in Seq(T) /\ Len(loops) \in Nat \ {0} BY LastType DEF TypeOK
<1>2. Last \in T BY <1>1, LastType DEF Last
<1>3. r \in T /\ r.left = Last.left - 1 BY <1>2
<1>4. loops' = [loops EXCEPT ![Len(loops)] = r] BY <1>1 DEF NextFrame, Last
<1> HIDE DEF T, r
<1>5. loops' \in Seq(T) /\ Len(loops') = Len(loops) BY <1>1, <1>3, <1>4
<1>6. loops'[Len(loops)] = r /\ \A i \in 1 .. Len(loops) - 1 : loops'[i] = loops[i]
  BY <1>1, <1>4
<1>7. Last' = r BY <1>5, <1>6 DEF Last
<1> QED BY <1>1, <1>3, <1>5, <1>6, <1>7 DEF T

(* The receive callback is called, or the frame is counted: the innermost  *)
(* call goes on, and has a turn less to go for a frame less in the socket. *)
LEMMA GoOn ==
  ASSUME DriverInv, loops # <<>>, Last.left > 0, NextFrame, UNCHANGED socket,
         inCallback' = FALSE, clReceiveFifo' \in Seq(Frame),
         Len(clReceiveFifo') < Last.left
  PROVE NothingLeftBehind' /\ LinkInv'
<1> USE DEF DriverInv
<1>1. /\ loops' \in Seq([left : Nat, again : Nat]) /\ Len(loops') = Len(loops)
      /\ loops' # <<>> /\ Last'.left = Last.left - 1
      /\ \A i \in 1 .. Len(loops) - 1 : loops'[i].left = loops[i].left
  BY NextFrameStep
<1>2. loops \in Seq([left : Nat, again : Nat]) /\ Len(loops) \in Nat \ {0}
  BY LastType DEF TypeOK
<1>3. Last.left \in Nat
  <2>1. Last \in [left : Nat, again : Nat] BY <1>2, LastType DEF Last
  <2> QED BY <2>1
<1>4. OpenCallbacks' = Len(loops) - 1 BY <1>1 DEF OpenCallbacks
<1>5. \A i \in 1 .. Len(loops) - 1 : loops[i].left > 0
  BY <1>2 DEF NothingLeftBehind, OpenCallbacks
<1>6. NothingLeftBehind'
  <2>1. Len(clReceiveFifo') \in Nat OBVIOUS
  <2>2. Last'.left >= Len(clReceiveFifo') BY <1>1, <1>3, <2>1
  <2>3. \A i \in 1 .. OpenCallbacks' : loops'[i].left > 0 BY <1>1, <1>4, <1>5
  <2>4. Last'.left >= Len(clReceiveFifo') + 0 BY <2>1, <2>2
  <2> QED BY <1>1, <2>3, <2>4 DEF NothingLeftBehind
<1>7. LinkInv' BY DEF LinkInv, socket
<1> QED BY <1>6, <1>7

(* onSocketReceive().                                                      *)
LEMMA ReceiveStep == DriverInv /\ Receive => DriverInv'
<1> SUFFICES ASSUME DriverInv, Receive PROVE DriverInv' OBVIOUS
<1> USE DEF DriverInv
<1>0. /\ loops \in Seq([left : Nat, again : Nat]) /\ Len(loops) \in Nat
      /\ clReceiveFifo \in Seq(Frame) /\ Len(clReceiveFifo) \in Nat
      /\ loops # <<>> => Len(loops) > 0 /\ Last \in [left : Nat, again : Nat]
  <2> DEFINE T == [left : Nat, again : Nat]
  <2>1. loops \in Seq(T) /\ clReceiveFifo \in Seq(Frame) BY DEF TypeOK
  <2> HIDE DEF T
  <2>2. Len(loops) \in Nat /\ Len(clReceiveFifo) \in Nat BY <2>1
  <2>3. loops # <<>> => Len(loops) > 0 /\ Last \in T BY <2>1, LastType DEF Last
  <2> QED BY <2>1, <2>2, <2>3 DEF T
<1>1. CASE IgnoreFrame
  <2>1. /\ loops # <<>> /\ ~inCallback /\ Last.left > 0 /\ NextFrame /\ inCallback' = FALSE
        /\ UNCHANGED <<port, socket, buffers, fifo, counters>>
    BY <1>1 DEF IgnoreFrame, Running
  <2>2. /\ clReceiveFifo' \in Seq(Frame)
        /\ Len(clReceiveFifo') = 0 \/ Len(clReceiveFifo') = Len(clReceiveFifo) - 1
    <3>1. CASE clReceiveFifo = <<>> /\ UNCHANGED clReceiveFifo BY <1>0, <3>1
    <3>2. CASE clReceiveFifo # <<>> /\ clReceiveFifo' = Tail(clReceiveFifo) BY <1>0, <3>2
    <3> QED BY <1>1, <3>1, <3>2 DEF IgnoreFrame
  <2>3. Len(clReceiveFifo') < Last.left
    BY <1>0, <2>1, <2>2 DEF NothingLeftBehind
  <2>4. TypeOK'
    BY <2>1, <2>2, NextFrameStep DEF TypeOK, port, socket, buffers, counters
  <2> QED BY <2>1, <2>2, <2>3, <2>4, GoOn
<1>2. ASSUME NEW b \in Buffer, HandleFrame(b) PROVE DriverInv'
  <2> DEFINE m == fromCanFrame(Head(clReceiveFifo))
  <2>1. /\ loops # <<>> /\ ~inCallback /\ Last.left > 0 /\ clReceiveFifo # <<>>
        /\ clReceiveFifo' = Tail(clReceiveFifo)
        /\ atsCanMsg' = [atsCanMsg EXCEPT ![b] = m] /\ delivered' = Plus(delivered, 1)
        /\ UNCHANGED <<port, socket, ulMsgUser, atsAccMask, aptsCanFifo, filter, allocated,
                       ulTrmMsgCount>>
    BY <1>2 DEF HandleFrame, Running
  <2>2. clReceiveFifo' \in Seq(Frame) /\ Len(clReceiveFifo') = Len(clReceiveFifo) - 1
    BY <1>0, <2>1
  <2>3. Len(clReceiveFifo') < Last.left BY <1>0, <2>1, <2>2 DEF NothingLeftBehind
  <2>4. m \in Message
    <3>1. Head(clReceiveFifo) \in Frame BY <1>0, <2>1
    <3> QED BY <3>1, MessageType
  <2> HIDE DEF m
  <2>5. atsCanMsg' \in [Buffer -> Message] BY <2>1, <2>4 DEF TypeOK
  <2>6. delivered' \in Counter /\ Plus(ulRcvMsgCount, 1) \in Counter
    BY <2>1, CountType DEF TypeOK
  <2>7. CASE inCallback' = TRUE /\ UNCHANGED <<fifo, ulRcvMsgCount, loops>>
    <3>1. TypeOK'
      BY <2>1, <2>2, <2>5, <2>6, <2>7 DEF TypeOK, port, socket
    <3>2. OpenCallbacks = Len(loops) - 1 /\ OpenCallbacks' = Len(loops)
      BY <2>1, <2>7 DEF OpenCallbacks
    <3>3. \A i \in 1 .. Len(loops) : loops[i].left > 0
      BY <1>0, <2>1, <3>2 DEF NothingLeftBehind, Last
    <3>4. NothingLeftBehind'
      BY <1>0, <2>1, <2>2, <2>3, <2>7, <3>2, <3>3 DEF NothingLeftBehind, Last
    <3>5. LinkInv' BY <2>1, <2>7 DEF LinkInv, socket
    <3> QED BY <3>1, <3>4, <3>5
  <2>8. CASE UNCHANGED <<fifo, inCallback>> /\ Count /\ NextFrame
    <3>1. TypeOK'
      BY <2>1, <2>2, <2>5, <2>6, <2>8, NextFrameStep DEF TypeOK, Count, port, socket
    <3>2. inCallback' = FALSE /\ UNCHANGED socket BY <2>1, <2>8 DEF TypeOK
    <3> QED BY <2>1, <2>2, <2>3, <2>8, <3>1, <3>2, GoOn
  <2>9. CASE /\ aptsCanFifo[b] # NoFifo
             /\ fifo' = [fifo EXCEPT ![aptsCanFifo[b]] = Push(@, m)]
             /\ Count /\ NextFrame /\ UNCHANGED inCallback
    <3>1. aptsCanFifo[b] \in Fifo BY <2>9 DEF TypeOK
    <3>2. /\ Push(fifo[aptsCanFifo[b]], m) \in Seq(Message)
          /\ Len(Push(fifo[aptsCanFifo[b]], m)) <= Capacity
      BY <2>4, <3>1, PushType DEF TypeOK
    <3>3. fifo' \in [Fifo -> Seq(Message)] /\ \A q \in Fifo : Len(fifo'[q]) <= Capacity
      BY <2>9, <3>1, <3>2 DEF TypeOK
    <3>4. TypeOK'
      BY <2>1, <2>2, <2>5, <2>6, <2>9, <3>3, NextFrameStep DEF TypeOK, Count, port, socket
    <3>5. inCallback' = FALSE /\ UNCHANGED socket BY <2>1, <2>9 DEF TypeOK
    <3> QED BY <2>1, <2>2, <2>3, <2>9, <3>4, <3>5, GoOn
  <2> QED BY <1>2, <2>7, <2>8, <2>9 DEF HandleFrame, m
<1>3. CASE CallbackReturn
  <2>1. /\ inCallback /\ inCallback' = FALSE /\ Count /\ NextFrame
        /\ UNCHANGED <<port, socket, clReceiveFifo, buffers, fifo, ulTrmMsgCount, delivered>>
    BY <1>3 DEF CallbackReturn
  <2>2. loops # <<>> /\ Last.left > Len(clReceiveFifo) /\ Last.left > 0
    BY <1>0, <2>1 DEF NothingLeftBehind
  <2>3. Plus(ulRcvMsgCount, 1) \in Counter
    BY CountType DEF TypeOK
  <2>4. TypeOK'
    BY <2>1, <2>2, <2>3, NextFrameStep DEF TypeOK, Count, port, socket, buffers
  <2>5. clReceiveFifo' \in Seq(Frame) /\ Len(clReceiveFifo') < Last.left
    BY <1>0, <2>1, <2>2
  <2> QED BY <2>1, <2>2, <2>4, <2>5, GoOn
<1>4. CASE LoopDone
  <2>1. /\ loops # <<>> /\ ~inCallback /\ Last.left = 0
        /\ UNCHANGED <<port, socket, clReceiveFifo, buffers, fifo, counters>>
    BY <1>4 DEF LoopDone, Running
  <2>2. Len(clReceiveFifo) = 0 BY <1>0, <2>1 DEF NothingLeftBehind
  <2>3. OpenCallbacks = Len(loops) - 1 BY <2>1 DEF OpenCallbacks
  <2>4. \A i \in 1 .. Len(loops) - 1 : loops[i].left > 0
    BY <2>3 DEF NothingLeftBehind
  <2>5. CASE /\ Last.again > 0 /\ UNCHANGED inCallback
             /\ loops' = [loops EXCEPT ![Len(loops)] = Call(clReceiveFifo, Last.again - 1)]
    <3> DEFINE c == Call(clReceiveFifo, Last.again - 1)
    <3>1. c \in [left : Nat, again : Nat] /\ c.left = Len(clReceiveFifo)
      BY <1>0, <2>1, <2>5 DEF Call
    <3> HIDE DEF c
    <3>2. loops' = [loops EXCEPT ![Len(loops)] = c] BY <2>5 DEF c
    <3>3. loops' \in Seq([left : Nat, again : Nat]) /\ Len(loops') = Len(loops)
      <4> DEFINE T == [left : Nat, again : Nat]
      <4>1. loops \in Seq(T) /\ c \in T BY <1>0, <3>1
      <4> HIDE DEF T
      <4>3. Len(loops) \in Nat \ {0} BY <1>0, <2>1
      <4>2. loops' \in Seq(T) /\ Len(loops') = Len(loops) BY <3>2, <4>1, <4>3
      <4> QED BY <4>2 DEF T
    <3>4. loops'[Len(loops)] = c /\ \A i \in 1 .. Len(loops) - 1 : loops'[i] = loops[i]
      BY <1>0, <2>1, <3>2
    <3>5. TypeOK' BY <2>1, <2>5, <3>3 DEF TypeOK, port, socket, buffers, counters
    <3>6. loops' # <<>> BY <1>0, <2>1, <3>3
    <3>7. OpenCallbacks' = Len(loops) - 1 BY <2>1, <2>5, <3>3, <3>6 DEF OpenCallbacks
    <3>8. NothingLeftBehind'
      BY <1>0, <2>1, <2>4, <2>5, <3>1, <3>3, <3>4, <3>6, <3>7, SMTT(30)
      DEF NothingLeftBehind, Last
    <3>9. LinkInv' BY <2>1 DEF LinkInv, socket
    <3> QED BY <3>5, <3>8, <3>9
  <2>6. CASE /\ loops' = SubSeq(loops, 1, Len(loops) - 1)
             /\ inCallback' = (Len(loops) > 1)
    <3>1. /\ loops' \in Seq([left : Nat, again : Nat]) /\ Len(loops') = Len(loops) - 1
          /\ \A i \in 1 .. Len(loops) - 1 : loops'[i] = loops[i]
      <4> DEFINE T == [left : Nat, again : Nat]
                 n == Len(loops) - 1
      <4>1. loops \in Seq(T) BY <1>0
      <4>5. n \in Nat /\ n <= Len(loops) BY <1>0, <2>1
      <4>2. loops' = SubSeq(loops, 1, n) BY <2>6
      <4> HIDE DEF T, n
      <4>3. loops' \in Seq(T) /\ Len(loops') = n BY <4>1, <4>2, <4>5
      <4>4. \A i \in 1 .. n : loops'[i] = loops[i] BY <4>1, <4>2, <4>5
      <4> QED BY <4>3, <4>4 DEF T, n
    <3>2. TypeOK' BY <2>1, <2>6, <3>1 DEF TypeOK, port, socket, buffers, counters
    <3>3. loops' # <<>> <=> Len(loops) > 1 BY <1>0, <2>1, <3>1
    <3>4. OpenCallbacks' = Len(loops) - 1
      BY <1>0, <2>1, <2>6, <3>1, <3>3 DEF OpenCallbacks
    <3>5. NothingLeftBehind'
      <4>1. ASSUME Len(loops) > 1
            PROVE Last' = loops[Len(loops) - 1] /\ Last'.left \in Nat /\ Last'.left > 0
        <5>1. Len(loops) - 1 \in 1 .. Len(loops) BY <1>0, <4>1
        <5>2. loops[Len(loops) - 1] \in [left : Nat, again : Nat]
          BY <1>0, <5>1, ElementType
        <5>3. Len(loops) - 1 \in 1 .. Len(loops) - 1 BY <1>0, <4>1
        <5>4. Last' = loops[Len(loops) - 1] BY <3>1, <5>3 DEF Last
        <5> QED BY <2>4, <5>2, <5>3, <5>4
      <4>2. inCallback' => loops' # <<>> BY <2>6, <3>3
      <4>3. \A i \in 1 .. OpenCallbacks' : loops'[i].left > 0 BY <2>4, <3>1, <3>4
      <4>4. loops' # <<>> => Last'.left >= Len(clReceiveFifo') + 1
        BY <2>1, <2>2, <3>3, <4>1
      <4>5. loops' # <<>> => inCallback' BY <2>6, <3>3
      <4> QED BY <4>2, <4>3, <4>4, <4>5 DEF NothingLeftBehind
    <3>6. LinkInv' BY <2>1 DEF LinkInv, socket
    <3> QED BY <3>2, <3>5, <3>6
  <2> QED BY <1>4, <2>5, <2>6 DEF LoopDone
<1> QED BY <1>1, <1>2, <1>3, <1>4 DEF Receive

(* The invariant is inductive.                                             *)
LEMMA DriverInvariant == Spec => []DriverInv
<1>1. DriverInv /\ [Next]_vars => DriverInv'
  <2> SUFFICES ASSUME DriverInv, [Next]_vars PROVE DriverInv' OBVIOUS
  <2>1. CASE UNCHANGED vars
    BY <2>1 DEF DriverInv, TypeOK, NothingLeftBehind, OpenCallbacks, Last, LinkInv,
                vars, port, socket, buffers, counters, calls
  <2> QED BY <2>1, DriverStep, AccessStep, EventStep, ReceiveStep DEF Next
<1> QED BY <1>1, InitInv, PTL DEF Spec

(* Every variable keeps its type.                                          *)
THEOREM TypeCorrect == Spec => []TypeOK
BY DriverInvariant, PTL DEF DriverInv

(* No frame stays behind in the socket when the calls of onSocketReceive() *)
(* have returned, however deep the receive callback nested them, whatever  *)
(* it did to buffers, FIFOs and counters, and if it released the driver.   *)
THEOREM NoFrameBehind == Spec => []NothingLeftBehind
BY DriverInvariant, PTL DEF DriverInv

(* The buffers, and what they were configured for, change together.        *)
LEMMA AcceptanceStep == TypeOK /\ AcceptanceStable /\ [Next]_vars => AcceptanceStable'
<1> SUFFICES ASSUME TypeOK, AcceptanceStable, [Next]_vars PROVE AcceptanceStable' OBVIOUS
<1>0. /\ atsCanMsg \in [Buffer -> Message]
      /\ atsAccMask \in [Buffer -> Identifiers]
      /\ filter \in [Buffer -> [id : Identifiers, ext : BOOLEAN]]
      /\ \A c \in Buffer :
           /\ atsCanMsg[c].ext = filter[c].ext
           /\ CpMsgGetIdentifier(atsCanMsg[c]) \cap atsAccMask[c]
                = filter[c].id \cap atsAccMask[c]
  BY DEF TypeOK, AcceptanceStable
<1>1. ASSUME UNCHANGED <<atsCanMsg, atsAccMask, filter>> PROVE AcceptanceStable'
  BY <1>0, <1>1 DEF AcceptanceStable, CpMsgGetIdentifier
(* A frame that is accepted has the same format and the same bits under    *)
(* the mask as the message it replaces.                                    *)
<1>2. ASSUME NEW b \in Buffer, HandleFrame(b) PROVE AcceptanceStable'
  <2> DEFINE m == fromCanFrame(Head(clReceiveFifo))
  <2>1. /\ Accepts(b, m) /\ atsCanMsg' = [atsCanMsg EXCEPT ![b] = m]
        /\ UNCHANGED <<atsAccMask, filter>>
    BY <1>2 DEF HandleFrame, First
  <2> HIDE DEF m
  <2>2. /\ m.ext = atsCanMsg[b].ext
        /\ CpMsgGetIdentifier(m) \cap atsAccMask[b]
             = CpMsgGetIdentifier(atsCanMsg[b]) \cap atsAccMask[b]
    BY <2>1 DEF Accepts
  <2> SUFFICES ASSUME NEW c \in Buffer
               PROVE /\ atsCanMsg'[c].ext = filter[c].ext
                     /\ CpMsgGetIdentifier(atsCanMsg'[c]) \cap atsAccMask[c]
                          = filter[c].id \cap atsAccMask[c]
    BY <2>1 DEF AcceptanceStable, CpMsgGetIdentifier
  <2>3. CASE c = b
    <3>1. atsCanMsg'[c] = m BY <1>0, <2>1, <2>3
    <3> QED BY <1>0, <2>2, <2>3, <3>1
  <2>4. CASE c # b
    <3>1. atsCanMsg'[c] = atsCanMsg[c] BY <1>0, <2>1, <2>4
    <3> QED BY <1>0, <3>1
  <2> QED BY <2>3, <2>4
<1>3. ASSUME NEW b \in Buffer, NEW s \in Setting, CpCoreBufferConfig(b, s)
      PROVE AcceptanceStable'
  <2> DEFINE i == s.id \cap Mask(s.ext)
  <2>1. /\ atsCanMsg' = [atsCanMsg EXCEPT ![b].id = i, ![b].ext = s.ext]
        /\ atsAccMask' = [atsAccMask EXCEPT ![b] = s.mask \cap Mask(s.ext)]
        /\ filter' = [filter EXCEPT ![b] = [id |-> i, ext |-> s.ext]]
    BY <1>3 DEF CpCoreBufferConfig
  <2>2. i \cap Mask(s.ext) = i OBVIOUS
  <2> HIDE DEF i
  <2> SUFFICES ASSUME NEW c \in Buffer
               PROVE /\ atsCanMsg'[c].ext = filter'[c].ext
                     /\ CpMsgGetIdentifier(atsCanMsg'[c]) \cap atsAccMask'[c]
                          = filter'[c].id \cap atsAccMask'[c]
    BY DEF AcceptanceStable, CpMsgGetIdentifier
  <2>3. CASE c = b
    <3>1. atsCanMsg'[c].id = i /\ atsCanMsg'[c].ext = s.ext
      BY <1>0, <2>1, <2>3 DEF Message
    <3>2. filter'[c].id = i /\ filter'[c].ext = s.ext BY <1>0, <2>1, <2>3
    <3> QED BY <2>2, <3>1, <3>2 DEF CpMsgGetIdentifier
  <2>4. CASE c # b
    <3>1. /\ atsCanMsg'[c] = atsCanMsg[c] /\ filter'[c] = filter[c]
          /\ atsAccMask'[c] = atsAccMask[c]
      BY <1>0, <2>1, <2>4
    <3> QED BY <1>0, <3>1
  <2> QED BY <2>3, <2>4
<1>4. ASSUME NEW b \in Buffer, CpCoreBufferRelease(b) PROVE AcceptanceStable'
  <2>1. /\ atsCanMsg' = [atsCanMsg EXCEPT ![b] = EmptyMessage]
        /\ filter' = [filter EXCEPT ![b] = [id |-> {}, ext |-> FALSE]]
        /\ atsAccMask' = atsAccMask
    BY <1>4 DEF CpCoreBufferRelease
  <2> SUFFICES ASSUME NEW c \in Buffer
               PROVE /\ atsCanMsg'[c].ext = filter'[c].ext
                     /\ CpMsgGetIdentifier(atsCanMsg'[c]) \cap atsAccMask[c]
                          = filter'[c].id \cap atsAccMask[c]
    BY <2>1 DEF AcceptanceStable, CpMsgGetIdentifier
  <2>2. CASE c = b
    <3>1. atsCanMsg'[c] = EmptyMessage /\ filter'[c] = [id |-> {}, ext |-> FALSE]
      BY <1>0, <2>1, <2>2
    <3> QED BY <3>1 DEF EmptyMessage, CpMsgGetIdentifier
  <2>3. CASE c # b
    <3>1. atsCanMsg'[c] = atsCanMsg[c] /\ filter'[c] = filter[c] BY <1>0, <2>1, <2>3
    <3> QED BY <1>0, <3>1
  <2> QED BY <2>2, <2>3
<1>5. ASSUME NEW b \in Buffer, NEW dlc \in Dlc, CpCoreBufferSetDlc(b, dlc)
      PROVE AcceptanceStable'
  <2>1. atsCanMsg' = [atsCanMsg EXCEPT ![b].dlc = dlc] /\ UNCHANGED <<atsAccMask, filter>>
    BY <1>5 DEF CpCoreBufferSetDlc
  <2>2. ASSUME NEW c \in Buffer
        PROVE atsCanMsg'[c].id = atsCanMsg[c].id /\ atsCanMsg'[c].ext = atsCanMsg[c].ext
    <3>1. atsCanMsg[b] \in Message /\ atsCanMsg[c] \in Message BY <1>0
    <3>2. CASE c = b BY <1>0, <2>1, <3>1, <3>2 DEF Message
    <3>3. CASE c # b BY <1>0, <2>1, <3>3
    <3> QED BY <3>2, <3>3
  <2> QED BY <1>0, <2>1, <2>2 DEF AcceptanceStable, CpMsgGetIdentifier
<1>6. CASE UNCHANGED vars BY <1>1, <1>6 DEF vars, buffers
<1>7. CASE Driver
  BY <1>1, <1>7 DEF Driver, CpCoreDriverInit, DriverInitDone, DriverInitFail,
    CpCoreDriverRelease, CpCoreCanMode, CpCoreIntFunctions, CpCoreStatisticClear, buffers
<1>8. CASE Access
  BY <1>1, <1>3, <1>4, <1>5, <1>8 DEF Access, CpCoreBufferSend, CpCoreFifoConfig,
    CpCoreFifoRelease, CpCoreFifoRead, CpCoreFifoWrite, buffers
<1>9. CASE Event BY <1>1, <1>9 DEF Event, Connected, Disconnected, ReadyRead, buffers
<1>10. CASE Receive
  BY <1>1, <1>2, <1>10 DEF Receive, IgnoreFrame, CallbackReturn, LoopDone, buffers
<1> QED BY <1>6, <1>7, <1>8, <1>9, <1>10 DEF Next

(* The frames a buffer accepts stay those it was configured for, although  *)
(* every accepted frame overwrites the identifier they are compared with.  *)
THEOREM FiltersStable == Spec => []AcceptanceStable
<1>1. Init => AcceptanceStable
  <2> SUFFICES ASSUME Init, NEW b \in Buffer
               PROVE /\ atsCanMsg[b].ext = filter[b].ext
                     /\ CpMsgGetIdentifier(atsCanMsg[b]) \cap atsAccMask[b]
                          = filter[b].id \cap atsAccMask[b]
    BY DEF AcceptanceStable
  <2>1. atsCanMsg[b] = EmptyMessage /\ filter[b] = [id |-> {}, ext |-> FALSE] BY DEF Init
  <2> QED BY <2>1 DEF EmptyMessage, CpMsgGetIdentifier
<1> QED BY <1>1, TypeCorrect, AcceptanceStep, PTL DEF Spec

(* The frames that were accepted are counted modulo 2^32, one at a time.   *)
LEMMA ModUnique ==
  ASSUME NEW M \in Nat \ {0}, NEW a \in Nat, NEW q \in Nat, NEW r \in 0 .. M - 1,
         a = M * q + r
  PROVE  a % M = r
OBVIOUS

LEMMA ModDiv ==
  ASSUME NEW M \in Nat \ {0}, NEW a \in Nat
  PROVE  \E q \in Nat, r \in 0 .. M - 1 : a = M * q + r /\ a % M = r
<1>1. a = M * (a \div M) + (a % M) /\ a % M \in 0 .. M - 1 /\ a \div M \in Nat OBVIOUS
<1> QED BY <1>1

LEMMA ModAdd ==
  ASSUME NEW M \in Nat \ {0}, NEW a \in Nat, NEW b \in Nat
  PROVE  ((a % M) + b) % M = (a + b) % M
<1>1. PICK q \in Nat, r \in 0 .. M - 1 : a = M * q + r /\ a % M = r BY ModDiv
<1>2. PICK p \in Nat, u \in 0 .. M - 1 : r + b = M * p + u /\ (r + b) % M = u
  BY ModDiv
<1>3. a + b = M * (q + p) + u BY <1>1, <1>2
<1> DEFINE c == a + b
           k == q + p
<1>4. c \in Nat /\ k \in Nat /\ c = M * k + u BY <1>3
<1> HIDE DEF c, k
<1>5. c % M = u BY <1>4, ModUnique
<1> QED BY <1>1, <1>2, <1>5 DEF c

(* The counter may be moved before what is still open is added, or after.  *)
LEMMA PlusMoves ==
  ASSUME NEW n \in Counter, NEW k \in Nat
  PROVE  Plus(Plus(n, 1), k) = Plus(n, k + 1) /\ Plus(Plus(n, k), 1) = Plus(n, k + 1)
<1>1. n \in Nat /\ CounterMod \in Nat \ {0} BY BoundAssumption DEF Counter
<1> DEFINE m == n + 1
<1>2. m \in Nat BY <1>1
<1> HIDE DEF m
<1>3. ((m % CounterMod) + k) % CounterMod = (m + k) % CounterMod BY <1>1, <1>2, ModAdd
<1>4. (((n + k) % CounterMod) + 1) % CounterMod = ((n + k) + 1) % CounterMod
  <2> DEFINE i == n + k
  <2>1. i \in Nat BY <1>1
  <2> HIDE DEF i
  <2>2. ((i % CounterMod) + 1) % CounterMod = (i + 1) % CounterMod BY <1>1, <2>1, ModAdd
  <2> QED BY <2>2 DEF i
<1>5. m + k = n + (k + 1) /\ (n + k) + 1 = n + (k + 1) BY <1>1 DEF m
<1> QED BY <1>3, <1>4, <1>5 DEF Plus, m

LEMMA OpenType ==
  ASSUME DriverInv
  PROVE  /\ OpenCallbacks \in Nat /\ Len(loops) \in Nat
         /\ loops = <<>> => OpenCallbacks = 0 /\ ~inCallback
         /\ loops # <<>> => OpenCallbacks = IF inCallback THEN Len(loops) ELSE Len(loops) - 1
  BY DEF DriverInv, NothingLeftBehind, TypeOK, OpenCallbacks

(* A callback begins, or returns, or a frame is counted without one.       *)
LEMMA CountStep == DriverInv /\ RcvCountExact /\ [Next]_vars => RcvCountExact'
<1> SUFFICES ASSUME DriverInv, RcvCountExact, [Next]_vars PROVE RcvCountExact' OBVIOUS
<1>0. /\ ulRcvMsgCount \in Counter /\ delivered \in Counter
      /\ loops \in Seq([left : Nat, again : Nat])
  BY DEF DriverInv, TypeOK
<1>1. OpenCallbacks \in Nat /\ Plus(ulRcvMsgCount, OpenCallbacks) = delivered
  BY OpenType DEF RcvCountExact
<1>2. ASSUME UNCHANGED <<ulRcvMsgCount, delivered>>, OpenCallbacks' = OpenCallbacks
      PROVE  RcvCountExact'
  BY <1>1, <1>2 DEF RcvCountExact
<1>3. ASSUME UNCHANGED <<ulRcvMsgCount, delivered, calls>> PROVE RcvCountExact'
  BY <1>2, <1>3 DEF calls, OpenCallbacks
<1>4. Plus(0, 0) = 0 BY BoundAssumption DEF Plus
<1>5. ASSUME Len(loops') = Len(loops), loops # <<>>, NEW n \in {0, 1},
             inCallback' = FALSE, n = (IF inCallback THEN 1 ELSE 0),
             loops' # <<>>, ulRcvMsgCount' = Plus(ulRcvMsgCount, 1),
             delivered' = Plus(delivered, 1 - n)
      PROVE  RcvCountExact'
  <2>1. OpenCallbacks = Len(loops) - 1 + n /\ OpenCallbacks' = Len(loops) - 1
    BY <1>5, OpenType DEF OpenCallbacks
  <2>2. Len(loops) - 1 \in Nat /\ Len(loops) \in Nat BY <1>0, <1>5
  <2>3. Plus(Plus(ulRcvMsgCount, 1), Len(loops) - 1) = Plus(ulRcvMsgCount, Len(loops))
    BY <1>0, <2>2, PlusMoves
  <2>4. CASE n = 1
    <3>1. Plus(delivered, 0) = delivered BY <1>0, BoundAssumption DEF Plus, Counter
    <3> QED BY <1>1, <1>5, <2>1, <2>2, <2>3, <2>4, <3>1 DEF RcvCountExact
  <2>5. CASE n = 0
    <3>1. Plus(Plus(ulRcvMsgCount, Len(loops) - 1), 1) = Plus(ulRcvMsgCount, Len(loops))
      BY <1>0, <2>2, PlusMoves
    <3> QED BY <1>1, <1>5, <2>1, <2>2, <2>3, <2>5, <3>1 DEF RcvCountExact
  <2> QED BY <2>4, <2>5
<1>6. CASE UNCHANGED vars BY <1>3, <1>6 DEF vars, counters
<1>7. CASE Driver
  <2>1. ASSUME DriverInitDone PROVE RcvCountExact'
    <3>1. OpenCallbacks' = 0 /\ ulRcvMsgCount' = 0 /\ delivered' = 0
      BY <2>1 DEF DriverInitDone, OpenCallbacks, calls
    <3> QED BY <1>4, <3>1 DEF RcvCountExact
  <2>2. ASSUME CpCoreDriverRelease PROVE RcvCountExact'
    <3>1. DOMAIN loops = 1 .. Len(loops) /\ Len(loops) \in Nat BY <1>0
    <3>2. DOMAIN loops' = 1 .. Len(loops) /\ inCallback' = inCallback
          /\ UNCHANGED <<ulRcvMsgCount, delivered>>
          /\ loops' = [i \in 1 .. Len(loops) |-> [loops[i] EXCEPT !.again = 0]]
      BY <2>2, <3>1 DEF CpCoreDriverRelease, counters
    <3>3. Len(loops') = Len(loops) BY <3>1, <3>2
    <3>4. loops' = <<>> <=> loops = <<>> BY <3>1, <3>2, <1>0
    <3>5. OpenCallbacks' = OpenCallbacks BY <3>2, <3>3, <3>4 DEF OpenCallbacks
    <3> QED BY <1>2, <3>2, <3>5
  <2>3. ASSUME CpCoreStatisticClear PROVE RcvCountExact'
    <3>1. OpenCallbacks' = OpenCallbacks BY <2>3 DEF CpCoreStatisticClear, OpenCallbacks, calls
    <3> QED BY <2>3, <3>1 DEF CpCoreStatisticClear, RcvCountExact
  <2> QED BY <1>3, <1>7, <2>1, <2>2, <2>3
        DEF Driver, CpCoreDriverInit, DriverInitFail, CpCoreCanMode, CpCoreIntFunctions, counters
<1>8. CASE Access
  BY <1>3, <1>8 DEF Access, CpCoreBufferConfig, CpCoreBufferRelease, CpCoreBufferSetDlc,
    CpCoreBufferSend, CpCoreFifoConfig, CpCoreFifoRelease, CpCoreFifoRead, CpCoreFifoWrite,
    counters
<1>9. CASE Event
  <2>1. ASSUME NEW fs, ReadyRead(fs) PROVE RcvCountExact'
    <3>1. CASE UNCHANGED calls BY <1>3, <2>1, <3>1 DEF ReadyRead, counters
    <3>2. CASE ~UNCHANGED calls
      <4>1. PICK x : loops' = Append(loops, x) /\ inCallback' = FALSE
        BY <2>1, <3>2 DEF ReadyRead
      <4>2. DOMAIN loops' = 1 .. Len(loops) + 1 /\ Len(loops') = Len(loops) + 1
            /\ loops' # <<>>
        BY <1>0, <4>1
      <4>3. OpenCallbacks' = Len(loops) BY <1>0, <4>1, <4>2 DEF OpenCallbacks
      <4>4. OpenCallbacks = Len(loops)
        BY <1>0, <2>1, OpenType DEF ReadyRead, EventsRun
      <4> QED BY <1>2, <2>1, <4>3, <4>4 DEF ReadyRead, counters
    <3> QED BY <3>1, <3>2
  <2> QED BY <1>3, <1>9, <2>1 DEF Event, Connected, Disconnected, counters
<1>10. CASE Receive
  <2>1. ASSUME loops # <<>>, NextFrame PROVE Len(loops') = Len(loops) /\ loops' # <<>>
    <3>1. loops' = [loops EXCEPT ![Len(loops)].left = @ - 1] BY <2>1 DEF NextFrame
    <3>2. loops' \in Seq([left : Nat, again : Nat])
      BY <1>10, ReceiveStep DEF DriverInv, TypeOK
    <3> DEFINE T == [left : Nat, again : Nat]
    <3>3. loops \in Seq(T) /\ loops' \in Seq(T) BY <1>0, <3>2
    <3>4. DOMAIN loops' = DOMAIN loops BY Zenon, <3>1
    <3> HIDE DEF T
    <3>5. Len(loops') = Len(loops) /\ loops' # <<>> BY <2>1, <3>3, <3>4
    <3> QED BY <3>5
  <2>2. CASE IgnoreFrame
    <3>1. loops # <<>> /\ ~inCallback /\ NextFrame /\ inCallback' = inCallback
          /\ UNCHANGED <<ulRcvMsgCount, delivered>>
      BY <2>2 DEF IgnoreFrame, Running, counters
    <3>2. OpenCallbacks' = OpenCallbacks BY <2>1, <3>1 DEF OpenCallbacks
    <3> QED BY <1>2, <3>1, <3>2
  <2>3. ASSUME NEW b \in Buffer, HandleFrame(b) PROVE RcvCountExact'
    <3>1. loops # <<>> /\ ~inCallback /\ inCallback = FALSE /\ delivered' = Plus(delivered, 1)
      BY <2>3 DEF HandleFrame, Running, DriverInv, TypeOK
    <3>2. CASE inCallback' = TRUE /\ UNCHANGED <<ulRcvMsgCount, loops>>
      <4>1. OpenCallbacks' = OpenCallbacks + 1
        BY <1>0, <3>1, <3>2 DEF OpenCallbacks
      <4>2. Plus(Plus(ulRcvMsgCount, OpenCallbacks), 1) = Plus(ulRcvMsgCount, OpenCallbacks + 1)
        BY <1>0, <1>1, PlusMoves
      <4> QED BY <1>1, <3>1, <3>2, <4>1, <4>2 DEF RcvCountExact
    <3>3. CASE Count /\ NextFrame /\ UNCHANGED inCallback
      <4>1. Len(loops') = Len(loops) /\ loops' # <<>> BY <2>1, <3>1, <3>3
      <4>2. delivered' = Plus(delivered, 1 - 0) /\ ulRcvMsgCount' = Plus(ulRcvMsgCount, 1)
        BY <3>1, <3>3 DEF Count
      <4> QED BY <1>5, <3>1, <3>3, <4>1, <4>2
    <3> QED BY <2>3, <3>2, <3>3 DEF HandleFrame
  <2>4. CASE CallbackReturn
    <3>1. /\ inCallback /\ loops # <<>> /\ inCallback' = FALSE /\ NextFrame
          /\ ulRcvMsgCount' = Plus(ulRcvMsgCount, 1) /\ delivered' = delivered
      BY <2>4 DEF CallbackReturn, Count, DriverInv, NothingLeftBehind
    <3>2. Plus(delivered, 1 - 1) = delivered BY <1>0, BoundAssumption DEF Plus, Counter
    <3> QED BY <1>5, <2>1, <3>1, <3>2
  <2>5. CASE LoopDone
    <3>1. loops # <<>> /\ ~inCallback /\ UNCHANGED <<ulRcvMsgCount, delivered>>
      BY <2>5 DEF LoopDone, Running, counters
    <3>2. OpenCallbacks = Len(loops) - 1 /\ Len(loops) \in Nat \ {0}
      BY <1>0, <3>1, OpenType
    <3>3. CASE inCallback' = inCallback /\ loops' = [loops EXCEPT ![Len(loops)]
                 = Call(clReceiveFifo, Last.again - 1)]
      <4>1. DOMAIN loops' = 1 .. Len(loops) BY <1>0, <3>3
      <4>2. loops' \in Seq([left : Nat, again : Nat])'
        BY <1>10, ReceiveStep DEF DriverInv, TypeOK
      <4>3. Len(loops') = Len(loops) /\ loops' # <<>> BY <3>2, <4>1, <4>2
      <4>4. OpenCallbacks' = Len(loops) - 1 BY <3>1, <3>3, <4>3 DEF OpenCallbacks
      <4> QED BY <1>2, <3>1, <3>2, <4>4
    <3>4. CASE loops' = SubSeq(loops, 1, Len(loops) - 1) /\ inCallback' = (Len(loops) > 1)
      <4>1. Len(loops') = Len(loops) - 1 /\ (loops' = <<>> <=> Len(loops) = 1)
        <5> DEFINE T == [left : Nat, again : Nat]
                   n == Len(loops) - 1
        <5>1. loops \in Seq(T) /\ n \in Nat /\ n <= Len(loops) BY <1>0, <3>2
        <5>2. loops' = SubSeq(loops, 1, n) BY <3>4
        <5> HIDE DEF T, n
        <5>3. loops' \in Seq(T) /\ Len(loops') = n BY <5>1, <5>2
        <5>4. loops' = <<>> <=> n = 0 BY <5>1, <5>3
        <5> QED BY <3>2, <5>3, <5>4 DEF n
      <4>2. inCallback' <=> loops' # <<>>
        <5>1. (Len(loops) > 1) <=> loops' # <<>> BY <3>2, <4>1
        <5> QED BY <3>4, <5>1
      <4>3. OpenCallbacks' = Len(loops) - 1
        <5>1. CASE loops' = <<>> BY <4>1, <5>1 DEF OpenCallbacks
        <5>2. CASE loops' # <<>> BY <4>1, <4>2, <5>2 DEF OpenCallbacks
        <5> QED BY <5>1, <5>2
      <4> QED BY <1>2, <3>1, <3>2, <4>3
    <3> QED BY <2>5, <3>3, <3>4 DEF LoopDone
  <2> QED BY <1>10, <2>2, <2>3, <2>4, <2>5 DEF Receive
<1> QED BY <1>6, <1>7, <1>8, <1>9, <1>10 DEF Next

(* The receive counter is that of the frames that were accepted since it   *)
(* was cleared, less the callbacks that have not returned, however they    *)
(* are nested and whatever they call.                                      *)
THEOREM CountIsExact == Spec => []RcvCountExact
<1>1. Init => RcvCountExact
  BY BoundAssumption DEF Init, RcvCountExact, OpenCallbacks, Plus
<1> QED BY <1>1, DriverInvariant, CountStep, PTL DEF Spec
==============================================================================
