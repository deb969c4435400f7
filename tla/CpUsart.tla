------------------------------- MODULE CpUsart -------------------------------
(***************************************************************************)
(* The CANpie driver library for a serial line (qcan-usart/cp_usart.c) on  *)
(* top of the serial port of qcan_usart.cpp.  A CAN frame travels as one   *)
(* block of bytes.  Every function of the library becomes an operator from *)
(* the state of the program to its next state; the plug-in, which is its   *)
(* only user, calls them one after the other.                              *)
(*                                                                         *)
(* The plug-in uses three of the 32 message buffers and no message FIFO.   *)
(* The pending flag of a buffer is left out: CpCoreBufferSend never finds  *)
(* the serial port busy (CP_USART_STATE_IDLE is 0) and never sets it.      *)
(***************************************************************************)
EXTENDS Integers, Sequences

CONSTANTS
  Frame,   \* CAN frames, each with an identifier of its own
  Ext,     \* those with an extended identifier
  None     \* no frame

ASSUME UsartAssumption == Ext \subseteq Frame /\ None \notin Frame

Channel == 1..2               \* CP_CHANNEL_MAX
TrmBuffer == 1                \* eCP_BUFFER_1
RcvBuffer(ext) == IF ext THEN 4 ELSE 3
Buffer == {TrmBuffer, RcvBuffer(FALSE), RcvBuffer(TRUE)}

(* A message buffer: ulMsgUser holds VAL and the direction, all says that  *)
(* the acceptance mask is 0.                                               *)
ClearBuffer == [val |-> FALSE, trm |-> FALSE, all |-> FALSE, ext |-> FALSE, msg |-> None]
BufferType == [val : BOOLEAN, trm : BOOLEAN, all : BOOLEAN, ext : BOOLEAN, msg : Frame \cup {None}]

(* The state u of the program has these members of the library and of      *)
(* QCanUsart, and those of the plug-in: ubDrvInfo, ubPhyIf and atsCanMsgS; *)
(* usart, the channel whose handlers are registered with the serial port,  *)
(* which exists only once, as QCanUsart ignores the port number; open, and *)
(* the buffers in and out of that port: the frames that have arrived and   *)
(* those it has still to write; clUartTrmBufG, the frame written last.     *)
CheckParam(u) == u.ubDrvInfo = "init"

(* setConfig(): a new QSerialPort replaces the old one, the bytes of both  *)
(* directions are gone and bytesWritten() of the old one never comes.      *)
setConfig(u, opens) == [u EXCEPT !.open = opens, !.in = <<>>, !.out = <<>>]

DevWrite(u, f) ==
  [u EXCEPT !.clUartTrmBufG = f, !.out = IF u.open THEN Append(@, f) ELSE @]

CpCoreDriverInit(u, c) ==
  [u EXCEPT !.ubDrvInfo = "init", !.ubPhyIf = c,
            !.atsCanMsgS[c] = [b \in Buffer |-> ClearBuffer]]

CpCoreDriverRelease(u) == [u EXCEPT !.ubDrvInfo = "off"]

CpCoreIntFunctions(u) == [u EXCEPT !.usart = u.ubPhyIf]

CpCoreBitrate(u, opens) == IF ~CheckParam(u) THEN u ELSE setConfig(u, opens)

CpCoreBufferConfig(u, b, f, all, ext, trm) ==
  IF ~CheckParam(u) THEN u
  ELSE [u EXCEPT !.atsCanMsgS[u.ubPhyIf][b] =
          [val |-> TRUE, trm |-> trm, all |-> all, ext |-> ext, msg |-> f]]

CpCoreBufferSend(u, b) ==
  IF ~CheckParam(u) THEN u ELSE DevWrite(u, u.atsCanMsgS[u.ubPhyIf][b].msg)

(* CpCanMsgFromBuffer() looks at the buffers of channel 1, whatever the    *)
(* channel of the caller is.                                               *)
Hit(u, f, trm) ==
  {b \in Buffer : LET m == u.atsCanMsgS[1][b]
                  IN m.val /\ m.trm = trm /\ (m.all \/ m.msg = f) /\ m.ext = (f \in Ext)}
CpCanMsgFromBuffer(u, f, trm) ==
  IF Hit(u, f, trm) = {} THEN None
  ELSE CHOOSE b \in Hit(u, f, trm) : \A c \in Hit(u, f, trm) : b <= c
==============================================================================
