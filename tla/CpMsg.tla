--------------------------------- MODULE CpMsg ---------------------------------
(* One CpCanMsg_ts structure and the functions that build it (cp_msg.c).     *)
(* The bits of ubMsgCtrl are a set; an identifier is cut into its 11 low     *)
(* bits and the 18 bits only an extended identifier has; of the data field,  *)
(* the bytes at Positions are kept.                                          *)
EXTENDS Integers

CONSTANTS
  Positions,    \* the byte positions modelled, a part of 0..63
  Byte,         \* the values written to them
  Dlcs,         \* the DLC values the program asks for
  Modes,        \* the CAN modes and
  Rates         \* bit rates of a remote procedure call

ASSUME MsgAssumption ==
  0 .. 3 \subseteq Positions /\ Positions \subseteq 0 .. 63 /\ Dlcs \subseteq Nat

Low == {0, 1}
High == {0, 1}
Identifiers == [low : Low, high : High]

Formats == SUBSET {"EXT", "FDF"}

VARIABLE msg

(* aubDlcToSizeC and CpMsgDlcToSize() *)
DlcToSize == [dlc \in 0..15 |->
  IF dlc <= 8 THEN dlc ELSE <<12, 16, 20, 24, 32, 48, 64>>[dlc - 8]]

(* CpMsgSizeToDlc() *)
SizeToDlc(size) ==
  CHOOSE dlc \in 0..15 :
    /\ DlcToSize[dlc] >= size \/ dlc = 15
    /\ \A shorter \in 0..(dlc - 1) : DlcToSize[shorter] < size

Limit(ctrl) == IF "FDF" \in ctrl THEN 15 ELSE 8

Masked(id, ctrl) == IF "EXT" \in ctrl THEN id ELSE [id EXCEPT !.high = 0]

CpMsgIsExtended(m) == "EXT" \in m.ctrl
CpMsgIsFdFrame(m) == "FDF" \in m.ctrl
CpMsgIsRemote(m) == "RTR" \in m.ctrl
CpMsgIsRpc(m) == "RPC" \in m.ctrl
CpMsgIsBitrateSwitchSet(m) == {"FDF", "BRS"} \subseteq m.ctrl
CpMsgGetIdentifier(m) == Masked(m.id, m.ctrl)
CpMsgGetDlc(m) == m.dlc

(* CpMsgGetData() looks at the format, not at the DLC. *)
CpMsgGetData(m, pos) == IF pos < DlcToSize[Limit(m.ctrl)] THEN m.bytes[pos] ELSE 0

(* What the getters tell of a data frame. *)
MsgSeen(m) ==
  [extended |-> CpMsgIsExtended(m), fd |-> CpMsgIsFdFrame(m),
   switch |-> CpMsgIsBitrateSwitchSet(m), id |-> CpMsgGetIdentifier(m),
   dlc |-> CpMsgGetDlc(m),
   data |-> [pos \in {x \in Positions : x < DlcToSize[m.dlc]} |-> CpMsgGetData(m, pos)]]

Cleared == [id |-> [low |-> 0, high |-> 0], dlc |-> 0, ctrl |-> {},
            bytes |-> [pos \in Positions |-> 0]]

CpMsgClear == msg' = Cleared

CpMsgInit(format) ==
  msg' = [msg EXCEPT !.id = Cleared.id, !.dlc = 0, !.ctrl = format]

CpMsgSetBit(bit) == msg' = [msg EXCEPT !.ctrl = @ \cup {bit}]
CpMsgClearBit(bit) == msg' = [msg EXCEPT !.ctrl = @ \ {bit}]

CpMsgSetRemote == "FDF" \notin msg.ctrl /\ CpMsgSetBit("RTR")
CpMsgClrRemote == CpMsgClearBit("RTR")
CpMsgSetOverrun == CpMsgSetBit("OVR")
CpMsgClrOverrun == CpMsgClearBit("OVR")
CpMsgSetBitrateSwitch == CpMsgSetBit("BRS")

CpMsgSetDlc(dlc) == dlc <= Limit(msg.ctrl) /\ msg' = [msg EXCEPT !.dlc = dlc]

CpMsgSetData(pos, value) ==
  /\ pos < DlcToSize[Limit(msg.ctrl)]
  /\ msg' = [msg EXCEPT !.bytes[pos] = value]

CpMsgSetExtId(id) == msg' = [msg EXCEPT !.ctrl = @ \cup {"EXT"}, !.id = id]

CpMsgSetStdId(id) ==
  msg' = [msg EXCEPT !.ctrl = @ \ {"EXT"}, !.id = Masked(id, {})]

CpMsgSetIdentifier(id) == msg' = [msg EXCEPT !.id = Masked(id, msg.ctrl)]

(* A remote procedure call uses the identifier for its kind, and the DLC or  *)
(* the data for its argument.                                                *)
CpMsgRpcSetCanMode(mode) ==
  msg' = [msg EXCEPT !.dlc = mode, !.id = [low |-> 1, high |-> 0], !.ctrl = {"RPC"}]

CpMsgRpcSetBitrate(rate) ==
  msg' = [msg EXCEPT
    !.bytes = [pos \in Positions |-> IF pos < 4 THEN rate ELSE @[pos]],
    !.id = [low |-> 0, high |-> 0], !.ctrl = {"RPC"}]

Init == msg = Cleared

Next ==
  \/ CpMsgClear
  \/ \E format \in Formats : CpMsgInit(format)
  \/ CpMsgSetRemote \/ CpMsgClrRemote
  \/ CpMsgSetOverrun \/ CpMsgClrOverrun
  \/ CpMsgSetBitrateSwitch
  \/ \E dlc \in Dlcs : CpMsgSetDlc(dlc)
  \/ \E pos \in Positions, value \in Byte : CpMsgSetData(pos, value)
  \/ \E id \in Identifiers :
       CpMsgSetExtId(id) \/ CpMsgSetStdId(id) \/ CpMsgSetIdentifier(id)
  \/ \E mode \in Modes : CpMsgRpcSetCanMode(mode)
  \/ \E rate \in Rates : CpMsgRpcSetBitrate(rate)

Spec == Init /\ [][Next]_msg
================================================================================
