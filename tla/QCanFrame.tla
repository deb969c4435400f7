------------------------------- MODULE QCanFrame -------------------------------
(* One QCanFrame object (qcan_frame.cpp): its setters, which each guard or   *)
(* repair a part of the object, and its conversions from and to the          *)
(* CpCanMsg_ts structure of module CpMsg.  The bits of ubMsgCtrlP are a set;  *)
(* error is the bit of the identifier that marks an error frame, whose data  *)
(* bytes 0..3 hold the error state, the error type and the two counters.     *)
EXTENDS CpMsg, Sequences

VARIABLE frame

eCAN_STATE_STOPPED == 0
eCAN_STATE_BUS_ACTIVE == 2
eCAN_STATE_BUS_WARN == 3
eCAN_STATE_BUS_PASSIVE == 4
eCAN_STATE_BUS_OFF == 5

WarningLimit == 96
PassiveLimit == 128
BusOffLimit == 255

Zeroes == [pos \in Positions |-> 0]

frameFormat(f) == f.ctrl \cap {"EXT", "FDF"}
IsFd(f) == "FDF" \in f.ctrl
isRemote(f) == "RTR" \in f.ctrl
bitrateSwitch(f) == {"FDF", "BRS"} \subseteq f.ctrl
errorStateIndicator(f) == {"FDF", "ESI"} \subseteq f.ctrl
frameType(f) == IF f.id.error THEN "ERROR" ELSE "DATA"
identifier(f) == Masked([low |-> f.id.low, high |-> f.id.high], f.ctrl)
dlc(f) == f.dlc
dataSize(f) == DlcToSize[f.dlc]
data(f) == [pos \in {x \in Positions : x < dataSize(f)} |-> f.bytes[pos]]

(* What the getters tell of a data frame, save for the remote and the error  *)
(* state bit.                                                                *)
FrameSeen(f) ==
  [format |-> frameFormat(f), switch |-> bitrateSwitch(f),
   id |-> identifier(f), dlc |-> dlc(f), data |-> data(f)]

(* setFrameFormat() *)
WithFormat(f, format) ==
  LET fd == "FDF" \in format
  IN [f EXCEPT
       !.ctrl = ((@ \ {"EXT", "FDF"}) \cup format) \ (IF fd THEN {"RTR"} ELSE {"BRS", "ESI"}),
       !.dlc = IF @ > 8 /\ ~fd THEN 8 ELSE @]

(* setFrameType(): the pattern of eFRAME_TYPE_UNKNOWN sets every bit, and so *)
(* reads as an error frame.                                                  *)
TypePattern(type) ==
  [low |-> IF type = "UNKNOWN" THEN 1 ELSE 0,
   high |-> IF type = "UNKNOWN" THEN 1 ELSE 0, error |-> type # "DATA"]
WithType(f, type) == [f EXCEPT !.id = TypePattern(type), !.bytes = Zeroes]

(* setIdentifier(): the mask takes away the bits of the frame type as well.  *)
WithIdentifier(f, id) ==
  LET masked == Masked(id, f.ctrl)
  IN [f EXCEPT !.id = [low |-> masked.low, high |-> masked.high, error |-> FALSE]]

WithDlc(f, d) == IF d <= Limit(f.ctrl) THEN [f EXCEPT !.dlc = d] ELSE f

(* setDataSize(): too large a size becomes the largest of the format.        *)
WithDataSize(f, size) ==
  [f EXCEPT !.dlc = IF IsFd(f) THEN SizeToDlc(size)
                    ELSE IF size > 8 THEN 8 ELSE size]

WithSwitch(f, on) ==
  IF IsFd(f) THEN [f EXCEPT !.ctrl = IF on THEN @ \cup {"BRS"} ELSE @ \ {"BRS"}] ELSE f

(* setDataUInt16(), setDataUInt32(): a word that does not fit into the data  *)
(* is not written, and read as 0.                                            *)
Place(pos, size, k, msbFirst) == IF msbFirst THEN pos + k - 1 ELSE pos + size - k
Fits(f, pos, size) == size <= dataSize(f) /\ pos < dataSize(f) - (size - 1)
WithWord(f, pos, word, msbFirst) ==
  IF Fits(f, pos, Len(word))
  THEN [f EXCEPT !.bytes = [p \in Positions |->
          IF p \in pos .. pos + Len(word) - 1
          THEN word[CHOOSE k \in DOMAIN word : Place(pos, Len(word), k, msbFirst) = p]
          ELSE @[p]]]
  ELSE f
Word(f, pos, size, msbFirst) ==
  IF Fits(f, pos, size)
  THEN [k \in 1 .. size |-> f.bytes[Place(pos, size, k, msbFirst)]]
  ELSE [k \in 1 .. size |-> 0]
dataUInt16(f, pos, msbFirst) == Word(f, pos, 2, msbFirst)
dataUInt32(f, pos, msbFirst) == Word(f, pos, 4, msbFirst)

New ==
  WithFormat(WithType([id |-> TypePattern("DATA"), dlc |-> 0, ctrl |-> {}, bytes |-> Zeroes],
                      "DATA"), {})

--------------------------------------------------------------------------------
(* Conversions *)

toCpCanMsg(f, m) ==
  [id |-> identifier(f),
   dlc |-> f.dlc,
   ctrl |-> frameFormat(f) \cup (IF bitrateSwitch(f) THEN {"BRS"} ELSE {})
              \cup (IF errorStateIndicator(f) THEN {"ESI"} ELSE {})
              \cup (IF isRemote(f) THEN {"RTR"} ELSE {}),
   bytes |-> [pos \in Positions |-> IF pos < dataSize(f) THEN f.bytes[pos] ELSE m.bytes[pos]]]

(* fromCpCanMsg() writes into the frame as it is: what no setter touches     *)
(* stays, and a DLC the format does not allow leaves the old one.            *)
Copied(f, m) ==
  [f EXCEPT !.bytes = [pos \in Positions |-> IF pos < dataSize(f) THEN m.bytes[pos] ELSE @[pos]]]

SwitchOf(f, m) == IF "FDF" \in m.ctrl THEN WithSwitch(f, "BRS" \in m.ctrl) ELSE f

DlcFirst(f, m) ==
  Copied(WithIdentifier(SwitchOf(WithFormat(WithDlc(f, m.dlc), m.ctrl \cap {"EXT", "FDF"}),
                                 m), m.id), m)
fromCpCanMsg(f, m) ==
  Copied(WithDlc(WithIdentifier(SwitchOf(WithFormat(f, m.ctrl \cap {"EXT", "FDF"}), m),
                                m.id), m.dlc), m)

--------------------------------------------------------------------------------
(* The calls of the program *)

setFrameFormat(format) == frame' = WithFormat(frame, format)
setFrameType(type) == frame' = WithType(frame, type)
setIdentifier(id) == frame' = WithIdentifier(frame, id)
setDlc(d) == frame' = WithDlc(frame, d)
setDataSize(size) == frame' = WithDataSize(frame, size)
setBitrateSwitch(on) == frame' = WithSwitch(frame, on)

(* The error state indicator is written whatever the format. *)
setErrorStateIndicator(on) ==
  frame' = [frame EXCEPT !.ctrl = IF on THEN @ \cup {"ESI"} ELSE @ \ {"ESI"}]

setRemote(on) ==
  /\ ~IsFd(frame)
  /\ frame' = [frame EXCEPT !.ctrl = IF on THEN @ \cup {"RTR"} ELSE @ \ {"RTR"}]

setData(pos, value) ==
  /\ pos < dataSize(frame)
  /\ frame' = [frame EXCEPT !.bytes[pos] = value]

(* A word is the sequence of its bytes, the most significant one first.      *)
setDataUInt16(pos, word, msbFirst) == frame' = WithWord(frame, pos, word, msbFirst)
setDataUInt32(pos, word, msbFirst) == frame' = WithWord(frame, pos, word, msbFirst)

(* The state the two counters stand for: the later test wins. *)
StateOf(rcv, trm) ==
  CASE trm = BusOffLimit -> eCAN_STATE_BUS_OFF
    [] trm # BusOffLimit /\ (rcv >= PassiveLimit \/ trm >= PassiveLimit) -> eCAN_STATE_BUS_PASSIVE
    [] rcv < WarningLimit /\ trm < WarningLimit -> eCAN_STATE_BUS_ACTIVE
    [] OTHER -> eCAN_STATE_BUS_WARN

setErrorCounterReceive(count) ==
  /\ frame.id.error
  /\ frame' = [frame EXCEPT !.bytes[2] = count,
                            !.bytes[0] = StateOf(count, frame.bytes[3])]

setErrorCounterTransmit(count) ==
  /\ frame.id.error
  /\ frame' = [frame EXCEPT !.bytes[3] = count,
                            !.bytes[0] = StateOf(frame.bytes[2], count)]

setErrorState(state) == frame.id.error /\ frame' = [frame EXCEPT !.bytes[0] = state]
setErrorType(type) == frame.id.error /\ frame' = [frame EXCEPT !.bytes[1] = type]

FrameInit == frame = New

FrameNext(Counters, Sizes) ==
  \/ \E format \in Formats : setFrameFormat(format)
  \/ \E type \in {"DATA", "ERROR", "UNKNOWN"} : setFrameType(type)
  \/ \E id \in Identifiers : setIdentifier(id)
  \/ \E d \in Dlcs : setDlc(d)
  \/ \E size \in Sizes : setDataSize(size)
  \/ \E on \in BOOLEAN :
       setBitrateSwitch(on) \/ setErrorStateIndicator(on) \/ setRemote(on)
  \/ \E pos \in Positions, value \in Byte : setData(pos, value)
  \/ \E pos \in 0 .. 2, word \in Byte \X Byte, msbFirst \in BOOLEAN :
       setDataUInt16(pos, word, msbFirst)
  \/ \E word \in Byte \X Byte \X Byte \X Byte, msbFirst \in BOOLEAN :
       setDataUInt32(0, word, msbFirst)
  \/ \E count \in Counters : setErrorCounterReceive(count) \/ setErrorCounterTransmit(count)
  \/ setErrorState(eCAN_STATE_STOPPED)
  \/ \E type \in Byte : setErrorType(type)
================================================================================
