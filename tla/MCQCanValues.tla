----------------------------- MODULE MCQCanValues ------------------------------
(* The value classes, each by itself: kind says which one a behaviour is     *)
(* about.  The variables of the others keep the value Idle.                  *)
EXTENDS QCanFrameArray

CONSTANTS
  Counters, Sizes,
  Std, Ext, IdMax, MaxFilters, CheckedFilter

ASSUME ValuesAssumption ==
  /\ IdMax \in Nat /\ MaxFilters \in Nat /\ Sizes \subseteq Nat
  /\ 1 <= SecsLimit /\ NanoPerMicro < NanoPerSec

VARIABLES kind, filter, list, rules

MCMaxOf == (Std :> IdMax - 1) @@ (Ext :> IdMax)

L == INSTANCE QCanFilterList WITH Formats <- {Std, Ext}, MaxOf <- MCMaxOf

filterVars == <<filter, list, rules>>
Idle == 0
StampIdle == stamp = Idle /\ exact = Idle
FilterIdle == filter = Idle /\ list = Idle /\ rules = Idle

MCInit ==
  \/ kind = "message" /\ Init /\ frame = Idle /\ StampIdle /\ FilterIdle
  \/ kind = "frame" /\ FrameInit /\ msg = Idle /\ StampIdle /\ FilterIdle
  \/ kind = "stamp" /\ StampInit /\ msg = Idle /\ frame = Idle /\ FilterIdle
  \/ kind = "filter" /\ L!FilterInit /\ msg = Idle /\ frame = Idle /\ StampIdle

MCNext ==
  /\ UNCHANGED kind
  /\ \/ kind = "message" /\ Next /\ UNCHANGED <<frame, stampVars, filterVars>>
     \/ kind = "frame" /\ FrameNext(Counters, Sizes)
                       /\ UNCHANGED <<msg, stampVars, filterVars>>
     \/ kind = "stamp" /\ StampNext /\ UNCHANGED <<msg, frame, filterVars>>
     \/ kind = "filter" /\ L!FilterNext /\ UNCHANGED <<msg, frame, stampVars>>

MCvars == <<kind, msg, frame, stampVars, filterVars>>
MCSpec == MCInit /\ [][MCNext]_MCvars

(* Frames a conversion may find in its target.                               *)
Targets ==
  LET remote == [WithIdentifier(WithDlc(New, 8), [low |-> 1, high |-> 0])
                   EXCEPT !.ctrl = @ \cup {"RTR"}]
      wide == [New EXCEPT !.ctrl = {"EXT", "FDF", "BRS", "ESI"}, !.dlc = 15]
  IN {New, remote, wide, WithType(New, "ERROR")}

(* A frame that goes through a CpCanMsg_ts structure, and a message that     *)
(* goes through a QCanFrame object, keep their format, identifier, bit-rate  *)
(* switch, DLC and data, whatever the target of the conversion held before   *)
(* (qcan_frame.hpp: toCpCanMsg(), fromCpCanMsg()).  Through the byte array   *)
(* of the sockets, a frame keeps everything; and a word that was written to  *)
(* its data is read back in either order.                                    *)
SomeTime == [secs |-> SecsLimit, nanos |-> NanoPerSec - 1]
OtherTime == [secs |-> 1, nanos |-> NanoPerMicro]
Words(size) == {[k \in 1 .. size |-> IF k = at THEN 1 ELSE 0] : at \in 1 .. size}
WordKept(pos, word, msbFirst) ==
  Word(WithWord(frame, pos, word, msbFirst), pos, Len(word), msbFirst)
    = IF Len(word) + pos <= dataSize(frame) THEN word ELSE [k \in DOMAIN word |-> 0]
ConversionsKeep ==
  /\ kind = "frame" =>
       /\ \A target \in Targets :
            /\ FrameSeen(fromCpCanMsg(target, toCpCanMsg(frame, Cleared))) = FrameSeen(frame)
            /\ WireKeeps(frame, target, SomeTime, OtherTime)
       /\ \A msbFirst \in BOOLEAN :
            /\ \A pos \in 0 .. 2, word \in Words(2) : WordKept(pos, word, msbFirst)
            /\ \A word \in Words(4) : WordKept(0, word, msbFirst)
  /\ kind = "message" /\ ~CpMsgIsRpc(msg) => \A target \in Targets :
       MsgSeen(toCpCanMsg(fromCpCanMsg(target, msg), Cleared)) = MsgSeen(msg)

(* StampIsExact of QCanTimeStamp, for the behaviours that have a time stamp. *)
TimeIsExact == kind = "stamp" => StampIsExact

(* QCanFilterList!FilterDecides *)
FilterDecides == kind = "filter" => L!FilterDecides

(* A remote frame is still a remote frame after it went through a            *)
(* CpCanMsg_ts structure (qcan_frame.hpp: fromCpCanMsg()).                   *)
RemoteKept ==
  kind = "frame" => isRemote(fromCpCanMsg(New, toCpCanMsg(frame, Cleared))) = isRemote(frame)
================================================================================
