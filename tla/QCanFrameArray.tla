---------------------------- MODULE QCanFrameArray -----------------------------
(* The byte array that CAN sockets and networks exchange (qcan_frame.cpp,    *)
(* qcan_timestamp.cpp): every member of a frame has its place in it.  Of the *)
(* four bytes of the identifier, those in the middle hold nothing that the   *)
(* outer ones do not; user field and marker are left out.                    *)
EXTENDS QCanFrame, QCanTimeStamp, TLC

CONSTANT Base    \* 2^8, the values of a byte of a 32-bit field

ASSUME BaseAssumption == Base \in Nat \ {0, 1} /\ Base * Base * Base * Base = Width

QCAN_FRAME_TIME_STAMP_POS == 70
EndMark == "CA 01"

(* The byte k of a 32-bit field, MSB first.                                  *)
Weight == <<Base * Base * Base, Base * Base, Base, 1>>
Octet(value, k) == (value \div Weight[k + 1]) % Base
FromOctets(array, at) ==
  ((array[at] * Base + array[at + 1]) * Base + array[at + 2]) * Base + array[at + 3]

(* toByteArray() of a time stamp: from the last byte of a field to its first *)
TimeToByteArray(time) ==
  [pos \in 0 .. 7 |-> IF pos < 4 THEN Octet(time.secs, pos) ELSE Octet(time.nanos, pos - 4)]

(* toByteArray() of a frame with its time stamp. *)
toByteArray(f, time) ==
  [pos \in {0, 3, 4, 5, 94} \cup {6 + p : p \in Positions} \cup 70 .. 77 |->
     CASE pos = 0 -> [error |-> f.id.error, high |-> f.id.high]
       [] pos = 3 -> f.id.low
       [] pos = 4 -> f.dlc
       [] pos = 5 -> f.ctrl
       [] pos \in 6 .. 69 -> f.bytes[pos - 6]
       [] pos \in 70 .. 73 -> Octet(time.secs, pos - 70)
       [] pos \in 74 .. 77 -> Octet(time.nanos, pos - 74)
       [] pos = 94 -> EndMark]

(* fromByteArray() replaces the frame as a whole, or leaves it as it is.     *)
fromByteArray(f, array) ==
  IF array[94] = EndMark
  THEN [id |-> [low |-> array[3], high |-> array[0].high, error |-> array[0].error],
        dlc |-> array[4], ctrl |-> array[5],
        bytes |-> [pos \in Positions |-> array[6 + pos]]]
  ELSE f
TimeFromByteArray(array) == Stamp(FromOctets(array, 70), FromOctets(array, 74))

(* What handleCanFrame() of a network does to an array that passes: it may   *)
(* replace the time stamp by its own.                                        *)
LocalTime(array, now) ==
  [pos \in DOMAIN array |->
     IF pos \in QCAN_FRAME_TIME_STAMP_POS .. QCAN_FRAME_TIME_STAMP_POS + 7
     THEN TimeToByteArray(now)[pos - QCAN_FRAME_TIME_STAMP_POS] ELSE array[pos]]

(* A frame comes out of a socket as it was written into another one,         *)
(* whatever the object held that receives it, with the time of the sender or *)
(* that of the network (qcan_frame.hpp: toByteArray(), fromByteArray()).     *)
WireKeeps(f, target, time, now) ==
  LET array == toByteArray(f, time)
  IN /\ fromByteArray(target, array) = f /\ TimeFromByteArray(array) = time
     /\ fromByteArray(target, LocalTime(array, now)) = f
     /\ TimeFromByteArray(LocalTime(array, now)) = now
================================================================================
