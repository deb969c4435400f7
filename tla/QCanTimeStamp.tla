----------------------------- MODULE QCanTimeStamp -----------------------------
(* One QCanTimeStamp object (qcan_timestamp.cpp): seconds and nano-seconds    *)
(* in unsigned 32-bit fields, both 0xFFFFFFEE when a result is out of range.  *)
(* The units are CONSTANTS, so that the limits of the code keep their order   *)
(* while the fields are a few bits wide.                                      *)
EXTENDS Integers

CONSTANTS
  SecsLimit,      \* TIME_STAMP_SECS_LIMIT
  NanoPerSec,     \* TIME_STAMP_NSEC_LIMIT + 1
  NanoPerMicro, NanoPerMilli,
  Invalid,        \* TIME_STAMP_INVALID_VALUE
  Width,          \* 2^32
  MaxSeconds,     \* bound: the counts that are converted are below these seconds
  CheckedUse      \* the program tests isValid() before it goes on with a result

ASSUME UnitsAssumption ==
  /\ {SecsLimit, Invalid, MaxSeconds} \subseteq Nat
  /\ {NanoPerSec, NanoPerMicro, NanoPerMilli, Width} \subseteq Nat \ {0}
  /\ SecsLimit < Invalid /\ NanoPerSec <= Invalid /\ Invalid < Width
  /\ 2 * NanoPerSec <= Width
  /\ NanoPerSec % NanoPerMicro = 0 /\ NanoPerSec % NanoPerMilli = 0

VARIABLES
  stamp,
  exact           \* the time a reader of the program expects, in nano-seconds

stampVars == <<stamp, exact>>

Out == -1         \* exact: the true result has no time stamp
LastTime == SecsLimit * NanoPerSec + (NanoPerSec - 1)

Value(t) == t.secs * NanoPerSec + t.nanos
isValid(t) == t.secs <= SecsLimit /\ t.nanos < NanoPerSec

setSeconds(s) == IF s <= SecsLimit THEN s ELSE SecsLimit
setNanoSeconds(n) == IF n < NanoPerSec THEN n ELSE NanoPerSec - 1
Stamp(s, n) == [secs |-> setSeconds(s), nanos |-> setNanoSeconds(n)]

InvalidStamp == [secs |-> Invalid, nanos |-> Invalid]

(* operator<, operator== and what is built from them *)
Less(t, other) ==
  t.secs < other.secs \/ (t.secs = other.secs /\ t.nanos < other.nanos)
LessEqual(t, other) == t = other \/ Less(t, other)
Greater(t, other) == ~Less(t, other) /\ t # other
GreaterEqual(t, other) == t = other \/ ~Less(t, other)

(* operator+=: the nano-seconds in 32 bits, the seconds in 64. *)
NoCarry(t, other) ==
  LET nanos == (t.nanos + other.nanos) % Width
      secs == t.secs + other.secs
  IN IF secs > SecsLimit THEN InvalidStamp ELSE Stamp(secs, nanos)
Plus(t, other) ==
  LET nanos == (t.nanos + other.nanos) % Width
      carry == nanos >= NanoPerSec
      secs == t.secs + other.secs + (IF carry THEN 1 ELSE 0)
  IN IF secs > SecsLimit THEN InvalidStamp
     ELSE Stamp(secs, IF carry THEN nanos - NanoPerSec ELSE nanos)

(* operator-=: the borrow is taken in 32 bits and nothing is clamped. *)
Minus(t, other) ==
  LET borrow == t.nanos < other.nanos
  IN IF Less(t, other) THEN InvalidStamp
     ELSE [secs |-> (t.secs - other.secs - (IF borrow THEN 1 ELSE 0)) % Width,
           nanos |-> (t.nanos + (IF borrow THEN NanoPerSec ELSE 0) - other.nanos) % Width]

(* fromMicroSeconds() and fromMilliSeconds(): the seconds are cut to 32 bits, *)
(* the rest is taken in the width of unsigned long and cut to 32 bits.        *)
FromUnits(count, nanoPerUnit) ==
  LET perSec == NanoPerSec \div nanoPerUnit
      secs == (count \div perSec) % Width
      rest == count - ((secs * perSec) % Width)
  IN [secs |-> secs, nanos |-> (rest * nanoPerUnit) % Width]

--------------------------------------------------------------------------------
Result(value) == IF value < 0 \/ value > LastTime THEN Out ELSE value

(* The time of a counter, which starts again after 2^32 seconds.              *)
CounterTime(count, nanoPerUnit) ==
  (count % (Width * (NanoPerSec \div nanoPerUnit))) * nanoPerUnit

Valid == [secs : 0..SecsLimit, nanos : 0..(NanoPerSec - 1)]

Usable == CheckedUse => isValid(stamp)

clear == stamp' = [secs |-> 0, nanos |-> 0] /\ exact' = 0

Construct(t) == stamp' = Stamp(t.secs, t.nanos) /\ exact' = Value(t)

fromMicroSeconds(count) ==
  stamp' = FromUnits(count, NanoPerMicro) /\ exact' = CounterTime(count, NanoPerMicro)
fromMilliSeconds(count) ==
  stamp' = FromUnits(count, NanoPerMilli) /\ exact' = CounterTime(count, NanoPerMilli)

Add(t) ==
  /\ Usable
  /\ stamp' = Plus(stamp, t)
  /\ exact' = IF exact = Out THEN Out ELSE Result(exact + Value(t))

Subtract(t) ==
  /\ Usable
  /\ stamp' = Minus(stamp, t)
  /\ exact' = IF exact = Out THEN Out ELSE Result(exact - Value(t))

(* The stamp of a frame goes through toByteArray() and fromByteArray(). *)
Transfer ==
  /\ Usable
  /\ stamp' = Stamp(stamp.secs, stamp.nanos)
  /\ UNCHANGED exact

StampInit == stamp = [secs |-> 0, nanos |-> 0] /\ exact = 0

StampNext ==
  \/ clear
  \/ \E t \in Valid : Construct(t) \/ Add(t) \/ Subtract(t)
  \/ \E count \in 0..(MaxSeconds * (NanoPerSec \div NanoPerMicro) - 1) :
       fromMicroSeconds(count)
  \/ \E count \in 0..(MaxSeconds * (NanoPerSec \div NanoPerMilli) - 1) :
       fromMilliSeconds(count)
  \/ Transfer

(* As long as the program tests each result, the time stamp is the exact sum  *)
(* of what went into it whenever that sum is in range, it is invalid whenever *)
(* it is not, and the comparison operators order it as the exact time         *)
(* (qcan_timestamp.hpp: TIME_STAMP_INVALID_VALUE marks an invalid one).  What *)
(* goes in by a count is its time modulo 2^32 seconds (CounterTime): the code *)
(* cuts the seconds to 32 bits, so a count of 2^32 seconds or more, which is  *)
(* out of range as well, is not recognised but gives the time that is left.   *)
StampIsExact ==
  IF exact \in 0..LastTime
  THEN /\ isValid(stamp) /\ Value(stamp) = exact
       /\ \A t \in Valid :
            /\ Less(stamp, t) <=> exact < Value(t)
            /\ LessEqual(stamp, t) <=> exact <= Value(t)
            /\ Greater(stamp, t) <=> exact > Value(t)
            /\ GreaterEqual(stamp, t) <=> exact >= Value(t)
  ELSE ~isValid(stamp)
================================================================================
