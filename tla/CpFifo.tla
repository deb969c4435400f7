------------------------------- MODULE CpFifo --------------------------------
(***************************************************************************)
(* The CAN frame FIFO of the CANpie API (canpie-fd/cp_fifo.c) with one     *)
(* writer and one reader, each running the call sequence cp_fifo.h         *)
(* prescribes, interleaved at the level of single memory accesses:         *)
(*                                                                         *)
(*   writer: CpFifoIsFull, CpFifoDataInPtr, memcpy, CpFifoIncIn            *)
(*   reader: CpFifoIsEmpty, CpFifoDataOutPtr, memcpy, CpFifoIncOut         *)
(*                                                                         *)
(* The writer is a driver's receive routine, the reader the application    *)
(* (or the other way round).  Three switches name the situations in which  *)
(* the repository uses the FIFO.                                           *)
(***************************************************************************)
EXTENDS Integers, Sequences

CONSTANTS
  Size,        \* ulSizeV of CpFifoInit
  CounterMod,  \* 2^32, the number of values of uint32_t ulElements
  Frame,       \* the CAN frames
  NoFrame,     \* content of an entry that is not written or only in part
  Atomic,      \* CPP_HAS_ATOMIC (mc_compiler.h)
  Preemptive,  \* TRUE: interrupt or thread; FALSE: both in one event loop
  DropOldest   \* TRUE: handleCanFrame of the QCan driver, which makes room

ASSUME SizeAssumption == Size \in Nat \ {0}
ASSUME ModAssumption == CounterMod \in Nat /\ Size < CounterMod
ASSUME FrameAssumption == NoFrame \notin Frame
ASSUME SwitchAssumption == /\ Atomic \in BOOLEAN
                           /\ Preemptive \in BOOLEAN
                           /\ DropOldest \in BOOLEAN

VARIABLES
  ulIndexIn,   \* CpFifo_s
  ulIndexOut,
  ulElements,
  ptsCanMsg,   \* the array of frames
  pcIn,        \* next access of the writer
  msgIn,       \* the frame being stored
  cntIn,       \* ulElements as the writer loaded it (without atomics)
  pcOut,       \* next access of the reader
  msgOut,      \* the frame as far as it is copied out
  cntOut,      \* ulElements as the reader loaded it (without atomics)
  got,         \* the frame the last completed read handed out
  call         \* history: the call that took effect last

ring == <<ulIndexIn, ulIndexOut, ulElements, ptsCanMsg>>
writer == <<pcIn, msgIn, cntIn>>
reader == <<pcOut, msgOut, cntOut, got>>
vars == <<ring, writer, reader, call>>

ulIndexMax == Size - 1
Index == 0 .. ulIndexMax
Counter == 0 .. CounterMod - 1

(***************************************************************************)
(* Arithmetic of the indices and of the unsigned element counter.          *)
(***************************************************************************)
NextIndex(i) == IF i + 1 > ulIndexMax THEN 0 ELSE i + 1
Increment(n) == IF n = CounterMod - 1 THEN 0 ELSE n + 1
Decrement(n) == IF n = 0 THEN CounterMod - 1 ELSE n - 1

CpFifoIsEmpty == ulElements = 0

(* Mutant: full is reported one frame late. *)
CpFifoIsFullLate == ulElements = ulIndexMax + 2

CpFifoIsFull == ulElements = ulIndexMax + 1

(***************************************************************************)
(* In an event loop a call sequence starts when the other one is complete. *)
(***************************************************************************)
MayStart(other) == Preemptive \/ other = "idle"

------------------------------------------------------------------------------
(* CpFifoInit, called before the FIFO is handed to anybody.                *)
Init ==
  /\ ulIndexIn = 0 /\ ulIndexOut = 0 /\ ulElements = 0
  /\ ptsCanMsg = [i \in Index |-> NoFrame]
  /\ pcIn = "idle" /\ msgIn = NoFrame /\ cntIn = 0
  /\ pcOut = "idle" /\ msgOut = NoFrame /\ cntOut = 0
  /\ got = NoFrame
  /\ call = "init"

(***************************************************************************)
(* The writer.  A full FIFO is left alone, or its oldest entry is dropped  *)
(* by a CpFifoIncOut of the writer.                                        *)
(***************************************************************************)
StartWrite(f) ==
  /\ pcIn = "idle" /\ MayStart(pcOut)
  /\ \/ ~CpFifoIsFull /\ pcIn' = "copy"
     \/ CpFifoIsFull /\ DropOldest /\ pcIn' = "dropIndex"
  /\ msgIn' = f
  /\ UNCHANGED <<ring, cntIn, reader, call>>

DropIndex ==
  /\ pcIn = "dropIndex"
  /\ ulIndexOut' = NextIndex(ulIndexOut)
  /\ pcIn' = "dropCount"
  /\ UNCHANGED <<ulIndexIn, ulElements, ptsCanMsg, msgIn, cntIn, reader, call>>

DropLoad ==
  /\ pcIn = "dropCount" /\ ~Atomic
  /\ cntIn' = ulElements
  /\ pcIn' = "dropStore"
  /\ UNCHANGED <<ring, msgIn, reader, call>>

(* Mutant: the counter is not corrected when the oldest frame is dropped. *)
DropUncounted ==
  /\ pcIn \in {"dropCount", "dropStore"}
  /\ pcIn' = "copy"
  /\ call' = "drop"
  /\ UNCHANGED <<ring, msgIn, cntIn, reader>>

DropCount ==
  /\ \/ pcIn = "dropCount" /\ Atomic /\ ulElements' = Decrement(ulElements)
     \/ pcIn = "dropStore" /\ ulElements' = Decrement(cntIn)
  /\ pcIn' = "copy"
  /\ call' = "drop"
  /\ UNCHANGED <<ulIndexIn, ulIndexOut, ptsCanMsg, msgIn, cntIn, reader>>

(* memcpy into CpFifoDataInPtr(): the entry is mixed until it is complete. *)
CopyIn ==
  /\ pcIn = "copy"
  /\ ptsCanMsg' = [ptsCanMsg EXCEPT ![ulIndexIn] = NoFrame]
  /\ pcIn' = "copying"
  /\ UNCHANGED <<ulIndexIn, ulIndexOut, ulElements, msgIn, cntIn, reader, call>>

CopyInDone ==
  /\ pcIn = "copying"
  /\ ptsCanMsg' = [ptsCanMsg EXCEPT ![ulIndexIn] = msgIn]
  /\ pcIn' = "inIndex"
  /\ UNCHANGED <<ulIndexIn, ulIndexOut, ulElements, msgIn, cntIn, reader, call>>

(* CpFifoIncIn: first the index, then the counter. *)
IncInIndex ==
  /\ pcIn = "inIndex"
  /\ ulIndexIn' = NextIndex(ulIndexIn)
  /\ pcIn' = "inCount"
  /\ UNCHANGED <<ulIndexOut, ulElements, ptsCanMsg, msgIn, cntIn, reader, call>>

IncInLoad ==
  /\ pcIn = "inCount" /\ ~Atomic
  /\ cntIn' = ulElements
  /\ pcIn' = "inStore"
  /\ UNCHANGED <<ring, msgIn, reader, call>>

IncInCount ==
  /\ \/ pcIn = "inCount" /\ Atomic /\ ulElements' = Increment(ulElements)
     \/ pcIn = "inStore" /\ ulElements' = Increment(cntIn)
  /\ pcIn' = "idle"
  /\ call' = "put"
  /\ UNCHANGED <<ulIndexIn, ulIndexOut, ptsCanMsg, msgIn, cntIn, reader>>

(***************************************************************************)
(* The reader.                                                             *)
(***************************************************************************)
StartRead ==
  /\ pcOut = "idle" /\ MayStart(pcIn)
  /\ ~CpFifoIsEmpty
  /\ pcOut' = "read"
  /\ UNCHANGED <<ring, writer, msgOut, cntOut, got, call>>

(* Mutant: the frame is read from CpFifoDataInPtr(). *)
CopyOutFromIn ==
  /\ pcOut = "read"
  /\ msgOut' = ptsCanMsg[ulIndexIn]
  /\ pcOut' = "reading"
  /\ UNCHANGED <<ring, writer, cntOut, got, call>>

(* memcpy from CpFifoDataOutPtr(): mixed if the entry changes underneath.  *)
CopyOut ==
  /\ pcOut = "read"
  /\ msgOut' = ptsCanMsg[ulIndexOut]
  /\ pcOut' = "reading"
  /\ UNCHANGED <<ring, writer, cntOut, got, call>>

CopyOutDone ==
  /\ pcOut = "reading"
  /\ msgOut' = IF msgOut = ptsCanMsg[ulIndexOut] THEN msgOut ELSE NoFrame
  /\ pcOut' = "outIndex"
  /\ UNCHANGED <<ring, writer, cntOut, got, call>>

(* CpFifoIncOut: first the index, then the counter. *)
IncOutIndex ==
  /\ pcOut = "outIndex"
  /\ ulIndexOut' = NextIndex(ulIndexOut)
  /\ pcOut' = "outCount"
  /\ UNCHANGED <<ulIndexIn, ulElements, ptsCanMsg, writer, msgOut, cntOut, got, call>>

IncOutLoad ==
  /\ pcOut = "outCount" /\ ~Atomic
  /\ cntOut' = ulElements
  /\ pcOut' = "outStore"
  /\ UNCHANGED <<ring, writer, msgOut, got, call>>

IncOutCount ==
  /\ \/ pcOut = "outCount" /\ Atomic /\ ulElements' = Decrement(ulElements)
     \/ pcOut = "outStore" /\ ulElements' = Decrement(cntOut)
  /\ pcOut' = "idle"
  /\ got' = msgOut
  /\ call' = "get"
  /\ UNCHANGED <<ulIndexIn, ulIndexOut, ptsCanMsg, writer, msgOut, cntOut>>

(***************************************************************************)
(* CpFifoClear uses atomic_init, which C11 does not allow while anybody    *)
(* else uses the counter: both contexts are outside of their sequences.    *)
(***************************************************************************)
CpFifoClear ==
  /\ pcIn = "idle" /\ pcOut = "idle"
  /\ ulIndexIn' = 0 /\ ulIndexOut' = 0 /\ ulElements' = 0
  /\ call' = "clear"
  /\ UNCHANGED <<ptsCanMsg, writer, reader>>

(***************************************************************************)
(* CpFifoCopy into this FIFO, from one of the same size that is not in use *)
(* either and holds n frames from index out on.                            *)
(***************************************************************************)
Wrap(i) == IF i > ulIndexMax THEN i - Size ELSE i

CpFifoCopy ==
  /\ pcIn = "idle" /\ pcOut = "idle"
  /\ \E out \in Index, n \in 0 .. Size, content \in [Index -> Frame \cup {NoFrame}] :
       /\ \A i \in Index : i < n => content[Wrap(out + i)] \in Frame
       /\ ulIndexIn' = Wrap(out + n) /\ ulIndexOut' = out /\ ulElements' = n
       /\ ptsCanMsg' = content
  /\ call' = "copy"
  /\ UNCHANGED <<writer, reader>>

------------------------------------------------------------------------------
Write == \/ \E f \in Frame : StartWrite(f)
         \/ DropIndex \/ DropLoad \/ DropCount
         \/ CopyIn \/ CopyInDone \/ IncInIndex \/ IncInLoad \/ IncInCount

Read == \/ StartRead \/ CopyOut \/ CopyOutDone
        \/ IncOutIndex \/ IncOutLoad \/ IncOutCount

Next == Write \/ Read \/ CpFifoClear \/ CpFifoCopy

Spec == Init /\ [][Next]_vars

------------------------------------------------------------------------------
(***************************************************************************)
(* Properties.  A writer between the two halves of CpFifoIncIn has moved   *)
(* ulIndexIn but not yet counted the frame; a context between the two      *)
(* halves of CpFifoIncOut has moved ulIndexOut but not yet uncounted it.   *)
(* CountedIn and CountedOut are the indices the counter speaks about.      *)
(***************************************************************************)
PrevIndex(i) == IF i = 0 THEN ulIndexMax ELSE i - 1

CountedIn == IF pcIn \in {"inCount", "inStore"} THEN PrevIndex(ulIndexIn) ELSE ulIndexIn
CountedOut == IF pcOut \in {"outCount", "outStore"} \/ pcIn \in {"dropCount", "dropStore"}
              THEN PrevIndex(ulIndexOut) ELSE ulIndexOut

(* The types of the variables; the indices stay inside the array.          *)
TypeOK ==
  /\ ulIndexIn \in Index /\ ulIndexOut \in Index /\ ulElements \in Counter
  /\ ptsCanMsg \in [Index -> Frame \cup {NoFrame}]
  /\ pcIn \in {"idle", "dropIndex", "dropCount", "dropStore", "copy", "copying",
               "inIndex", "inCount", "inStore"}
  /\ pcOut \in {"idle", "read", "reading", "outIndex", "outCount", "outStore"}
  /\ msgIn \in Frame \cup {NoFrame} /\ msgOut \in Frame \cup {NoFrame}
  /\ cntIn \in Counter /\ cntOut \in Counter
  /\ got \in Frame \cup {NoFrame}
  /\ call \in {"init", "put", "get", "drop", "clear", "copy"}

(* ulElements, which alone decides between full and empty, always agrees   *)
(* with the distance of the two indices, which are kept apart from it:     *)
(* CpFifoPending() + CpFifoFree() is the size of the array.                *)
CountMatchesIndices ==
  /\ ulElements <= Size
  /\ CountedIn = Wrap(CountedOut + ulElements)

(* The two contexts never have the same entry of the array in their hands  *)
(* at the same time: what CpFifoDataOutPtr() returned is not overwritten   *)
(* before the reader has called CpFifoIncOut().                            *)
NoSharedEntry ==
  ~ /\ pcIn \in {"copying", "inIndex"}
    /\ pcOut \in {"reading", "outIndex"}
    /\ ulIndexIn = ulIndexOut

(***************************************************************************)
(* The situations the FIFO is built for: both contexts in one event loop,  *)
(* or truly concurrent ones with an atomic counter and a writer that never *)
(* touches the reader's index.                                             *)
(***************************************************************************)
Discipline == ~Preemptive \/ (Atomic /\ ~DropOldest)

(* What each context may rely on between its accesses.                     *)
WriterInv ==
  /\ pcIn # "idle" => msgIn \in Frame
  /\ pcIn \in {"dropIndex", "dropCount", "dropStore"} => DropOldest /\ ulElements = Size
  /\ pcIn \in {"copy", "copying", "inIndex", "inCount", "inStore"} => ulElements < Size
  /\ pcIn \in {"dropStore", "inStore"} => ~Atomic /\ cntIn = ulElements
  /\ pcIn \in {"inIndex", "inCount", "inStore"} => ptsCanMsg[CountedIn] = msgIn

ReaderInv ==
  /\ pcOut # "idle" => ulElements > 0
  /\ pcOut = "outStore" => ~Atomic /\ cntOut = ulElements
  /\ pcOut \in {"reading", "outIndex", "outCount", "outStore"} => msgOut = ptsCanMsg[CountedOut]

(* Everything counted is a complete frame.                                 *)
ContentInv == \A i \in Index : i < ulElements => ptsCanMsg[Wrap(CountedOut + i)] \in Frame

(* The inductive invariant of CpFifoProofs: a counted entry is complete,   *)
(* an entry being written is not counted yet, and in an event loop at most *)
(* one context is inside its call sequence.                                *)
FifoInv ==
  /\ TypeOK
  /\ ~Preemptive => pcIn = "idle" \/ pcOut = "idle"
  /\ WriterInv
  /\ ReaderInv
  /\ CountMatchesIndices
  /\ ContentInv

(* The frames that wait, oldest first.                                     *)
Pending == [i \in 1 .. ulElements |-> ptsCanMsg[Wrap(CountedOut + i - 1)]]

(* The ring implements the bounded queue: every frame comes out whole,     *)
(* once and in order, whatever the interleaving; only handleCanFrame's     *)
(* overwriting may lose a frame, the oldest one of a full FIFO.            *)
Queue == INSTANCE FrameFifo WITH queue <- Pending, Capacity <- Size
ImplementsFrameFifo == Queue!Spec
==============================================================================
