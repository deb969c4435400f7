---------------------------- MODULE CpFifoProofs -----------------------------
(***************************************************************************)
(* Proofs about CpFifo for every array size, every set of frames and every *)
(* width of the counter.  Discipline is the hypothesis throughout: without *)
(* it TLC finds interleavings that break CountMatchesIndices.              *)
(***************************************************************************)
EXTENDS CpFifo, SequenceTheorems, TLAPS

USE DEF Index, Counter, ulIndexMax

(* Moving on by one entry and then by i is moving on by i + 1.             *)
LEMMA WrapShift ==
  ASSUME NEW o \in Index, NEW i \in Index, i + 1 \in Index
  PROVE  Wrap(Wrap(o + 1) + i) = Wrap(o + (i + 1))
  BY SizeAssumption DEF Wrap

(* Initially the FIFO is empty and nobody uses it.                         *)
LEMMA InitInv == Init => FifoInv
  BY SizeAssumption, ModAssumption
  DEF Init, FifoInv, TypeOK, WriterInv, ReaderInv, CountMatchesIndices, ContentInv,
      CountedIn, CountedOut, Wrap

(* No access of the writer breaks the invariant.                           *)
LEMMA WriterStep ==
  ASSUME FifoInv, Discipline, Write
  PROVE  FifoInv'
  <1> USE SizeAssumption, ModAssumption, FrameAssumption, SwitchAssumption
      DEF FifoInv, TypeOK, WriterInv, ReaderInv, CountMatchesIndices, ContentInv,
          CountedIn, CountedOut, Wrap, PrevIndex, Discipline, ring, writer, reader
  <1>1. ASSUME NEW f \in Frame, StartWrite(f) PROVE FifoInv'
    <2>1. TypeOK' BY <1>1 DEF StartWrite
    <2>2. (~Preemptive => pcIn = "idle" \/ pcOut = "idle")' BY <1>1 DEF StartWrite, MayStart
    <2>3. WriterInv' BY <1>1 DEF StartWrite, CpFifoIsFull
    <2>4. ReaderInv' BY <1>1 DEF StartWrite
    <2>5. CountMatchesIndices' BY <1>1 DEF StartWrite
    <2>6. ContentInv' BY <1>1 DEF StartWrite
    <2>7. QED BY <2>1, <2>2, <2>3, <2>4, <2>5, <2>6
  <1>2. CASE DropIndex
    <2>1. TypeOK' BY <1>2 DEF DropIndex, NextIndex
    <2>2. (~Preemptive => pcIn = "idle" \/ pcOut = "idle")' BY <1>2 DEF DropIndex
    <2>3. WriterInv' BY <1>2 DEF DropIndex
    <2>4. ReaderInv' BY <1>2 DEF DropIndex
    <2>5. CountMatchesIndices' BY <1>2 DEF DropIndex, NextIndex
    <2>6. ContentInv'
      <3>1. CountedOut' = CountedOut BY <1>2 DEF DropIndex, NextIndex
      <3>2. QED BY <1>2, <3>1 DEF DropIndex
    <2>7. QED BY <2>1, <2>2, <2>3, <2>4, <2>5, <2>6
  <1>3. CASE DropLoad
    BY <1>3 DEF DropLoad
  <1>4. CASE DropCount
    <2>1. TypeOK' BY <1>4 DEF DropCount, Decrement
    <2>2. (~Preemptive => pcIn = "idle" \/ pcOut = "idle")' BY <1>4 DEF DropCount
    <2>3. WriterInv' BY <1>4 DEF DropCount, Decrement
    <2>4. ReaderInv' BY <1>4 DEF DropCount, Decrement
    <2>5. CountMatchesIndices' BY <1>4 DEF DropCount, Decrement
    <2>6. ContentInv'
      <3>1. ulElements' = ulElements - 1 /\ ulElements > 0 /\ ulIndexOut' = ulIndexOut
            /\ ptsCanMsg' = ptsCanMsg
        BY <1>4 DEF DropCount, Decrement
      <3>2. CountedOut' = Wrap(CountedOut + 1)
        BY <1>4 DEF DropCount
      <3>3. SUFFICES ASSUME NEW i \in Index, i < ulElements'
                     PROVE  ptsCanMsg[Wrap(CountedOut' + i)] \in Frame
        BY <3>1
      <3>4. i + 1 \in Index /\ i + 1 < ulElements
        BY <3>1, <3>3
      <3>5. CountedOut \in Index
        OBVIOUS
      <3>6. Wrap(CountedOut' + i) = Wrap(CountedOut + (i + 1))
        BY <3>2, <3>4, <3>5, WrapShift
      <3>7. QED BY <3>4, <3>6
    <2>7. QED BY <2>1, <2>2, <2>3, <2>4, <2>5, <2>6
  <1>5. CASE CopyIn
    BY <1>5, SMTT(30) DEF CopyIn
  <1>6. CASE CopyInDone
    BY <1>6 DEF CopyInDone
  <1>7. CASE IncInIndex
    BY <1>7 DEF IncInIndex, NextIndex
  <1>8. CASE IncInLoad
    BY <1>8 DEF IncInLoad
  <1>9. CASE IncInCount
    <2>1. TypeOK' BY <1>9 DEF IncInCount, Increment
    <2>2. (~Preemptive => pcIn = "idle" \/ pcOut = "idle")' BY <1>9 DEF IncInCount
    <2>3. WriterInv' BY <1>9 DEF IncInCount, Increment
    <2>4. ReaderInv' BY <1>9 DEF IncInCount, Increment
    <2>5. CountMatchesIndices' BY <1>9 DEF IncInCount, Increment
    <2>6. ContentInv'
      <3>1. ulElements' = ulElements + 1 /\ ulElements < Size /\ ptsCanMsg' = ptsCanMsg
            /\ CountedOut' = CountedOut
        BY <1>9 DEF IncInCount, Increment
      <3>2. SUFFICES ASSUME NEW i \in Index, i < ulElements + 1
                     PROVE  ptsCanMsg[Wrap(CountedOut + i)] \in Frame
        BY <3>1
      <3>3. CASE i < ulElements
        BY <3>3
      <3>4. CASE i = ulElements
        BY <1>9, <3>4 DEF IncInCount
      <3>5. QED BY <3>2, <3>3, <3>4
    <2>7. QED BY <2>1, <2>2, <2>3, <2>4, <2>5, <2>6
  <1>10. QED BY <1>1, <1>2, <1>3, <1>4, <1>5, <1>6, <1>7, <1>8, <1>9 DEF Write

(* No access of the reader breaks the invariant.                           *)
LEMMA ReaderStep ==
  ASSUME FifoInv, Discipline, Read
  PROVE  FifoInv'
  <1> USE SizeAssumption, ModAssumption, FrameAssumption, SwitchAssumption
      DEF FifoInv, TypeOK, WriterInv, ReaderInv, CountMatchesIndices, ContentInv,
          CountedIn, CountedOut, Wrap, PrevIndex, Discipline, ring, writer, reader
  <1>1. CASE StartRead
    BY <1>1 DEF StartRead, MayStart, CpFifoIsEmpty
  <1>2. CASE CopyOut
    BY <1>2 DEF CopyOut
  <1>3. CASE CopyOutDone
    BY <1>3 DEF CopyOutDone
  <1>4. CASE IncOutIndex
    <2>1. CountedOut' = CountedOut /\ CountedIn' = CountedIn
      BY <1>4 DEF IncOutIndex, NextIndex
    <2>2. TypeOK' BY <1>4 DEF IncOutIndex, NextIndex
    <2>3. (~Preemptive => pcIn = "idle" \/ pcOut = "idle")' BY <1>4 DEF IncOutIndex
    <2>4. WriterInv' BY <1>4, <2>1 DEF IncOutIndex
    <2>5. ReaderInv' BY <1>4, <2>1 DEF IncOutIndex
    <2>6. CountMatchesIndices' BY <1>4, <2>1 DEF IncOutIndex
    <2>7. ContentInv' BY <1>4, <2>1 DEF IncOutIndex
    <2>8. QED BY <2>2, <2>3, <2>4, <2>5, <2>6, <2>7
  <1>5. CASE IncOutLoad
    BY <1>5 DEF IncOutLoad
  <1>6. CASE IncOutCount
    <2>1. /\ ulElements' = ulElements - 1 /\ ulElements > 0 /\ ulIndexOut' = ulIndexOut
          /\ ptsCanMsg' = ptsCanMsg
          /\ CountedIn' = CountedIn /\ CountedOut' = Wrap(CountedOut + 1)
      BY <1>6 DEF IncOutCount, Decrement
    <2>2. TypeOK' BY <1>6, <2>1 DEF IncOutCount
    <2>3. (~Preemptive => pcIn = "idle" \/ pcOut = "idle")' BY <1>6 DEF IncOutCount
    <2>4. WriterInv' BY <1>6, <2>1 DEF IncOutCount
    <2>5. ReaderInv' BY <1>6, <2>1 DEF IncOutCount
    <2>6. CountMatchesIndices' BY <1>6, <2>1 DEF IncOutCount
    <2>7. ContentInv'
      <3>1. SUFFICES ASSUME NEW i \in Index, i < ulElements'
                     PROVE  ptsCanMsg[Wrap(CountedOut' + i)] \in Frame
        BY <2>1
      <3>2. i + 1 \in Index /\ i + 1 < ulElements
        BY <2>1, <3>1
      <3>3. CountedOut \in Index
        OBVIOUS
      <3>4. Wrap(CountedOut' + i) = Wrap(CountedOut + (i + 1))
        BY <2>1, <3>2, <3>3, WrapShift
      <3>5. QED BY <3>2, <3>4
    <2>8. QED BY <2>2, <2>3, <2>4, <2>5, <2>6, <2>7
  <1>7. QED BY <1>1, <1>2, <1>3, <1>4, <1>5, <1>6 DEF Read

(* Neither do CpFifoClear and CpFifoCopy.                                  *)
LEMMA ResetStep ==
  ASSUME FifoInv, CpFifoClear \/ CpFifoCopy
  PROVE  FifoInv'
  <1> USE SizeAssumption, ModAssumption
      DEF FifoInv, TypeOK, WriterInv, ReaderInv, CountMatchesIndices, ContentInv,
          CountedIn, CountedOut, Wrap, writer, reader
  <1>1. CASE CpFifoClear
    BY <1>1 DEF CpFifoClear
  <1>2. CASE CpFifoCopy
    BY <1>2 DEF CpFifoCopy
  <1>3. QED BY <1>1, <1>2

(* The inductive invariant, and with it type correctness: the indices stay *)
(* inside the array CpFifoInit was given.                                  *)
THEOREM Invariance ==
  ASSUME Discipline
  PROVE  Spec => []FifoInv
  <1>1. FifoInv /\ [Next]_vars => FifoInv'
    <2> SUFFICES ASSUME FifoInv, [Next]_vars PROVE FifoInv'
      OBVIOUS
    <2>1. CASE Write BY <2>1, WriterStep
    <2>2. CASE Read BY <2>2, ReaderStep
    <2>3. CASE CpFifoClear \/ CpFifoCopy BY <2>3, ResetStep
    <2>4. CASE UNCHANGED vars
      BY <2>4 DEF vars, ring, writer, reader, FifoInv, TypeOK, WriterInv, ReaderInv,
                  CountMatchesIndices, ContentInv, CountedIn, CountedOut
    <2>5. QED BY <2>1, <2>2, <2>3, <2>4 DEF Next
  <1>2. QED BY <1>1, InitInv, PTL DEF Spec

(* ulElements always agrees with the distance of the indices.              *)
THEOREM CountIsExact ==
  ASSUME Discipline
  PROVE  Spec => [](TypeOK /\ CountMatchesIndices)
  <1>1. FifoInv => TypeOK /\ CountMatchesIndices BY DEF FifoInv
  <1>2. QED BY <1>1, Invariance, PTL

(* The entry in the writer's hands is never the one in the reader's: it is *)
(* ulElements behind the reader's, with 0 < ulElements < Size.             *)
THEOREM Separation ==
  ASSUME Discipline
  PROVE  Spec => []NoSharedEntry
  <1>1. FifoInv => NoSharedEntry
    BY SizeAssumption DEF FifoInv, TypeOK, WriterInv, ReaderInv, CountMatchesIndices,
       CountedIn, CountedOut, Wrap, NoSharedEntry, Discipline
  <1>2. QED BY <1>1, Invariance, PTL

------------------------------------------------------------------------------
(***************************************************************************)
(* The ring implements the bounded queue FrameFifo.  Almost every access   *)
(* leaves the queue of pending frames alone; the three accesses that count *)
(* a frame in or out, and the two resets, are its operations.              *)
(***************************************************************************)

(* A sequence is determined by its length and its elements.                *)
LEMMA SameSeq ==
  ASSUME NEW S, NEW n \in Nat, NEW s, s = [i \in 1 .. n |-> s[i]],
         NEW t \in Seq(S), Len(t) = n, \A i \in 1 .. n : s[i] = t[i]
  PROVE  s = t
  <1>1. t = [i \in 1 .. n |-> t[i]] BY LenProperties
  <1>2. QED BY <1>1

(* What is counted is a sequence of ulElements complete frames.            *)
LEMMA PendingType ==
  ASSUME FifoInv
  PROVE  Pending \in Seq(Frame) /\ Len(Pending) = ulElements
  <1>1. ulElements \in Nat /\ ulElements <= Size /\ CountedOut \in Index
    BY SizeAssumption DEF FifoInv, TypeOK, CountMatchesIndices, CountedOut, PrevIndex
  <1>2. ASSUME NEW i \in 1 .. ulElements PROVE ptsCanMsg[Wrap(CountedOut + i - 1)] \in Frame
    <2>1. i - 1 \in Index /\ i - 1 < ulElements BY <1>1, SizeAssumption
    <2>2. ptsCanMsg[Wrap(CountedOut + (i - 1))] \in Frame BY <2>1 DEF FifoInv, ContentInv
    <2>3. CountedOut + (i - 1) = CountedOut + i - 1 BY <1>1
    <2>4. QED BY <2>2, <2>3
  <1>3. QED BY <1>1, <1>2 DEF Pending

(* An access that counts nothing and leaves the counted entries alone does *)
(* not change what is pending.                                             *)
LEMMA PendingStable ==
  ASSUME FifoInv, ulElements' = ulElements, CountedOut' = CountedOut,
         \A i \in Index : i < ulElements =>
            ptsCanMsg'[Wrap(CountedOut + i)] = ptsCanMsg[Wrap(CountedOut + i)]
  PROVE  Pending' = Pending
  <1>1. ulElements \in Nat /\ ulElements <= Size /\ CountedOut \in Index
    BY SizeAssumption DEF FifoInv, TypeOK, CountMatchesIndices, CountedOut, PrevIndex
  <1>2. ASSUME NEW i \in 1 .. ulElements
        PROVE  ptsCanMsg'[Wrap(CountedOut + i - 1)] = ptsCanMsg[Wrap(CountedOut + i - 1)]
    <2>1. i - 1 \in Index /\ i - 1 < ulElements BY <1>1, SizeAssumption
    <2>2. CountedOut + (i - 1) = CountedOut + i - 1 BY <1>1
    <2>3. QED BY <2>1, <2>2
  <1>3. Pending' = [i \in 1 .. ulElements |-> ptsCanMsg'[Wrap(CountedOut + i - 1)]]
    BY DEF Pending, Wrap
  <1>4. QED BY <1>2, <1>3 DEF Pending

(* Counting a frame out removes the head.                                  *)
LEMMA PendingTail ==
  ASSUME FifoInv, ulElements > 0, ulElements' = ulElements - 1,
         CountedOut' = Wrap(CountedOut + 1), ptsCanMsg' = ptsCanMsg
  PROVE  Pending' = Tail(Pending) /\ Head(Pending) = ptsCanMsg[CountedOut]
  <1>1. ulElements \in Nat /\ ulElements <= Size /\ CountedOut \in Index
    BY SizeAssumption DEF FifoInv, TypeOK, CountMatchesIndices, CountedOut, PrevIndex
  <1>2. Pending \in Seq(Frame) /\ Len(Pending) = ulElements
    BY PendingType
  <1>3. Pending' = [i \in 1 .. ulElements - 1 |-> ptsCanMsg[Wrap(Wrap(CountedOut + 1) + i - 1)]]
    BY DEF Pending, Wrap
  <1>4. /\ Tail(Pending) \in Seq(Frame) /\ Len(Tail(Pending)) = ulElements - 1
        /\ \A i \in 1 .. ulElements - 1 : Tail(Pending)[i] = Pending[i + 1]
    BY <1>1, <1>2, HeadTailProperties
  <1>5. ASSUME NEW i \in 1 .. ulElements - 1
        PROVE  ptsCanMsg[Wrap(Wrap(CountedOut + 1) + i - 1)] = Pending[i + 1]
    <2>1. i - 1 \in Index /\ (i - 1) + 1 \in Index BY <1>1, SizeAssumption
    <2>2. Wrap(Wrap(CountedOut + 1) + (i - 1)) = Wrap(CountedOut + ((i - 1) + 1))
      BY <1>1, <2>1, WrapShift
    <2>3. Wrap(CountedOut + 1) \in Index BY <1>1, SizeAssumption DEF Wrap
    <2>4. /\ Wrap(CountedOut + 1) + (i - 1) = Wrap(CountedOut + 1) + i - 1
          /\ CountedOut + ((i - 1) + 1) = CountedOut + (i + 1) - 1
          /\ i + 1 \in 1 .. ulElements
      BY <1>1, <2>3
    <2>5. QED BY <2>2, <2>4 DEF Pending
  <1>6. Wrap(CountedOut + 1 - 1) = CountedOut
    BY <1>1, SizeAssumption DEF Wrap
  <1>7. Head(Pending) = ptsCanMsg[CountedOut]
    BY <1>1, <1>2, <1>6 DEF Pending
  <1>8. \A i \in 1 .. ulElements - 1 : Pending'[i] = Tail(Pending)[i]
    BY <1>3, <1>4, <1>5
  <1>9. Pending' = [i \in 1 .. ulElements - 1 |-> Pending'[i]]
    BY <1>3
  <1>10. Pending' = Tail(Pending)
    BY <1>1, <1>4, <1>8, <1>9, SameSeq
  <1>11. QED BY <1>7, <1>10

(* Counting a frame in appends it.                                         *)
LEMMA PendingAppend ==
  ASSUME FifoInv, ulElements < Size, ulElements' = ulElements + 1,
         CountedOut' = CountedOut, ptsCanMsg' = ptsCanMsg
  PROVE  Pending' = Append(Pending, ptsCanMsg[CountedIn])
  <1>1. ulElements \in Nat /\ CountedOut \in Index /\ CountedIn = Wrap(CountedOut + ulElements)
    BY SizeAssumption DEF FifoInv, TypeOK, CountMatchesIndices, CountedOut, PrevIndex
  <1>2. Pending \in Seq(Frame) /\ Len(Pending) = ulElements
    BY PendingType
  <1>3. Pending' = [i \in 1 .. ulElements + 1 |-> ptsCanMsg[Wrap(CountedOut + i - 1)]]
    BY DEF Pending, Wrap
  <1>4. CountedOut + (ulElements + 1) - 1 = CountedOut + ulElements
    BY <1>1
  <1>5. Pending'[ulElements + 1] = ptsCanMsg[CountedIn]
    BY <1>1, <1>3, <1>4
  <1>6. \A i \in 1 .. ulElements : Pending'[i] = Pending[i]
    BY <1>1, <1>3 DEF Pending
  <1>7. ptsCanMsg[CountedIn] \in Frame \cup {NoFrame}
    BY SizeAssumption DEF FifoInv, TypeOK, CountMatchesIndices, CountedIn, PrevIndex
  <1>8. Pending \in Seq(Frame \cup {NoFrame})
    BY <1>2, SeqMonotonic
  <1>9. DEFINE long == Append(Pending, ptsCanMsg[CountedIn])
  <1>10. /\ long \in Seq(Frame \cup {NoFrame}) /\ Len(long) = ulElements + 1
         /\ \A i \in 1 .. ulElements : long[i] = Pending[i]
         /\ long[ulElements + 1] = ptsCanMsg[CountedIn]
    BY <1>2, <1>7, <1>8, AppendProperties
  <1> HIDE DEF long
  <1>11. \A i \in 1 .. ulElements + 1 : Pending'[i] = long[i]
    <2>1. \A i \in 1 .. ulElements + 1 : i \in 1 .. ulElements \/ i = ulElements + 1
      BY <1>1
    <2>2. QED BY <1>5, <1>6, <1>10, <2>1
  <1>12. Pending' = [i \in 1 .. ulElements + 1 |-> Pending'[i]]
    BY <1>3
  <1>13. Pending' = long
    BY <1>1, <1>10, <1>11, <1>12, SameSeq
  <1>14. QED BY <1>13 DEF long

(* Each access of the writer is a Put, a Drop or invisible.                *)
LEMMA WriterRefines ==
  ASSUME FifoInv, Discipline, Write
  PROVE  [Queue!Next]_(Queue!vars)
  <1> USE SizeAssumption, ModAssumption, SwitchAssumption
      DEF FifoInv, TypeOK, WriterInv, ReaderInv, CountMatchesIndices, CountedIn, CountedOut,
          Wrap, PrevIndex, Discipline, ring, writer, reader
  <1>0. /\ ulElements \in Nat /\ Pending \in Seq(Frame) /\ Len(Pending) = ulElements
        /\ (ulElements > 0 => Pending # <<>>)
    BY PendingType
  <1>1. ASSUME NEW f \in Frame, StartWrite(f) PROVE [Queue!Next]_(Queue!vars)
    <2>1. Pending' = Pending BY <1>1, PendingStable DEF StartWrite
    <2>2. QED BY <1>1, <2>1 DEF StartWrite, Queue!vars
  <1>2. CASE DropIndex
    <2>1. CountedOut' = CountedOut BY <1>2 DEF DropIndex, NextIndex
    <2>2. Pending' = Pending BY <1>2, <2>1, PendingStable DEF DropIndex
    <2>3. QED BY <1>2, <2>2 DEF DropIndex, Queue!vars
  <1>3. CASE DropLoad
    <2>1. Pending' = Pending BY <1>3, PendingStable DEF DropLoad
    <2>2. QED BY <1>3, <2>1 DEF DropLoad, Queue!vars
  <1>4. CASE DropCount
    <2>1. /\ ulElements > 0 /\ ulElements' = ulElements - 1 /\ ptsCanMsg' = ptsCanMsg
          /\ CountedOut' = Wrap(CountedOut + 1)
      BY <1>4 DEF DropCount, Decrement
    <2>2. Pending' = Tail(Pending) BY <2>1, PendingTail
    <2>3. DropOldest /\ Len(Pending) = Size BY <1>0, <1>4 DEF DropCount
    <2>4. Queue!Drop BY <1>4, <2>2, <2>3 DEF DropCount, Queue!Drop
    <2>5. QED BY <2>4 DEF Queue!Next
  <1>5. CASE CopyIn
    <2>1. \A i \in Index : i < ulElements => Wrap(CountedOut + i) # ulIndexIn
      BY <1>5 DEF CopyIn
    <2>2. Pending' = Pending BY <1>5, <2>1, PendingStable DEF CopyIn
    <2>3. QED BY <1>5, <2>2 DEF CopyIn, Queue!vars
  <1>6. CASE CopyInDone
    <2>1. \A i \in Index : i < ulElements => Wrap(CountedOut + i) # ulIndexIn
      BY <1>6 DEF CopyInDone
    <2>2. Pending' = Pending BY <1>6, <2>1, PendingStable DEF CopyInDone
    <2>3. QED BY <1>6, <2>2 DEF CopyInDone, Queue!vars
  <1>7. CASE IncInIndex
    <2>1. Pending' = Pending BY <1>7, PendingStable DEF IncInIndex
    <2>2. QED BY <1>7, <2>1 DEF IncInIndex, Queue!vars
  <1>8. CASE IncInLoad
    <2>1. Pending' = Pending BY <1>8, PendingStable DEF IncInLoad
    <2>2. QED BY <1>8, <2>1 DEF IncInLoad, Queue!vars
  <1>9. CASE IncInCount
    <2>1. /\ ulElements < Size /\ ulElements' = ulElements + 1 /\ ptsCanMsg' = ptsCanMsg
          /\ CountedOut' = CountedOut
      BY <1>9 DEF IncInCount, Increment
    <2>2. Pending' = Append(Pending, ptsCanMsg[CountedIn]) BY <2>1, PendingAppend
    <2>3. ptsCanMsg[CountedIn] = msgIn /\ msgIn \in Frame BY <1>9 DEF IncInCount
    <2>4. Queue!Put(msgIn) BY <1>0, <1>9, <2>1, <2>2, <2>3 DEF IncInCount, Queue!Put
    <2>5. QED BY <2>3, <2>4 DEF Queue!Next
  <1>10. QED BY <1>1, <1>2, <1>3, <1>4, <1>5, <1>6, <1>7, <1>8, <1>9 DEF Write

(* Each access of the reader is a Get or invisible.                        *)
LEMMA ReaderRefines ==
  ASSUME FifoInv, Discipline, Read
  PROVE  [Queue!Next]_(Queue!vars)
  <1> USE SizeAssumption, ModAssumption, SwitchAssumption
      DEF FifoInv, TypeOK, WriterInv, ReaderInv, CountMatchesIndices, CountedIn, CountedOut,
          Wrap, PrevIndex, Discipline, ring, writer, reader
  <1>0. /\ ulElements \in Nat /\ Pending \in Seq(Frame) /\ Len(Pending) = ulElements
        /\ (ulElements > 0 => Pending # <<>>)
    BY PendingType
  <1>1. CASE StartRead
    <2>1. Pending' = Pending BY <1>1, PendingStable DEF StartRead
    <2>2. QED BY <1>1, <2>1 DEF StartRead, Queue!vars
  <1>2. CASE CopyOut
    <2>1. Pending' = Pending BY <1>2, PendingStable DEF CopyOut
    <2>2. QED BY <1>2, <2>1 DEF CopyOut, Queue!vars
  <1>3. CASE CopyOutDone
    <2>1. Pending' = Pending BY <1>3, PendingStable DEF CopyOutDone
    <2>2. QED BY <1>3, <2>1 DEF CopyOutDone, Queue!vars
  <1>4. CASE IncOutIndex
    <2>1. CountedOut' = CountedOut BY <1>4 DEF IncOutIndex, NextIndex
    <2>2. Pending' = Pending BY <1>4, <2>1, PendingStable DEF IncOutIndex
    <2>3. QED BY <1>4, <2>2 DEF IncOutIndex, Queue!vars
  <1>5. CASE IncOutLoad
    <2>1. Pending' = Pending BY <1>5, PendingStable DEF IncOutLoad
    <2>2. QED BY <1>5, <2>1 DEF IncOutLoad, Queue!vars
  <1>6. CASE IncOutCount
    <2>1. /\ ulElements > 0 /\ ulElements' = ulElements - 1 /\ ptsCanMsg' = ptsCanMsg
          /\ CountedOut' = Wrap(CountedOut + 1) /\ msgOut = ptsCanMsg[CountedOut]
      BY <1>6 DEF IncOutCount, Decrement
    <2>2. Pending' = Tail(Pending) /\ Head(Pending) = ptsCanMsg[CountedOut]
      BY <2>1, PendingTail
    <2>3. got' = Head(Pending) /\ call' = "get" BY <1>6, <2>1, <2>2 DEF IncOutCount
    <2>4. Queue!Get BY <1>0, <2>1, <2>2, <2>3 DEF Queue!Get
    <2>5. QED BY <2>4 DEF Queue!Next
  <1>7. QED BY <1>1, <1>2, <1>3, <1>4, <1>5, <1>6 DEF Read

(* CpFifoClear and CpFifoCopy replace the pending frames at once.          *)
LEMMA ResetRefines ==
  ASSUME FifoInv, FifoInv', CpFifoClear \/ CpFifoCopy
  PROVE  Queue!Next
  <1>1. CASE CpFifoClear
    <2>1. Pending' = <<>> BY <1>1 DEF CpFifoClear, Pending
    <2>2. Queue!Clear BY <1>1, <2>1 DEF CpFifoClear, reader, Queue!Clear
    <2>3. QED BY <2>2 DEF Queue!Next
  <1>2. CASE CpFifoCopy
    <2>1. ulElements' \in Nat /\ ulElements' <= Size
      BY ModAssumption DEF FifoInv, TypeOK, CountMatchesIndices, Counter
    <2>2. ulElements' \in Nat /\ CountedOut' \in Index
      BY <1>2, <2>1, SizeAssumption
      DEF FifoInv, TypeOK, CountedOut, CpFifoCopy, writer, reader
    <2>3. ASSUME NEW i \in 1 .. ulElements'
          PROVE  ptsCanMsg'[Wrap(CountedOut' + i - 1)] \in Frame
      <3>1. i - 1 \in Index /\ i - 1 < ulElements' BY <2>1, SizeAssumption
      <3>2. ptsCanMsg'[Wrap(CountedOut' + (i - 1))] \in Frame
        BY <3>1 DEF FifoInv, ContentInv, Wrap
      <3>3. CountedOut' + (i - 1) = CountedOut' + i - 1 BY <2>2
      <3>4. QED BY <3>2, <3>3
    <2>4. Pending' = [i \in 1 .. ulElements' |-> ptsCanMsg'[Wrap(CountedOut' + i - 1)]]
      BY DEF Pending, Wrap
    <2>5. Pending' \in Seq(Frame) /\ Len(Pending') = ulElements'
      <3> DEFINE n == ulElements'
                 entry(i) == ptsCanMsg'[Wrap(CountedOut' + i - 1)]
      <3>1. n \in Nat /\ \A i \in 1 .. n : entry(i) \in Frame BY <2>1, <2>3
      <3>2. Pending' = [i \in 1 .. n |-> entry(i)] BY <2>4
      <3> HIDE DEF n, entry
      <3>3. [i \in 1 .. n |-> entry(i)] \in Seq(Frame) BY <3>1
      <3>4. Len([i \in 1 .. n |-> entry(i)]) = n BY <3>1
      <3>5. QED BY <3>2, <3>3, <3>4 DEF n
    <2>6. Queue!Copy BY <1>2, <2>1, <2>5 DEF CpFifoCopy, reader, Queue!Copy
    <2>7. QED BY <2>6 DEF Queue!Next
  <1>3. QED BY <1>1, <1>2

(* Every behaviour of the ring is one of the bounded queue: for any size,  *)
(* any frames and any interleaving a frame comes out whole, once, in order.*)
THEOREM Refinement ==
  ASSUME Discipline
  PROVE  Spec => ImplementsFrameFifo
  <1>1. Init => Queue!Init
    BY DEF Init, Queue!Init, Pending
  <1>2. FifoInv /\ FifoInv' /\ [Next]_vars => [Queue!Next]_(Queue!vars)
    <2> SUFFICES ASSUME FifoInv, FifoInv', [Next]_vars PROVE [Queue!Next]_(Queue!vars)
      OBVIOUS
    <2>1. CASE Write BY <2>1, WriterRefines
    <2>2. CASE Read BY <2>2, ReaderRefines
    <2>3. CASE CpFifoClear \/ CpFifoCopy BY <2>3, ResetRefines
    <2>4. CASE UNCHANGED vars
      <3>1. Pending' = Pending
        BY <2>4 DEF vars, ring, writer, reader, Pending, Wrap, CountedOut, PrevIndex
      <3>2. QED BY <2>4, <3>1 DEF vars, reader, Queue!vars
    <2>5. QED BY <2>1, <2>2, <2>3, <2>4 DEF Next
  <1>3. QED BY <1>1, <1>2, Invariance, PTL DEF Spec, ImplementsFrameFifo, Queue!Spec
==============================================================================
