------------------------- MODULE MCQCanSocketCpFD ----------------------------
(* QCanSocketCpFD for TLC: two identifier bits, one of them only in the     *)
(* extended format.                                                         *)
EXTENDS QCanSocketCpFD

CONSTANTS s, e

MCStdBits == {s}
MCExtBits == {s, e}

Data(id, ext, dlc) == [id |-> id, ext |-> ext, dlc |-> dlc, type |-> "data"]
Error == [id |-> {}, ext |-> FALSE, dlc |-> 0, type |-> "error"]
Filter(id, mask, ext, dir) == [id |-> id, mask |-> mask, ext |-> ext, dir |-> dir]

(* One frame of each format and an error frame. *)
MCFrame == {Data({s}, FALSE, 0), Data({e}, TRUE, 0), Error}
OneFrame == {Data({s}, FALSE, 0)}
DataFrames == {Data({s}, FALSE, 0), Data({e}, TRUE, 0)}
(* A buffer for one identifier, one for all, an extended one for half of   *)
(* the identifiers, and a transmit buffer.                                 *)
MCSetting == {Filter({s}, {s}, FALSE, "rcv"), Filter({s}, {}, FALSE, "rcv"),
              Filter({s, e}, {e}, TRUE, "rcv"), Filter({s}, {s}, FALSE, "trm")}
WideSetting == MCSetting \ {Filter({s}, {s}, FALSE, "rcv")}

(* Bound: either one buffer is in use, with everything the nested calls can *)
(* do, or several without nesting and without FIFOs that fill.  The count   *)
(* of sent frames, which nothing depends on, is followed for one frame.     *)
MCBound ==
  /\ ulTrmMsgCount = 0
  /\ \/ \A b \in Buffer \ {0} : ~allocated[b] /\ ulMsgUser[b] = "none" /\ aptsCanFifo[b] = NoFifo
     \/ /\ slots <= 1 /\ Len(loops) <= 1 /\ Len(clReceiveFifo) <= 1
        /\ \A q \in Fifo : fifo[q] = <<>>
==============================================================================
