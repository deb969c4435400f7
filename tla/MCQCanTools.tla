------------------------------ MODULE MCQCanTools ------------------------------
(* The CAN socket in every detail, and the tools that use it: kind says      *)
(* which one a behaviour is about; the variables of the other stay as they   *)
(* are.                                                                      *)
EXTENDS QCanSocket, TLC

CONSTANTS NetworkCount, NumberWidth, CountWidth, IdLimit, DlcLimit,
          Channels, Counts, MaxFrames, MaxChange, MaxAttach

(* The networks are can1 and up; option -n is read into 32 bits.             *)
ASSUME ToolsAssumption ==
  /\ NumberWidth \in Nat /\ NetworkCount \in 1 .. NumberWidth /\ Channels \subseteq Nat \ {0}
  /\ IdLimit \in Nat \ {0} /\ DlcLimit \in Nat \ {0}
  /\ CountWidth \in Nat /\ MaxFrames \in Nat /\ MaxFrames < CountWidth
  /\ Counts \subseteq 0 .. CountWidth - 1

VARIABLES kind, t, there, enabled, onBus, due, shown, trouble, changes, attaches

(* The options of a call; those that its tool does not have are left out.    *)
CallsOf(names, counts, incs, ids, dlcs, flags, times) ==
  [tool : names, local : BOOLEAN, channel : Channels, count : counts, inc : incs, id : ids,
   dlc : dlcs, all : flags, command : flags, time : times]
MCCalls ==
  CallsOf({"send"}, Counts, SUBSET {"I", "D"}, {IdLimit - 1}, {0, DlcLimit - 1}, {FALSE}, {FALSE})
    \cup CallsOf({"dump"}, Counts, {{}}, {0}, {0}, {FALSE}, BOOLEAN)
    \cup CallsOf({"config"}, {0}, {{}}, {0}, {0}, BOOLEAN, {FALSE})
    \cup CallsOf({"error"}, Counts, {{}}, {0}, {0}, {FALSE}, {FALSE})

tools == <<t, there, enabled, onBus, due, shown, trouble, changes, attaches>>
T == INSTANCE QCanTools WITH Calls <- MCCalls

MCInit ==
  /\ Init /\ T!Init
  /\ \/ kind = "tool"
     \/ kind = "socket" /\ there /\ enabled /\ t.call = CHOOSE call \in MCCalls : TRUE

MCNext ==
  /\ UNCHANGED kind
  /\ \/ kind = "socket" /\ Next /\ UNCHANGED tools
     \/ kind = "tool" /\ T!Next /\ UNCHANGED vars

MCvars == <<kind, vars, tools>>
ToolRuns == kind = "tool" /\ T!ToolStep /\ UNCHANGED <<kind, vars>>
MCSpec == MCInit /\ [][MCNext]_MCvars /\ Fairness /\ WF_MCvars(ToolRuns)

(* AsAsked of QCanTools: the tools do what their options say, and no more.   *)
AsAsked == kind = "tool" => T!AsAsked

(* ToolEnds of QCanTools: whatever becomes of the server, a tool that has    *)
(* nothing left to do ends.                                                  *)
Busy == kind = "tool" /\ t.running /\ T!MustEnd
ToolEnds == Busy ~> ~Busy

(* can-error ends after its frames (qcan_error.cpp, option -n).              *)
ErrorTool == kind = "tool" /\ t.running /\ T!Tool = "error"
ErrorEnds == ErrorTool ~> ~ErrorTool
================================================================================
