----------------------------- MODULE QCanServer ------------------------------
(***************************************************************************)
(* Start, heartbeat, crash and takeover of the CAN server                  *)
(* (qcan/qcan_server.cpp).  Processes of one machine find each other by a  *)
(* shared memory segment; the running server writes the time into it once  *)
(* a second, and a process that finds a segment whose time is too old may  *)
(* take it over.                                                           *)
(*                                                                         *)
(* Times are counted in ticks.  Only ages matter, so that the memory holds *)
(* the age of its time stamp in place of the stamp.                        *)
(***************************************************************************)
EXTENDS Integers, FiniteSets

CONSTANTS
  Server,          \* the processes
  Period,          \* interval of the timer
  MaxLag,          \* the timer event is at most so much late
  MaxAge,          \* MAXIMUM_SERVER_TIME_DIFFERENCE
  btClearServerV,  \* parameter of the constructor: take over after a crash
  Exclusive,       \* nobody starts a server while another one is starting
  SurvivesCrash,   \* the segment of a crashed process remains (Unix)
  MaxCrash         \* bound: number of crashes

ASSUME TimeAssumption ==
  Period \in Nat \ {0} /\ MaxLag \in Nat /\ MaxAge \in Nat /\ MaxCrash \in Nat
ASSUME ModeAssumption ==
  btClearServerV \in BOOLEAN /\ Exclusive \in BOOLEAN /\ SurvivesCrash \in BOOLEAN

VARIABLES
  pc,        \* where each process is
  segment,   \* the shared memory exists
  attached,  \* the processes attached to it
  age,       \* of sqDateTimeActual
  elapsed,   \* per process: time since the last timer event
  crashes    \* number of crashes so far

vars == <<pc, segment, attached, age, elapsed, crashes>>

(* A memory full of zeroes holds the time 0, which is older than MaxAge.   *)
Zero == MaxAge + 1
Older(a) == IF a = Zero THEN a ELSE a + 1

Running == {p \in Server : pc[p] = "running"}
Starting == {p \in Server : pc[p] \in {"exists", "attached", "setup", "cleared"}}

Init ==
  /\ pc = [p \in Server |-> "off"]
  /\ segment = FALSE /\ attached = {} /\ age = Zero
  /\ elapsed = [p \in Server |-> 0]
  /\ crashes = 0

Goto(p, label) == pc' = [pc EXCEPT ![p] = label]

------------------------------------------------------------------------------
(* checkServerSettings(), step by step.                                    *)

(* QSharedMemory::create succeeds for one process only, and attaches it.   *)
Create(p) ==
  /\ pc[p] = "off" /\ (Exclusive => Starting = {})
  /\ \/ ~segment /\ segment' = TRUE /\ attached' = {p} /\ age' = Zero /\ Goto(p, "setup")
     \/ segment /\ Goto(p, "exists") /\ UNCHANGED <<segment, attached, age>>
  /\ UNCHANGED <<elapsed, crashes>>

(* eERROR_ACTIVE stays if the segment is gone by now.                      *)
Attach(p) ==
  /\ pc[p] = "exists"
  /\ \/ segment /\ attached' = attached \cup {p} /\ Goto(p, "attached")
     \/ ~segment /\ Goto(p, "active") /\ UNCHANGED attached
  /\ UNCHANGED <<segment, age, elapsed, crashes>>

SeemsCrashed == age > MaxAge

(* Mutant: eERROR_CRASHED is never cleared. *)
CheckAndRefuse(p) ==
  /\ pc[p] = "attached"
  /\ \/ SeemsCrashed /\ Goto(p, "crashed")
     \/ ~SeemsCrashed /\ Goto(p, "active")
  /\ UNCHANGED <<segment, attached, age, elapsed, crashes>>

(* Mutant: the age is not looked at. *)
TakeOver(p) ==
  /\ pc[p] = "attached"
  /\ Goto(p, IF btClearServerV THEN "setup" ELSE "active")
  /\ UNCHANGED <<segment, attached, age, elapsed, crashes>>

(* The time stamp is read without the lock.                                *)
CheckHeartbeat(p) ==
  /\ pc[p] = "attached"
  /\ \/ SeemsCrashed /\ Goto(p, IF btClearServerV THEN "setup" ELSE "crashed")
     \/ ~SeemsCrashed /\ Goto(p, "active")
  /\ UNCHANGED <<segment, attached, age, elapsed, crashes>>

(* memset, then the entries; the timer starts, the networks are created.   *)
ClearMemory(p) ==
  /\ pc[p] = "setup" /\ Goto(p, "cleared")
  /\ age' = Zero
  /\ UNCHANGED <<segment, attached, elapsed, crashes>>

SetupDone(p) ==
  /\ pc[p] = "cleared" /\ Goto(p, "running")
  /\ age' = 0
  /\ elapsed' = [elapsed EXCEPT ![p] = 0]
  /\ UNCHANGED <<segment, attached, crashes>>

------------------------------------------------------------------------------
(* Mutant: the time is not written. *)
TimerOnly(p) ==
  /\ pc[p] = "running" /\ elapsed[p] >= Period
  /\ elapsed' = [elapsed EXCEPT ![p] = 0]
  /\ UNCHANGED <<pc, segment, attached, age, crashes>>

(* Mutant: the stamp is written in seconds. *)
TimerInSeconds(p) ==
  /\ pc[p] = "running" /\ elapsed[p] >= Period
  /\ elapsed' = [elapsed EXCEPT ![p] = 0]
  /\ age' = Zero + 1
  /\ UNCHANGED <<pc, segment, attached, crashes>>

onTimerEvent(p) ==
  /\ pc[p] = "running" /\ elapsed[p] >= Period
  /\ elapsed' = [elapsed EXCEPT ![p] = 0]
  /\ age' = 0
  /\ UNCHANGED <<pc, segment, attached, crashes>>

(* The last process that detaches removes the segment.                     *)
Detach(p) ==
  /\ attached' = attached \ {p}
  /\ segment' = (segment /\ (p \in attached => attached # {p}))

(* The destructor: of the server, or of a process that was refused, which  *)
(* stays attached until then.                                              *)
Quit(p) ==
  /\ pc[p] \in {"running", "active", "crashed"} /\ Goto(p, "off")
  /\ Detach(p)
  /\ UNCHANGED <<age, elapsed, crashes>>

(* The operating system detaches a process that crashed.  Unix does not    *)
(* remove the segment then.                                                *)
Crash(p) ==
  /\ pc[p] # "off" /\ Goto(p, "off")
  /\ crashes < MaxCrash /\ crashes' = crashes + 1
  /\ IF SurvivesCrash THEN attached' = attached \ {p} /\ UNCHANGED segment ELSE Detach(p)
  /\ UNCHANGED <<age, elapsed>>

(* Timers of running servers are at most MaxLag late.                      *)
Tick ==
  /\ \A p \in Running : elapsed[p] < Period + MaxLag
  /\ age' = Older(age)
  /\ elapsed' = [p \in Server |-> IF p \in Running THEN elapsed[p] + 1 ELSE elapsed[p]]
  /\ UNCHANGED <<pc, segment, attached, crashes>>

------------------------------------------------------------------------------
Start(p) == Create(p) \/ Attach(p) \/ CheckHeartbeat(p) \/ ClearMemory(p) \/ SetupDone(p)

Next == \/ Tick
        \/ \E p \in Server : Start(p) \/ onTimerEvent(p) \/ Quit(p) \/ Crash(p)

Spec == Init /\ [][Next]_vars

(* A process that is refused ends, the user tries again; processes and     *)
(* time go on.                                                             *)
Retry(p) == Start(p) \/ (pc[p] # "running" /\ Quit(p))
FairSpec == /\ Spec /\ WF_vars(Tick)
            /\ \A p \in Server : WF_vars(onTimerEvent(p)) /\ WF_vars(Retry(p))

------------------------------------------------------------------------------
(* Properties.                                                             *)

(* Users start one server at a time, and a timer event is never so late    *)
(* that the server seems crashed.                                          *)
Discipline == Exclusive /\ Period + MaxLag <= MaxAge

(* The types of the variables. *)
TypeOK ==
  /\ pc \in [Server -> {"off", "exists", "attached", "setup", "cleared", "running",
                        "active", "crashed"}]
  /\ segment \in BOOLEAN /\ attached \in SUBSET Server
  /\ age \in 0 .. Zero
  /\ elapsed \in [Server -> 0 .. Period + MaxLag]
  /\ crashes \in 0 .. MaxCrash

(* "It is only possible to run one instance of a QCanServer on a machine"  *)
(* (qcan_server.hpp:52): no second process takes over while one runs.      *)
AtMostOneServer == \A p, q \in Running : p = q

(* Whoever looks at the memory of a running server finds it, and finds it  *)
(* alive; a process that is about to clear the memory clears nobody's.     *)
Visible ==
  /\ attached # {} => segment
  /\ \A p \in Running : p \in attached /\ age <= elapsed[p]
  /\ \A p \in Server : pc[p] \in {"attached", "setup", "cleared"} => p \in attached
  /\ (\E p \in Server : pc[p] \in {"setup", "cleared"}) => Running = {}

(* After a crash the machine does not stay without a server, whatever the  *)
(* crashed process left behind, and although processes that were refused   *)
(* are still attached.                                                     *)
ServiceReturns == Running = {} ~> Running # {}
==============================================================================
