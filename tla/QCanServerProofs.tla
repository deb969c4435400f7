-------------------------- MODULE QCanServerProofs ---------------------------
(***************************************************************************)
(* Theorems about the CAN server, for any number of processes and any      *)
(* timing within Discipline, on systems whose shared memory survives a     *)
(* crash and on those where it does not.                                   *)
(***************************************************************************)
EXTENDS QCanServer, TLAPS

(* Nobody starts while another one does, so that the age a process has     *)
(* read is still the one it acts upon.                                     *)
OneStarts == \A p, q \in Starting : p = q

(* AtMostOneServer alone is not inductive: a process about to clear the    *)
(* memory must know that nobody runs, which the age tells it.              *)
ServerInv == TypeOK /\ AtMostOneServer /\ Visible /\ OneStarts

(* The initial state satisfies the invariant.                              *)
LEMMA InitInv == Init => ServerInv
<1> SUFFICES ASSUME Init PROVE ServerInv OBVIOUS
<1>1. Running = {} /\ Starting = {} BY DEF Init, Running, Starting
<1>2. TypeOK
  <2>1. age \in 0 .. Zero /\ crashes \in 0 .. MaxCrash
    BY TimeAssumption DEF Init, Zero
  <2>2. elapsed \in [Server -> 0 .. Period + MaxLag] BY TimeAssumption DEF Init
  <2> QED BY <2>1, <2>2 DEF Init, TypeOK
<1>3. Visible BY <1>1 DEF Init, Visible
<1> QED BY <1>1, <1>2, <1>3 DEF ServerInv, AtMostOneServer, OneStarts

(* Types are preserved by every step, whatever the timing.                 *)
LEMMA TypeStep == TypeOK /\ [Next]_vars => TypeOK'
<1> SUFFICES ASSUME TypeOK, [Next]_vars PROVE TypeOK' OBVIOUS
<1> USE TimeAssumption, ModeAssumption DEF TypeOK, Zero
<1>1. CASE Tick
  <2>1. age' \in 0 .. Zero BY <1>1 DEF Tick, Older
  <2>2. elapsed' \in [Server -> 0 .. Period + MaxLag] BY <1>1 DEF Tick
  <2>3. UNCHANGED <<pc, segment, attached, crashes>> BY <1>1 DEF Tick
  <2> QED BY <2>1, <2>2, <2>3
<1>2. ASSUME NEW p \in Server, Start(p) PROVE TypeOK'
  <2>1. CASE Create(p)
    <3>1. pc' \in [Server -> {"off", "exists", "attached", "setup", "cleared", "running",
                              "active", "crashed"}]
      BY <2>1 DEF Create, Goto
    <3>2. segment' \in BOOLEAN /\ attached' \in SUBSET Server BY <2>1 DEF Create
    <3>3. age' \in 0 .. Zero BY <2>1 DEF Create
    <3> QED BY <2>1, <3>1, <3>2, <3>3 DEF Create
  <2>2. CASE Attach(p) BY <2>2 DEF Attach, Goto
  <2>3. CASE CheckHeartbeat(p) BY <2>3 DEF CheckHeartbeat, Goto
  <2>4. CASE ClearMemory(p) BY <2>4 DEF ClearMemory, Goto
  <2>5. CASE SetupDone(p) BY <2>5 DEF SetupDone, Goto
  <2> QED BY <1>2, <2>1, <2>2, <2>3, <2>4, <2>5 DEF Start
<1>3. ASSUME NEW p \in Server, onTimerEvent(p) PROVE TypeOK' BY <1>3 DEF onTimerEvent
<1>4. ASSUME NEW p \in Server, Quit(p) PROVE TypeOK' BY <1>4 DEF Quit, Detach, Goto
<1>5. ASSUME NEW p \in Server, Crash(p) PROVE TypeOK' BY <1>5 DEF Crash, Detach, Goto
<1>6. CASE UNCHANGED vars BY <1>6 DEF vars
<1> QED BY <1>1, <1>2, <1>3, <1>4, <1>5, <1>6 DEF Next

(* While a server runs its time stamp is not too old: the timer is not as  *)
(* late as that.                                                           *)
LEMMA Alive == ASSUME Discipline, ServerInv, SeemsCrashed PROVE Running = {}
<1> SUFFICES ASSUME NEW p \in Running PROVE FALSE OBVIOUS
<1>1. p \in Server BY DEF Running
<1>2. age <= elapsed[p] /\ elapsed[p] \in 0 .. Period + MaxLag /\ age \in 0 .. Zero
  BY <1>1 DEF ServerInv, Visible, TypeOK
<1> QED BY <1>2, TimeAssumption DEF SeemsCrashed, Discipline, Zero

(* A process takes a step of its start.                                    *)
LEMMA StartStep ==
  ASSUME Discipline, ServerInv, NEW p \in Server, Start(p)
  PROVE AtMostOneServer' /\ Visible' /\ OneStarts'
<1> USE DEF ServerInv
<1>0. pc \in [Server -> {"off", "exists", "attached", "setup", "cleared", "running",
                         "active", "crashed"}]
  BY DEF TypeOK
<1>1. CASE Create(p)
  <2>1. pc[p] = "off" /\ Starting = {} BY <1>1 DEF Create, Discipline
  <2>2. CASE ~segment /\ segment' = TRUE /\ attached' = {p} /\ age' = Zero /\ Goto(p, "setup")
    <3>1. Running = {} BY <2>2 DEF Visible, Running
    <3>2. Running' = {} /\ Starting' = {p} BY <1>0, <2>1, <2>2, <3>1 DEF Running, Starting, Goto
    <3>3. \A q \in Server : pc'[q] \in {"attached", "setup", "cleared"} => q = p
      BY <1>0, <2>1, <2>2 DEF Starting, Goto
    <3> QED BY <2>2, <3>2, <3>3 DEF AtMostOneServer, Visible, OneStarts
  <2>3. CASE segment /\ Goto(p, "exists") /\ UNCHANGED <<segment, attached, age>>
    <3>1. Running' = Running /\ Starting' = {p}
      BY <1>0, <2>1, <2>3 DEF Running, Starting, Goto
    <3>2. \A q \in Server : pc'[q] \notin {"attached", "setup", "cleared"}
      BY <1>0, <2>1, <2>3 DEF Starting, Goto
    <3>3. elapsed' = elapsed BY <1>1 DEF Create
    <3> QED BY <2>3, <3>1, <3>2, <3>3 DEF AtMostOneServer, Visible, OneStarts
  <2> QED BY <1>1, <2>2, <2>3 DEF Create
<1>2. CASE Attach(p)
  <2>1. Running' = Running /\ Starting' \subseteq Starting
    BY <1>0, <1>2 DEF Attach, Running, Starting, Goto
  <2>2. /\ UNCHANGED <<segment, age, elapsed>> /\ attached \subseteq attached'
        /\ attached' # attached => segment
    BY <1>2 DEF Attach
  <2>3. \A q \in Server : pc'[q] \in {"attached", "setup", "cleared"} => q \in attached'
    BY <1>0, <1>2 DEF Attach, Goto, Visible
  <2>4. \A q \in Server : pc'[q] \in {"setup", "cleared"} => pc[q] \in {"setup", "cleared"}
    BY <1>0, <1>2 DEF Attach, Goto
  <2> QED BY <2>1, <2>2, <2>3, <2>4 DEF AtMostOneServer, Visible, OneStarts
<1>3. CASE CheckHeartbeat(p)
  <2>1. Running' = Running /\ Starting' \subseteq Starting
    BY <1>0, <1>3 DEF CheckHeartbeat, Running, Starting, Goto
  <2>2. UNCHANGED <<segment, attached, age, elapsed>> BY <1>3 DEF CheckHeartbeat
  <2>3. \A q \in Server : pc'[q] \in {"attached", "setup", "cleared"} => q \in attached
    BY <1>0, <1>3 DEF CheckHeartbeat, Goto, Visible
  <2>4. ASSUME NEW q \in Server, pc'[q] \in {"setup", "cleared"} PROVE Running = {}
    <3>1. CASE q = p
      <4>1. SeemsCrashed BY <1>0, <1>3, <2>4, <3>1 DEF CheckHeartbeat, Goto
      <4> QED BY <4>1, Alive
    <3>2. CASE q # p BY <1>0, <1>3, <2>4, <3>2 DEF CheckHeartbeat, Goto, Visible
    <3> QED BY <3>1, <3>2
  <2> QED BY <2>1, <2>2, <2>3, <2>4 DEF AtMostOneServer, Visible, OneStarts
<1>4. CASE ClearMemory(p)
  <2>1. Running = {} BY <1>4 DEF ClearMemory, Visible
  <2>2. Running' = {} /\ Starting' = Starting
    BY <1>0, <1>4, <2>1 DEF ClearMemory, Running, Starting, Goto
  <2>3. UNCHANGED <<segment, attached>> BY <1>4 DEF ClearMemory
  <2>4. \A q \in Server : pc'[q] \in {"attached", "setup", "cleared"} => q \in attached
    BY <1>0, <1>4 DEF ClearMemory, Goto, Visible
  <2> QED BY <2>2, <2>3, <2>4 DEF AtMostOneServer, Visible, OneStarts
<1>5. CASE SetupDone(p)
  <2>1. pc[p] = "cleared" /\ p \in Starting /\ Running = {}
    BY <1>5 DEF SetupDone, Visible, Starting
  <2>2. Running' = {p} BY <1>0, <1>5, <2>1 DEF SetupDone, Running, Goto
  <2>3. Starting' = {} BY <1>0, <1>5, <2>1 DEF SetupDone, Starting, OneStarts, Goto
  <2>4. UNCHANGED <<segment, attached>> /\ age' = 0 /\ elapsed'[p] = 0
    BY <1>5 DEF SetupDone, TypeOK
  <2>5. p \in attached BY <2>1 DEF Visible
  <2>6. \A q \in Server : pc'[q] \notin {"attached", "setup", "cleared"}
    BY <2>3 DEF Starting
  <2> QED BY <2>2, <2>3, <2>4, <2>5, <2>6 DEF AtMostOneServer, Visible, OneStarts
<1> QED BY <1>1, <1>2, <1>3, <1>4, <1>5 DEF Start

(* A process ends, and the segment with it or not.                         *)
LEMMA EndStep ==
  ASSUME ServerInv, NEW p \in Server, Quit(p) \/ Crash(p)
  PROVE AtMostOneServer' /\ Visible' /\ OneStarts'
<1> USE DEF ServerInv
<1>1. /\ pc' = [pc EXCEPT ![p] = "off"] /\ attached' = attached \ {p}
      /\ UNCHANGED <<age, elapsed>>
      /\ segment' = segment \/ segment' = (segment /\ (p \in attached => attached # {p}))
  BY DEF Quit, Crash, Detach, Goto
<1>2. \A q \in Server : q # p => pc'[q] = pc[q] BY <1>1 DEF TypeOK
<1>3. pc'[p] = "off" BY <1>1 DEF TypeOK
<1>4. Running' \subseteq Running \ {p} /\ Starting' \subseteq Starting
  BY <1>2, <1>3 DEF Running, Starting
<1>5. attached' # {} => segment' BY <1>1 DEF Visible
<1>6. \A q \in Running' : q \in attached' /\ age' <= elapsed'[q]
  BY <1>1, <1>4 DEF Visible
<1>7. \A q \in Server : pc'[q] \in {"attached", "setup", "cleared"}
        => q \in attached' /\ pc'[q] = pc[q]
  BY <1>1, <1>2, <1>3 DEF Visible
<1> QED BY <1>4, <1>5, <1>6, <1>7 DEF AtMostOneServer, Visible, OneStarts

(* The invariant is inductive under Discipline.                            *)
LEMMA Inductive == ASSUME Discipline, ServerInv, [Next]_vars PROVE ServerInv'
<1>0. TypeOK' BY TypeStep DEF ServerInv
<1>1. CASE Tick
  <2>1. UNCHANGED <<pc, segment, attached>> /\ Running' = Running /\ Starting' = Starting
    BY <1>1 DEF Tick, Running, Starting
  <2>2. ASSUME NEW p \in Running PROVE age' <= elapsed'[p]
    <3>1. /\ age <= elapsed[p] /\ elapsed[p] \in 0 .. Period + MaxLag /\ age \in 0 .. Zero
          /\ p \in Server
      BY DEF ServerInv, Visible, TypeOK, Running
    <3>2. elapsed'[p] = elapsed[p] + 1 BY <1>1, <3>1 DEF Tick
    <3> QED BY <1>1, <3>1, <3>2, TimeAssumption DEF Tick, Older, Zero
  <2> QED BY <1>0, <2>1, <2>2 DEF ServerInv, AtMostOneServer, Visible, OneStarts
<1>2. ASSUME NEW p \in Server, Start(p) PROVE ServerInv'
  BY <1>0, <1>2, StartStep DEF ServerInv
<1>3. ASSUME NEW p \in Server, onTimerEvent(p) PROVE ServerInv'
  <2>1. /\ UNCHANGED <<pc, segment, attached>> /\ age' = 0
        /\ Running' = Running /\ Starting' = Starting
    BY <1>3 DEF onTimerEvent, Running, Starting
  <2>2. \A q \in Running : age' <= elapsed'[q]
    BY <1>0, <2>1, TimeAssumption DEF TypeOK, Running
  <2> QED BY <1>0, <2>1, <2>2 DEF ServerInv, AtMostOneServer, Visible, OneStarts
<1>4. ASSUME NEW p \in Server, Quit(p) \/ Crash(p) PROVE ServerInv'
  BY <1>0, <1>4, EndStep DEF ServerInv
<1>5. CASE UNCHANGED vars
  BY <1>5 DEF ServerInv, TypeOK, AtMostOneServer, Visible, OneStarts, Running, Starting, vars
<1> QED BY <1>1, <1>2, <1>3, <1>4, <1>5 DEF Next

(* Every variable keeps its type.                                          *)
THEOREM TypeCorrect == Spec => []TypeOK
<1>1. Init => TypeOK BY InitInv DEF ServerInv
<1> QED BY <1>1, TypeStep, PTL DEF Spec

(* Under Discipline there is at most one server on a machine, whatever     *)
(* crashes, quits and is started again.                                    *)
THEOREM SingleServer == ASSUME Discipline PROVE Spec => []AtMostOneServer
<1>1. ServerInv /\ [Next]_vars => ServerInv' BY Inductive
<1>2. ServerInv => AtMostOneServer BY DEF ServerInv
<1> QED BY <1>1, <1>2, InitInv, PTL DEF Spec

(* Under Discipline a running server is seen alive by whoever looks.       *)
THEOREM ServerIsSeen == ASSUME Discipline PROVE Spec => []Visible
<1>1. ServerInv /\ [Next]_vars => ServerInv' BY Inductive
<1>2. ServerInv => Visible BY DEF ServerInv
<1> QED BY <1>1, <1>2, InitInv, PTL DEF Spec
==============================================================================
