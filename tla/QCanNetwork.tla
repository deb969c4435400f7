----------------------------- MODULE QCanNetwork -----------------------------
(***************************************************************************)
(* One CAN network of the server (qcan/qcan_network.cpp): local sockets,   *)
(* WebSockets and at most one CAN interface are its members, and every     *)
(* frame one of them sends is copied to all others by handleCanFrame().    *)
(*                                                                         *)
(* The network lives in one event loop.  Its handlers are not atomic all   *)
(* the same: QWebSocket::flush() writes to the operating system, and when  *)
(* that fails the socket emits disconnected() right away, which runs       *)
(* onWebSocketDisconnect() inside of handleCanFrame().  Time stamps, bit   *)
(* rates, modes and the settings sockets are left out.                     *)
(***************************************************************************)
EXTENDS Integers, Sequences, FiniteSets

CONSTANTS
  Local,      \* the local sockets
  Web,        \* the WebSockets for CAN frames
  Interface,  \* the CAN interface
  Frame,      \* bound: the frames, each sent at most once
  Error,      \* those with the error flag (0x20 in the first byte)
  NoMember    \* sender of a frame not sent yet

Member == Local \cup Web \cup {Interface}

ASSUME MemberAssumption ==
  /\ Local \cap Web = {} /\ Interface \notin Local \cup Web /\ NoMember \notin Member
ASSUME FrameAssumption == IsFiniteSet(Frame) /\ Error \subseteq Frame

VARIABLES
  btNetworkEnabledP,
  clLocalSockListP,
  clWebSockListP,
  pclInterfaceP,    \* an interface is attached
  ulCntFrameCanP,
  ulCntFrameErrP,
  inbox,            \* what a member has sent and the network not yet read
  outbox,           \* what the network has written to a member
  job,              \* the call of handleCanFrame() that is running
  sender,           \* history: who sent a frame
  log,              \* history: the frames handleCanFrame() passed on, in order
  joined,           \* history: length of log when a member was attached
  reset,            \* history: length of log when the counters were cleared
  skipped           \* history: a frame, and the WebSocket its copying went past

lists == <<clLocalSockListP, clWebSockListP>>
count == <<ulCntFrameCanP, ulCntFrameErrP, reset>>
past == <<sender, log, joined, skipped>>
vars == <<btNetworkEnabledP, lists, pclInterfaceP, count, inbox, outbox, job, past>>

Elements(s) == {s[i] : i \in DOMAIN s}
(* The list s without its element at i.                                    *)
Without(s, i) == SubSeq(s, 1, i - 1) \o SubSeq(s, i + 1, Len(s))
Open == Elements(clLocalSockListP) \cup Elements(clWebSockListP)
          \cup (IF pclInterfaceP THEN {Interface} ELSE {})

(* A call handles one frame of source at index pos of its list; index is   *)
(* the loop counter of the phase.  Indices are those of C++, from 0 on.    *)
Idle == [phase |-> "idle"]
Job(phase, source, pos, f, index) ==
  [phase |-> phase, source |-> source, pos |-> pos, frame |-> f, index |-> index]

Init ==
  /\ btNetworkEnabledP = FALSE
  /\ clLocalSockListP = <<>> /\ clWebSockListP = <<>> /\ pclInterfaceP = FALSE
  /\ ulCntFrameCanP = 0 /\ ulCntFrameErrP = 0
  /\ inbox = [m \in Member |-> <<>>] /\ outbox = [m \in Member |-> <<>>]
  /\ job = Idle
  /\ sender = [f \in Frame |-> NoMember]
  /\ log = <<>> /\ joined = [m \in Member |-> 0] /\ reset = 0
  /\ skipped = {}

------------------------------------------------------------------------------
(* Members come and go.  A new connection starts with empty buffers.       *)
Fresh(m) ==
  /\ inbox' = [inbox EXCEPT ![m] = <<>>]
  /\ outbox' = [outbox EXCEPT ![m] = <<>>]
  /\ joined' = [joined EXCEPT ![m] = Len(log)]
  /\ UNCHANGED <<btNetworkEnabledP, count, job, sender, log, skipped>>

(* The local server accepts connections while the network is enabled.      *)
onLocalSocketConnect(s) ==
  /\ job = Idle /\ btNetworkEnabledP /\ s \notin Open
  /\ clLocalSockListP' = Append(clLocalSockListP, s)
  /\ Fresh(s)
  /\ UNCHANGED <<clWebSockListP, pclInterfaceP>>

onLocalSocketDisconnect(s) ==
  /\ job = Idle
  /\ \E i \in DOMAIN clLocalSockListP :
       clLocalSockListP[i] = s /\ clLocalSockListP' = Without(clLocalSockListP, i)
  /\ Fresh(s)
  /\ UNCHANGED <<clWebSockListP, pclInterfaceP>>

(* Called by the server, whether the network is enabled or not.            *)
attachWebSocket(w) ==
  /\ job = Idle /\ w \notin Open
  /\ clWebSockListP' = Append(clWebSockListP, w)
  /\ Fresh(w)
  /\ UNCHANGED <<clLocalSockListP, pclInterfaceP>>

onWebSocketDisconnect(w) ==
  /\ job = Idle
  /\ \E i \in DOMAIN clWebSockListP :
       clWebSockListP[i] = w /\ clWebSockListP' = Without(clWebSockListP, i)
  /\ Fresh(w)
  /\ UNCHANGED <<clLocalSockListP, pclInterfaceP>>

addInterface ==
  /\ job = Idle /\ ~pclInterfaceP
  /\ pclInterfaceP' = TRUE
  /\ Fresh(Interface)
  /\ UNCHANGED lists

(* Called directly, or for a failure of the connection to the interface.   *)
removeInterface ==
  /\ job = Idle /\ pclInterfaceP
  /\ pclInterfaceP' = FALSE
  /\ Fresh(Interface)
  /\ UNCHANGED lists

(* Disabling closes the local server; sockets already connected stay.      *)
setNetworkEnabled ==
  /\ job = Idle
  /\ btNetworkEnabledP' = ~btNetworkEnabledP
  /\ UNCHANGED <<lists, pclInterfaceP, count, inbox, outbox, job, past>>

(* Mutant: the counter of error frames is not cleared. *)
ResetCanOnly ==
  /\ job = Idle
  /\ ulCntFrameCanP' = 0
  /\ reset' = Len(log)
  /\ UNCHANGED <<btNetworkEnabledP, lists, pclInterfaceP, ulCntFrameErrP, inbox, outbox, job,
                 past>>

Reset ==
  /\ job = Idle
  /\ ulCntFrameCanP' = 0 /\ ulCntFrameErrP' = 0
  /\ reset' = Len(log)
  /\ UNCHANGED <<btNetworkEnabledP, lists, pclInterfaceP, inbox, outbox, job, past>>

(* A member sends a frame.  Sockets read from the operating system in the  *)
(* event loop only, frames from the interface may come in at any time.     *)
Send(m, f) ==
  /\ m \in Open /\ (job = Idle \/ m = Interface)
  /\ sender[f] = NoMember
  /\ sender' = [sender EXCEPT ![f] = m]
  /\ inbox' = [inbox EXCEPT ![m] = Append(@, f)]
  /\ UNCHANGED <<btNetworkEnabledP, lists, pclInterfaceP, count, outbox, job, log, joined,
                 skipped>>

------------------------------------------------------------------------------
(* The handlers of readyRead() and binaryMessageReceived().                *)
Take(source, m, pos) ==
  /\ inbox[m] # <<>>
  /\ job' = Job("interface", source, pos, Head(inbox[m]), 0)
  /\ inbox' = [inbox EXCEPT ![m] = Tail(@)]

onLocalSocketNewData ==
  /\ job = Idle
  /\ \E i \in DOMAIN clLocalSockListP : Take("local", clLocalSockListP[i], i - 1)
  /\ UNCHANGED <<btNetworkEnabledP, lists, pclInterfaceP, count, outbox, past>>

onWebSocketBinaryData ==
  /\ job = Idle
  /\ \E i \in DOMAIN clWebSockListP : Take("web", clWebSockListP[i], i - 1)
  /\ UNCHANGED <<btNetworkEnabledP, lists, pclInterfaceP, count, outbox, past>>

onInterfaceNewData ==
  /\ job = Idle /\ pclInterfaceP
  /\ Take("if", Interface, 0)
  /\ UNCHANGED <<btNetworkEnabledP, lists, pclInterfaceP, count, outbox, past>>

(* Held by onWebSocketBinaryData() while it runs; not recursive.           *)
clWebSockMutexP == job.phase # "idle" /\ job.source = "web"

------------------------------------------------------------------------------
(* handleCanFrame()                                                        *)
Write(m) == outbox' = [outbox EXCEPT ![m] = Append(@, job.frame)]
Goto(phase, index) == job' = [job EXCEPT !.phase = phase, !.index = index]

WriteInterface ==
  /\ job.phase = "interface"
  /\ IF pclInterfaceP /\ job.source # "if" THEN Write(Interface) ELSE UNCHANGED outbox
  /\ Goto("local", 0)
  /\ log' = Append(log, job.frame)
  /\ UNCHANGED <<btNetworkEnabledP, lists, pclInterfaceP, count, inbox, sender, joined,
                 skipped>>

WriteLocal ==
  /\ job.phase = "local"
  /\ IF job.index < Len(clLocalSockListP)
     THEN /\ IF job.source = "local" /\ job.index = job.pos
             THEN UNCHANGED outbox
             ELSE Write(clLocalSockListP[job.index + 1])
          /\ Goto("local", job.index + 1)
     ELSE UNCHANGED outbox /\ Goto("web", 0)
  /\ UNCHANGED <<btNetworkEnabledP, lists, pclInterfaceP, count, inbox, past>>

(* Mutant: the sender is not left out. *)
WriteWebToAll ==
  /\ job.phase = "web" /\ job.index < Len(clWebSockListP)
  /\ Write(clWebSockListP[job.index + 1])
  /\ Goto("web", job.index + 1)
  /\ UNCHANGED <<btNetworkEnabledP, lists, pclInterfaceP, count, inbox, past>>

WriteWeb ==
  /\ job.phase = "web" /\ job.index < Len(clWebSockListP)
  /\ IF job.source = "web" /\ job.index = job.pos
     THEN UNCHANGED outbox
     ELSE Write(clWebSockListP[job.index + 1])
  /\ Goto("web", job.index + 1)
  /\ UNCHANGED <<btNetworkEnabledP, lists, pclInterfaceP, count, inbox, past>>

(* flush() finds the connection lost: onWebSocketDisconnect() runs inside  *)
(* of the loop.  It removes the socket from the list the loop goes over,   *)
(* unless the caller holds the mutex, which it then waits for, forever.    *)
(* The socket behind the lost one moves to its place, which is done with.  *)
Behind(i) == {clWebSockListP[j] : j \in {i + 1} \cap DOMAIN clWebSockListP}

(* Mutant: the loop ends with the lost socket. *)
LoseWebAndEnd ==
  /\ job.phase = "web" /\ job.index < Len(clWebSockListP)
  /\ ~(job.source = "web" /\ job.index = job.pos)
  /\ IF clWebSockMutexP
     THEN Goto("stuck", job.index) /\ UNCHANGED <<clWebSockListP, inbox, outbox, skipped>>
     ELSE LET w == clWebSockListP[job.index + 1] IN
          /\ clWebSockListP' = Without(clWebSockListP, job.index + 1)
          /\ inbox' = [inbox EXCEPT ![w] = <<>>]
          /\ outbox' = [outbox EXCEPT ![w] = <<>>]
          /\ Goto("web", Len(clWebSockListP))
          /\ skipped' = skipped \cup ({job.frame} \X Behind(job.index + 1))
  /\ UNCHANGED <<btNetworkEnabledP, clLocalSockListP, pclInterfaceP, count, sender, log,
                 joined>>

LoseWeb ==
  /\ job.phase = "web" /\ job.index < Len(clWebSockListP)
  /\ ~(job.source = "web" /\ job.index = job.pos)
  /\ IF clWebSockMutexP
     THEN Goto("stuck", job.index) /\ UNCHANGED <<clWebSockListP, inbox, outbox, skipped>>
     ELSE LET w == clWebSockListP[job.index + 1] IN
          /\ clWebSockListP' = Without(clWebSockListP, job.index + 1)
          /\ inbox' = [inbox EXCEPT ![w] = <<>>]
          /\ outbox' = [outbox EXCEPT ![w] = <<>>]
          /\ Goto("web", job.index + 1)
          /\ skipped' = skipped \cup ({job.frame} \X Behind(job.index + 1))
  /\ UNCHANGED <<btNetworkEnabledP, clLocalSockListP, pclInterfaceP, count, sender, log,
                 joined>>

(* After the call, the handlers of local sockets and of the interface go   *)
(* on as long as there are frames; a binary message is one frame.          *)
Return ==
  LET m == IF job.source = "local" THEN clLocalSockListP[job.pos + 1] ELSE Interface IN
  IF job.source # "web" /\ inbox[m] # <<>>
  THEN Take(job.source, m, job.pos)
  ELSE job' = Idle /\ UNCHANGED inbox

CountFrame ==
  /\ job.phase = "web" /\ job.index >= Len(clWebSockListP)
  /\ IF job.frame \in Error
     THEN ulCntFrameErrP' = ulCntFrameErrP + 1 /\ UNCHANGED ulCntFrameCanP
     ELSE ulCntFrameCanP' = ulCntFrameCanP + 1 /\ UNCHANGED ulCntFrameErrP
  /\ Return
  /\ UNCHANGED <<btNetworkEnabledP, lists, pclInterfaceP, reset, outbox, past>>

(* The interface does not take the frame: nobody gets it.                  *)
RefuseFrame ==
  /\ job.phase = "interface" /\ pclInterfaceP /\ job.source # "if"
  /\ Return
  /\ UNCHANGED <<btNetworkEnabledP, lists, pclInterfaceP, count, outbox, past>>

------------------------------------------------------------------------------
Members == \/ \E s \in Local : onLocalSocketConnect(s) \/ onLocalSocketDisconnect(s)
           \/ \E w \in Web : attachWebSocket(w) \/ onWebSocketDisconnect(w)
           \/ addInterface \/ removeInterface
           \/ setNetworkEnabled \/ Reset
           \/ \E m \in Member, f \in Frame : Send(m, f)

NewData == onLocalSocketNewData \/ onWebSocketBinaryData \/ onInterfaceNewData

handleCanFrame == \/ WriteInterface \/ RefuseFrame
                  \/ WriteLocal
                  \/ WriteWeb \/ LoseWeb
                  \/ CountFrame

Next == Members \/ NewData \/ handleCanFrame

Spec == Init /\ [][Next]_vars

(* A handler that was called runs on, and Qt calls the handlers of sockets *)
(* and interfaces that have data.                                          *)
FairSpec == Spec /\ WF_vars(handleCanFrame) /\ WF_vars(NewData)

------------------------------------------------------------------------------
(* Properties.                                                             *)

(* The frames a member should have got, by their places in log: those      *)
(* passed on since it was attached, except its own.                        *)
Due(m) == {i \in joined[m] + 1 .. Len(log) : sender[log[i]] # m}

(* The frames of out, in their order, are at the places at of log.         *)
Selects(at, out) ==
  /\ \A i \in DOMAIN out : out[i] = log[at[i]]
  /\ \A i, j \in DOMAIN out : i < j => at[i] < at[j]

(* The network is a bus: all members see the frames in one order, none of  *)
(* them twice, and no member gets its own frames back, although the sender *)
(* is only known by its position in a list that may change meanwhile.      *)
(* A frame the interface refused reaches nobody.                           *)
OrderedOnce ==
  \A m \in Open : \E at \in [DOMAIN outbox[m] -> Due(m)] : Selects(at, outbox[m])

(* When handleCanFrame() has returned, the frame is with every member but  *)
(* its sender.  The only one that may miss it is the WebSocket directly    *)
(* behind one that was found to be lost while this frame was copied: the   *)
(* ones further behind, local sockets and the interface get it.            *)
NobodyLeftOut ==
  job = Idle =>
    \A m \in Open : \A i \in Due(m) : log[i] \in Elements(outbox[m]) \/ <<log[i], m>> \in skipped

(* Once the handlers are idle, the two counters add up to the frames       *)
(* passed on since reset(), error frames in their own counter.             *)
Passed(n, F) == {i \in reset + 1 .. n : log[i] \in F}
CountsExact ==
  job = Idle =>
    /\ ulCntFrameCanP = Cardinality(Passed(Len(log), Frame \ Error))
    /\ ulCntFrameErrP = Cardinality(Passed(Len(log), Error))

------------------------------------------------------------------------------
(* What documents and comments say of the network (see README).            *)

(* qcan_network.hpp: a disabled network does not dispatch CAN frames.      *)
DisabledIsSilent == [][WriteInterface => btNetworkEnabledP]_vars

(* qcan_network.cpp: onWebSocketBinaryData() unlocks the mutex of the      *)
(* WebSockets in the end.                                                  *)
MutexUnlocked == clWebSockMutexP ~> ~clWebSockMutexP
==============================================================================
