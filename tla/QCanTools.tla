------------------------------- MODULE QCanTools -------------------------------
(***************************************************************************)
(* One run of a command line tool: can-send, can-dump, can-config or       *)
(* can-error.  All but the last first ask the server for its settings      *)
(* (qcan_server_settings.cpp), then for those of the network, and attach   *)
(* a CAN socket when these have come.  The server routes the WebSockets    *)
(* (QCanServer::onWebSocketServerConnect), and may end and start at any    *)
(* time; a disabled network refuses local sockets.                         *)
(*                                                                         *)
(* Of QCanSocket, this module uses what module QCanSocket shows: the flag, *)
(* the signals and the connection agree.  A call with an error in its      *)
(* options ends before it connects, and is left out.                       *)
(***************************************************************************)
EXTENDS Integers, Sequences, SequencesExt, Subsequences

CONSTANTS
  Calls,         \* the tools with their options
  NetworkCount,  \* networks of the server
  NumberWidth,   \* 2^8, the width of the number of a network in the server
  CountWidth,    \* 2^32, the width of ulQuitCountP
  IdLimit,       \* QCAN_FRAME_ID_MASK_STD + 1
  DlcLimit,      \* the largest DLC + 1
  MaxFrames,     \* bound: frames the network sends to can-dump
  MaxChange,     \* bound: changes of server, network and connection
  MaxAttach      \* bound: other programs that attach for settings

VARIABLES
  t,         \* the members of the tool and its connections
  there,     \* external: the server is there
  enabled,   \* external: the networks are enabled
  onBus,     \* history: what networks have received from the tool
  due,       \* history: what the network has sent while can-dump was attached
  shown,     \* history: what the tool has printed
  trouble,   \* history: the server or its networks were not there for a while
  changes, attaches

outside == <<there, enabled, trouble, changes>>
history == <<onBus, due, shown>>
toolVars == <<t, outside, history, attaches>>

New(call) ==
  [call |-> call, running |-> TRUE, loop |-> FALSE, timers |-> {"parse"},
   settings |-> "none", object |-> FALSE, net |-> "none", objects |-> 0, listens |-> TRUE,
   channel |-> IF call.all THEN 1 ELSE call.channel,
   sock |-> "none", reached |-> 0, in |-> <<>>,
   count |-> call.count, id |-> call.id, dlc |-> call.dlc]

Init ==
  /\ \E call \in Calls : t = New(call)
  /\ there \in BOOLEAN /\ enabled \in BOOLEAN /\ trouble = ~(there /\ enabled)
  /\ onBus = <<>> /\ due = <<>> /\ shown = <<>> /\ changes = 0 /\ attaches = 0

Tool == t.call.tool
App == t.running /\ ~t.loop
Fires(timer) == App /\ timer \in t.timers
Fired(timer) == [t EXCEPT !.timers = @ \ {timer}]

(* quit() and the end of the event loop, which drops all other events.     *)
quit(d) == [d EXCEPT !.running = FALSE, !.loop = FALSE, !.sock = "down"]

connectNetwork(d) == [d EXCEPT !.sock = "pending"]

runCmdParser ==
  /\ Fires("parse")
  /\ t' = IF Tool = "error" THEN connectNetwork(Fired("parse"))
          ELSE [Fired("parse") EXCEPT !.settings = "opening"]
  /\ UNCHANGED <<outside, history, attaches>>

------------------------------------------------------------------------------
(* The server.                                                             *)

(* onWebSocketServerConnect(): number - 1 is cast to uint8_t; 0 says that  *)
(* there is no such network and the WebSocket is closed.                   *)
Route(number) ==
  LET index == (number - 1) % NumberWidth
  IN IF number > 0 /\ index < NetworkCount THEN index + 1 ELSE 0

(* A server that ends takes its connections with it.                       *)
Broken(state) == IF state \in {"open", "up"} THEN "broken" ELSE state
ServerChanges ==
  /\ changes < MaxChange /\ changes' = changes + 1 /\ trouble' = TRUE
  /\ there' = ~there
  /\ t' = [t EXCEPT !.settings = Broken(@), !.net = Broken(@), !.sock = Broken(@)]
  /\ UNCHANGED <<enabled, history, attaches>>

NetworkChanges ==
  /\ changes < MaxChange /\ changes' = changes + 1 /\ trouble' = TRUE
  /\ enabled' = ~enabled
  /\ UNCHANGED <<t, there, history, attaches>>

(* The connection of the CAN socket alone is lost.                         *)
ConnectionFails ==
  /\ changes < MaxChange /\ changes' = changes + 1 /\ trouble' = TRUE
  /\ t.sock = "up" /\ t' = [t EXCEPT !.sock = "broken"]
  /\ UNCHANGED <<there, enabled, history, attaches>>

NetworkSends(passes) ==
  /\ t.running /\ Tool = "dump" /\ t.sock = "up" /\ Len(due) < MaxFrames
  /\ LET frame == [number |-> Len(due) + 1, passes |-> passes]
     IN due' = Append(due, frame) /\ t' = [t EXCEPT !.in = Append(@, frame)]
  /\ UNCHANGED <<outside, onBus, shown, attaches>>

(* The settings of a network go to all who are attached for settings       *)
(* whenever one more attaches.                                             *)
OtherAttaches ==
  /\ t.running /\ t.net = "open" /\ attaches < MaxAttach
  /\ t' = [t EXCEPT !.objects = @ + 1] /\ attaches' = attaches + 1
  /\ UNCHANGED <<outside, history>>

------------------------------------------------------------------------------
(* The settings of the server and of the network.                          *)

ServerConnected ==
  /\ App /\ t.settings = "opening" /\ there
  /\ t' = [t EXCEPT !.settings = "open", !.object = TRUE]
  /\ UNCHANGED <<outside, history, attaches>>

(* Mutant: a server that is not there is told from one that has gone.      *)
OnlyWhenLost ==
  /\ App
  /\ t.settings = "broken" \/ (t.settings = "opening" /\ ~there)
  /\ t' = IF t.settings = "broken" THEN quit(t) ELSE [t EXCEPT !.settings = "down"]
  /\ UNCHANGED <<outside, history, attaches>>

(* Refused, closed or lost: every state other than active ends the tool.   *)
onServerStateChanged ==
  /\ App
  /\ t.settings = "broken" \/ (t.settings = "opening" /\ ~there)
  /\ t' = quit(t)
  /\ UNCHANGED <<outside, history, attaches>>

(* Mutant: the number is not compared with networkCount().                 *)
ConnectsAnyway ==
  /\ App /\ t.object
  /\ t' = [t EXCEPT !.object = FALSE, !.net = "opening"]
  /\ UNCHANGED <<outside, history, attaches>>

onServerObjectReceived ==
  /\ App /\ t.object
  /\ LET d == [t EXCEPT !.object = FALSE]
     IN t' = IF t.channel <= NetworkCount THEN [d EXCEPT !.net = "opening"] ELSE quit(d)
  /\ UNCHANGED <<outside, history, attaches>>

SettingsConnected ==
  /\ App /\ t.net = "opening" /\ there
  /\ t' = [t EXCEPT !.net = "open", !.objects = 1]
  /\ UNCHANGED <<outside, history, attaches>>

(* No tool listens to the state of the network's settings.                 *)
SettingsGone ==
  /\ App
  /\ t.net = "broken" \/ (t.net = "opening" /\ ~there)
  /\ t' = [t EXCEPT !.net = "down", !.objects = 0]
  /\ UNCHANGED <<outside, history, attaches>>

Object == [t EXCEPT !.objects = @ - 1]

(* can-send and can-dump look at the first object only.                    *)
AttachSocket ==
  /\ App /\ t.objects > 0 /\ Tool \in {"send", "dump"}
  /\ t' = IF t.listens THEN connectNetwork([Object EXCEPT !.listens = FALSE]) ELSE Object
  /\ UNCHANGED <<outside, history, attaches>>

(* execCommand(), for every object that comes within 50 ms.                *)
ExecCommand ==
  /\ App /\ t.objects > 0 /\ Tool = "config" /\ t.call.command /\ ~t.call.all
  /\ t' = [Object EXCEPT !.timers = @ \cup {"quit"}]
  /\ onBus' = IF t.net = "open" THEN Append(onBus, t.channel) ELSE onBus
  /\ UNCHANGED <<outside, due, shown, attaches>>

(* closeConnection() leaves nothing of the old connection behind.          *)
ShowSettings ==
  /\ App /\ t.objects > 0 /\ Tool = "config" /\ (t.call.all \/ ~t.call.command)
  /\ shown' = Append(shown, t.channel)
  /\ t' = IF t.call.all /\ t.channel < NetworkCount
          THEN [t EXCEPT !.channel = @ + 1, !.net = "opening", !.objects = 0]
          ELSE quit(t)
  /\ UNCHANGED <<outside, onBus, due, attaches>>

------------------------------------------------------------------------------
(* The CAN socket.                                                         *)

Reachable == there /\ (t.call.local => enabled /\ t.channel <= NetworkCount)

onSocketConnected ==
  /\ App /\ t.sock = "pending" /\ Reachable
  /\ LET number == IF t.call.local THEN t.channel ELSE Route(t.channel)
         timer == IF Tool # "dump" THEN {"send"}
                  ELSE IF t.call.time THEN {"activity"} ELSE {}
     IN t' = [t EXCEPT !.sock = IF number = 0 THEN "broken" ELSE "up",
                       !.reached = number, !.timers = @ \cup timer]
  /\ UNCHANGED <<outside, history, attaches>>

(* A local socket ends the event loop itself.  can-error connects a slot   *)
(* to the signal error(), which QCanSocket does not have.                  *)
onSocketError ==
  /\ App /\ t.sock = "pending" /\ ~Reachable
  /\ t' = IF t.call.local \/ Tool # "error" THEN quit(t) ELSE [t EXCEPT !.sock = "down"]
  /\ UNCHANGED <<outside, history, attaches>>

(* onSocketDisconnected(), after which an error may end the tool.          *)
SocketLost(orderly) ==
  /\ App /\ t.sock = "broken" /\ (t.call.local => ~orderly)
  /\ t' = IF ~orderly /\ (t.call.local \/ Tool # "error") THEN quit(t)
          ELSE [t EXCEPT !.sock = "down", !.count = IF Tool = "send" THEN 0 ELSE @]
  /\ UNCHANGED <<outside, history, attaches>>

(* write(), of a frame that is all the network will get.                   *)
Written(id, dlc) ==
  IF t.sock = "up" THEN Append(onBus, [id |-> id, dlc |-> dlc, network |-> t.reached])
  ELSE onBus

(* sendFrame(): the first frame, then the loop, which does not return to   *)
(* the event loop, and at last a time to let the frames out.               *)
StartSending ==
  /\ Fires("send") /\ Tool = "send"
  /\ t' = [Fired("send") EXCEPT !.loop = TRUE] /\ onBus' = Written(t.id, t.dlc)
  /\ UNCHANGED <<outside, due, shown, attaches>>

Incremented(value, limit) == IF value + 1 < limit THEN value + 1 ELSE 0
SendNext ==
  /\ t.loop /\ t.count > 1
  /\ LET id == IF "I" \in t.call.inc THEN Incremented(t.id, IdLimit) ELSE t.id
         dlc == IF "D" \in t.call.inc THEN Incremented(t.dlc, DlcLimit) ELSE t.dlc
     IN /\ onBus' = Written(id, dlc)
        /\ t' = [t EXCEPT !.count = @ - 1, !.id = id, !.dlc = dlc]
  /\ UNCHANGED <<outside, due, shown, attaches>>

SendingDone ==
  /\ t.loop /\ t.count <= 1
  /\ t' = [t EXCEPT !.loop = FALSE, !.timers = @ \cup {"quit"}]
  /\ UNCHANGED <<outside, history, attaches>>

(* flush() may notice the loss: the slots set the count to 0 and quit.     *)
WriteFails ==
  /\ t.loop /\ t.sock = "broken"
  /\ t' = quit(t)
  /\ UNCHANGED <<outside, history, attaches>>

sendErrorFrame ==
  /\ Fires("send") /\ Tool = "error"
  /\ onBus' = Written(t.id, t.dlc)
  /\ t' = IF t.count > 1 THEN [t EXCEPT !.count = @ - 1]
          ELSE [Fired("send") EXCEPT !.timers = @ \cup {"quit"}]
  /\ UNCHANGED <<outside, due, shown, attaches>>

(* The frames that pass the filters of can-dump.                           *)
Passing == [number : Nat, passes : {TRUE}]
Passed(frames) == Only(frames, Passing)

(* All frames of a local socket that have arrived, or one of a WebSocket;  *)
(* the loop does not stop at the last frame that was asked for.            *)
onSocketReceive ==
  /\ App /\ t.in # <<>>
  /\ LET n == IF t.call.local THEN Len(t.in) ELSE 1
         printed == Passed(SubSeq(t.in, 1, n))
         d == [t EXCEPT !.in = SubSeq(@, n + 1, Len(@)),
                        !.count = (@ - Len(printed)) % CountWidth]
     IN /\ shown' = shown \o printed
        /\ t' = IF t.count \in 1 .. Len(printed) THEN quit(d) ELSE d
  /\ UNCHANGED <<outside, onBus, due, attaches>>

(* quit(), 50 ms after the last frame or command, or after a time without  *)
(* reception.                                                              *)
TimeToQuit ==
  /\ Fires("quit") \/ Fires("activity")
  /\ t' = quit(t)
  /\ UNCHANGED <<outside, history, attaches>>

------------------------------------------------------------------------------
ToolStep ==
  \/ runCmdParser \/ ServerConnected \/ onServerStateChanged \/ onServerObjectReceived
  \/ SettingsConnected \/ SettingsGone \/ AttachSocket \/ ExecCommand \/ ShowSettings
  \/ onSocketConnected \/ onSocketError \/ \E orderly \in BOOLEAN : SocketLost(orderly)
  \/ StartSending \/ SendNext \/ SendingDone \/ WriteFails \/ sendErrorFrame
  \/ onSocketReceive \/ TimeToQuit

Next ==
  \/ ToolStep \/ ServerChanges \/ NetworkChanges \/ ConnectionFails \/ OtherAttaches
  \/ \E passes \in BOOLEAN : NetworkSends(passes)

(* Qt delivers events and expired timers, and answers attempts to connect. *)
ToolFairness == WF_toolVars(ToolStep)
Spec == Init /\ [][Next]_toolVars /\ ToolFairness

------------------------------------------------------------------------------
(* The network that a call means.  Over a WebSocket, can-error does not    *)
(* ask how many networks there are, and the server looks at the lowest     *)
(* byte of the number.                                                     *)
Named(call) ==
  IF call.tool = "error" /\ ~call.local THEN ((call.channel - 1) % NumberWidth) + 1
  ELSE call.channel

(* Nothing was missing: the tool had what it needed.                       *)
Undisturbed == ~t.running /\ ~trouble /\ Named(t.call) <= NetworkCount

Least(count) == IF count = 0 THEN 1 ELSE count
Asked(call) ==
  [k \in 1 .. Least(call.count) |->
     [id |-> IF "I" \in call.inc THEN (call.id + k - 1) % IdLimit ELSE call.id,
      dlc |-> IF "D" \in call.inc THEN (call.dlc + k - 1) % DlcLimit ELSE call.dlc,
      network |-> Named(call)]]

(* The network of the call, and no other, gets the frames that were asked  *)
(* for, in order, whenever the server ends or starts; all of them if it    *)
(* did not.                                                                *)
SendsAsAsked ==
  Tool \in {"send", "error"}
    => IsPrefix(onBus, Asked(t.call)) /\ (Undisturbed => onBus = Asked(t.call))

(* can-dump prints the frames that pass its filters, in order, ends as     *)
(* soon as the number asked for is reached, and for no other reason.       *)
DumpsAsAsked ==
  Tool = "dump" =>
    /\ IsPrefix(shown, Passed(due))
    /\ t.running /\ t.call.count > 0 => Len(shown) < t.call.count
    /\ Undisturbed /\ ~t.call.time => t.call.count \in 1 .. Len(shown)

(* A command reaches its network, and with option -a every network is      *)
(* shown once.                                                             *)
ConfiguresAsAsked ==
  Tool = "config" =>
    /\ \A k \in DOMAIN onBus : onBus[k] = t.call.channel
    /\ \A k \in DOMAIN shown : t.call.all => shown[k] = k
    /\ Undisturbed /\ t.call.all => Len(shown) = NetworkCount
    /\ Undisturbed /\ ~t.call.all => Len(onBus) + Len(shown) > 0

(* The tools do what their options say (runCmdParser of each).  What a     *)
(* command of can-config sets is part of QCanNetworkSettings.              *)
AsAsked == SendsAsAsked /\ DumpsAsAsked /\ ConfiguresAsAsked

(* can-send and can-config end whatever becomes of the server, and         *)
(* can-error on the local machine; can-dump ends when the server is gone,  *)
(* and with option -T when nothing is received any more.                   *)
MustEnd ==
  \/ Tool \in {"send", "config"}
  \/ Tool = "error" /\ t.call.local
  \/ Tool = "dump" /\ (t.settings = "broken" \/ (t.call.time /\ t.sock = "up"))
ToolEnds == (t.running /\ MustEnd) ~> ~t.running

(* "Terminate after transmission of <count> error frames"                  *)
(* (qcan_error.cpp, option -n).                                            *)
ErrorEnds == (t.running /\ Tool = "error") ~> ~t.running
================================================================================
