------------------------------ MODULE QCanSocket ------------------------------
(***************************************************************************)
(* The CAN socket of an application (qcan_socket.cpp): a local socket or a *)
(* WebSocket to a network of the server, the flag of the connection, and   *)
(* the FIFO of received frames.                                            *)
(*                                                                         *)
(* The Qt sockets and the server are external.  A local socket connects in *)
(* connectToServer() or later, a WebSocket always later.  abort() of a     *)
(* socket that is in use emits disconnected() before it returns, so a slot *)
(* of the application runs in the middle of the error handlers.            *)
(***************************************************************************)
EXTENDS Integers, Sequences

CONSTANTS
  Frame,       \* bound: the frames the network sends, each once
  MaxSockets,  \* bound: Qt sockets that are created
  Patient,     \* the application waits for the answer of connectNetwork()
               \* before it calls it again or sets another host address
  Reconnects   \* the kinds of socket for which the application may call
               \* connectNetwork() in a slot of disconnected()

ASSUME SocketAssumption ==
  /\ MaxSockets \in Nat \ {0} /\ Patient \in BOOLEAN /\ Reconnects \subseteq {"local", "web"}

VARIABLES
  c,          \* the members of QCanSocket, the Qt sockets, and what the
              \* application believes (view) from the signals it got
  server,     \* external: the server is there
  exec,       \* the event loop of the thread runs
  crashed,    \* a null pointer was used
  sent,       \* history: the frames the network has sent
  taken       \* history: the frames read() has returned

vars == <<c, server, exec, crashed, sent, taken>>

Socket == 1 .. Len(c.sock)
Live == {"pending", "up"}
Elements(s) == {s[i] : i \in DOMAIN s}

Init ==
  /\ c = [btIsConnectedP |-> FALSE, btIsLocalConnectionP |-> TRUE,
          pclLocalSocketP |-> 0, pclWebSocketP |-> 0, clReceiveFifoP |-> <<>>,
          sock |-> <<>>, view |-> "idle"]
  /\ server = TRUE /\ exec = TRUE /\ crashed = FALSE /\ sent = <<>> /\ taken = <<>>

------------------------------------------------------------------------------
(* Methods, as operators on c.  later: the local socket does not connect   *)
(* at once.                                                                *)
Pointer(d) == IF d.btIsLocalConnectionP THEN d.pclLocalSocketP ELSE d.pclWebSocketP

onSocketConnect(d, k) ==
  [d EXCEPT !.sock[k].state = "up", !.btIsConnectedP = TRUE, !.view = "connected"]

NewSocket(kind, state) == [kind |-> kind, state |-> state, in |-> <<>>]

(* Mutant: the WebSocket is kept in the other pointer. *)
SwappedPointer(d, later) ==
  IF d.btIsConnectedP THEN d
  ELSE [d EXCEPT !.view = "connecting", !.sock = Append(@, NewSocket("web", "pending")),
                 !.pclLocalSocketP = Len(d.sock) + 1]

(* A refused local socket only reports the error.                          *)
connectNetwork(d, later) ==
  LET n == Len(d.sock) + 1
      web == [d EXCEPT !.view = "connecting", !.pclWebSocketP = n,
                       !.sock = Append(@, NewSocket("web", "pending"))]
      local == [d EXCEPT !.view = "connecting", !.pclLocalSocketP = n,
                         !.sock = Append(@, NewSocket("local", "pending"))]
  IN IF d.btIsConnectedP THEN d
     ELSE IF ~d.btIsLocalConnectionP THEN web
     ELSE IF later THEN local
     ELSE IF server THEN onSocketConnect(local, n)
     ELSE [local EXCEPT !.sock[n].state = "down", !.view = "idle"]

(* The signals are disconnected before: the application hears nothing.     *)
disconnectNetwork(d) ==
  LET k == Pointer(d)
      gone == IF k = 0 THEN d ELSE [d EXCEPT !.sock[k].state = "gone", !.sock[k].in = <<>>]
  IN IF d.btIsLocalConnectionP
     THEN [gone EXCEPT !.btIsConnectedP = FALSE, !.pclLocalSocketP = 0]
     ELSE [gone EXCEPT !.btIsConnectedP = FALSE, !.pclWebSocketP = 0]

(* onSocketDisconnect() and the slot of the application.                   *)
onSocketDisconnect(d, kind, again, later) ==
  LET e == [d EXCEPT !.btIsConnectedP = FALSE, !.view = "idle"]
  IN IF again /\ kind \in Reconnects /\ Len(d.sock) < MaxSockets
     THEN connectNetwork(e, later) ELSE e

abort(d, k, again, later) ==
  IF d.sock[k].state \notin Live THEN d
  ELSE onSocketDisconnect([d EXCEPT !.sock[k].state = "down", !.sock[k].in = <<>>],
                          d.sock[k].kind, again, later)

(* Mutant: the socket is not aborted. *)
LeavesSocket(d, again, later) == [d EXCEPT !.btIsConnectedP = FALSE, !.view = "idle"]

(* PeerClosedError and ConnectionError; the event loop ends.               *)
onSocketErrorLocal(d, again, later) ==
  LET a == abort(d, d.pclLocalSocketP, again, later)
  IN [a EXCEPT !.btIsConnectedP = FALSE, !.view = "idle"]

(* Mutant: the network is left, but disconnected() is not emitted again.   *)
LeavesQuietly(d, again, again2, later) ==
  disconnectNetwork([abort(d, d.pclWebSocketP, again, later) EXCEPT !.btIsConnectedP = FALSE])

(* Mutant: the socket of the pointer is not deleted.                       *)
KeepsNew(d, again, again2, later) ==
  LET a == abort(d, d.pclWebSocketP, again, later)
  IN onSocketDisconnect([a EXCEPT !.btIsConnectedP = FALSE], "web", again2, later)

(* RemoteHostClosedError and NetworkError: disconnected() comes twice.     *)
onSocketErrorWeb(d, again, again2, later) ==
  LET a == abort(d, d.pclWebSocketP, again, later)
      e == disconnectNetwork([a EXCEPT !.btIsConnectedP = FALSE])
  IN onSocketDisconnect(e, "web", again2, later)

------------------------------------------------------------------------------
(* The application, in its event loop.                                     *)
App == exec /\ ~crashed
Waits == Patient => c.view = "idle"

AppConnect(later) ==
  /\ App /\ Waits /\ Len(c.sock) < MaxSockets
  /\ c' = connectNetwork(c, later)
  /\ exec' = (c'.btIsConnectedP \/ later \/ ~c.btIsLocalConnectionP)
  /\ UNCHANGED <<server, crashed, sent, taken>>

AppDisconnect ==
  /\ App /\ c.view # "idle"
  /\ c' = [disconnectNetwork(c) EXCEPT !.view = "idle"]
  /\ UNCHANGED <<server, exec, crashed, sent, taken>>

setHostAddress(local) ==
  /\ App /\ Waits /\ ~c.btIsConnectedP /\ local # c.btIsLocalConnectionP
  /\ c' = [c EXCEPT !.btIsLocalConnectionP = local]
  /\ UNCHANGED <<server, exec, crashed, sent, taken>>

write ==
  /\ App /\ c.btIsConnectedP
  /\ crashed' = (Pointer(c) = 0)
  /\ UNCHANGED <<c, server, exec, sent, taken>>

read ==
  /\ App /\ c.clReceiveFifoP # <<>>
  /\ taken' = Append(taken, Head(c.clReceiveFifoP))
  /\ c' = [c EXCEPT !.clReceiveFifoP = Tail(@)]
  /\ UNCHANGED <<server, exec, crashed, sent>>

(* The loop ends for every error of a local socket; the program may go on. *)
Resume == ~exec /\ ~crashed /\ exec' = TRUE /\ UNCHANGED <<c, server, crashed, sent, taken>>

------------------------------------------------------------------------------
(* Events of the sockets.                                                  *)
Accepted(k) ==
  /\ App /\ server /\ c.sock[k].state = "pending"
  /\ c' = onSocketConnect(c, k)
  /\ UNCHANGED <<server, exec, crashed, sent, taken>>

(* An error of the default branch; a WebSocket emits disconnected(), too.  *)
Refused(k, again) ==
  /\ App /\ ~server /\ c.sock[k].state = "pending"
  /\ IF c.sock[k].kind = "local"
     THEN /\ c' = [c EXCEPT !.sock[k].state = "down", !.view = "idle"]
          /\ exec' = FALSE
     ELSE /\ c' = onSocketDisconnect([c EXCEPT !.sock[k].state = "down"], "web", again, FALSE)
          /\ UNCHANGED exec
  /\ UNCHANGED <<server, crashed, sent, taken>>

(* The handler of a local error uses the pointer, not the sender.          *)
LocalFails(k, again, later) ==
  /\ App /\ c.sock[k].state = "up" /\ c.sock[k].kind = "local"
  /\ IF c.pclLocalSocketP = 0
     THEN crashed' = TRUE /\ UNCHANGED <<c, exec>>
     ELSE /\ c' = onSocketErrorLocal(
                    [c EXCEPT !.sock[k].state = IF k = c.pclLocalSocketP THEN @ ELSE "down"],
                    again, later)
          /\ exec' = FALSE /\ UNCHANGED crashed
  /\ UNCHANGED <<server, sent, taken>>

WebFails(k, again, again2) ==
  /\ App /\ c.sock[k].state = "up" /\ c.sock[k].kind = "web"
  /\ IF c.pclWebSocketP = 0
     THEN crashed' = TRUE /\ UNCHANGED c
     ELSE /\ c' = onSocketErrorWeb(
                    [c EXCEPT !.sock[k].state = IF k = c.pclWebSocketP THEN @ ELSE "down"],
                    again, again2, FALSE)
          /\ UNCHANGED crashed
  /\ UNCHANGED <<server, exec, sent, taken>>

(* The server closes a WebSocket in an orderly way: no error.              *)
WebCloses(k, again) ==
  /\ App /\ c.sock[k].state = "up" /\ c.sock[k].kind = "web" /\ c.sock[k].in = <<>>
  /\ c' = onSocketDisconnect([c EXCEPT !.sock[k].state = "down"], "web", again, FALSE)
  /\ UNCHANGED <<server, exec, crashed, sent, taken>>

(* A server that is there serves every connection it has accepted.         *)
ServerChanges == server' = ~server /\ UNCHANGED <<c, exec, crashed, sent, taken>>
NetworkSends(f) ==
  /\ server /\ f \notin Elements(sent) /\ sent' = Append(sent, f)
  /\ c' = [c EXCEPT !.sock = [k \in Socket |->
             IF c.sock[k].state = "up" THEN [c.sock[k] EXCEPT !.in = Append(@, f)]
                                       ELSE c.sock[k]]]
  /\ UNCHANGED <<server, exec, crashed, taken>>

(* Mutant: the frames are not taken out of the socket. *)
ReceivePeeks(k) ==
  /\ App /\ c.sock[k].state = "up" /\ c.sock[k].kind = "local" /\ c.sock[k].in # <<>>
  /\ c' = [c EXCEPT !.clReceiveFifoP = @ \o c.sock[c.pclLocalSocketP].in]
  /\ UNCHANGED <<server, exec, crashed, sent, taken>>

(* All that has arrived, from the socket of the pointer.                   *)
onSocketReceiveLocal(k) ==
  LET n == c.pclLocalSocketP
  IN /\ App /\ c.sock[k].state = "up" /\ c.sock[k].kind = "local" /\ c.sock[k].in # <<>>
     /\ IF n = 0 THEN crashed' = TRUE /\ UNCHANGED c
        ELSE /\ c' = [c EXCEPT !.clReceiveFifoP = @ \o c.sock[n].in, !.sock[n].in = <<>>]
             /\ UNCHANGED crashed
     /\ UNCHANGED <<server, exec, sent, taken>>

(* One message.                                                            *)
onSocketReceiveWeb(k) ==
  /\ App /\ c.sock[k].state = "up" /\ c.sock[k].kind = "web" /\ c.sock[k].in # <<>>
  /\ c' = [c EXCEPT !.clReceiveFifoP = Append(@, Head(c.sock[k].in)), !.sock[k].in = Tail(@)]
  /\ UNCHANGED <<server, exec, crashed, sent, taken>>

Next ==
  \/ AppDisconnect \/ write \/ read \/ Resume \/ ServerChanges
  \/ \E b \in BOOLEAN : AppConnect(b) \/ setHostAddress(b)
  \/ \E f \in Frame : NetworkSends(f)
  \/ \E k \in Socket :
       \/ Accepted(k) \/ onSocketReceiveLocal(k) \/ onSocketReceiveWeb(k)
       \/ \E again, more \in BOOLEAN : LocalFails(k, again, more) \/ WebFails(k, again, more)
       \/ \E again \in BOOLEAN : Refused(k, again) \/ WebCloses(k, again)

(* Qt answers an attempt and hands out what has arrived; the program       *)
(* returns to its event loop.                                              *)
Answer == \E k \in Socket : Accepted(k) \/ \E again \in BOOLEAN : Refused(k, again)
Receive == \E k \in Socket : onSocketReceiveLocal(k) \/ onSocketReceiveWeb(k)
Fairness == WF_vars(Answer) /\ WF_vars(Receive) /\ WF_vars(Resume)
Spec == Init /\ [][Next]_vars /\ Fairness

------------------------------------------------------------------------------
TypeOK ==
  /\ c.btIsConnectedP \in BOOLEAN /\ c.btIsLocalConnectionP \in BOOLEAN
  /\ c.pclLocalSocketP # 0 => c.sock[c.pclLocalSocketP].kind = "local"
  /\ c.pclWebSocketP # 0 => c.sock[c.pclWebSocketP].kind = "web"
  /\ Len(c.sock) <= MaxSockets /\ c.view \in {"idle", "connecting", "connected"}
  /\ \A k \in Socket : c.sock[k].kind \in {"local", "web"}
                       /\ c.sock[k].state \in Live \cup {"down", "gone"}
  /\ c.clReceiveFifoP \in Seq(Frame) /\ taken \in Seq(Frame)
  /\ server \in BOOLEAN /\ exec \in BOOLEAN /\ crashed \in BOOLEAN

(* "true if connected to a CAN network, false if not connected"            *)
(* (qcan_socket.hpp:145): so also for write(), which follows the pointer   *)
(* without a check, and for the signals the application has got.           *)
IsConnected ==
  /\ c.btIsConnectedP <=> Pointer(c) # 0 /\ c.sock[Pointer(c)].state = "up"
  /\ c.btIsConnectedP <=> c.view = "connected"
  /\ ~crashed

(* "A socket can connect only once to a single CAN network"                *)
(* (qcan_socket.hpp:95): whatever fails in whatever order, no second Qt    *)
(* socket stays alive beside the one the pointer knows.                    *)
OnlyOnce == \A k \in Socket : c.sock[k].state \in Live => k = Pointer(c)

(* Frames are read in the order the network sent them and none twice,      *)
(* across connections that fail and are made again.                        *)
Position(f) == CHOOSE k \in DOMAIN sent : sent[k] = f
Received == taken \o c.clReceiveFifoP
ReadInOrder == \A j, k \in DOMAIN Received :
  j < k => Position(Received[j]) < Position(Received[k])

(* An attempt to connect is answered, and a frame that has arrived is not  *)
(* left in a Qt socket.                                                    *)
Arrived(f) == \E k \in Socket : f \in Elements(c.sock[k].in)
Answered ==
  /\ (c.view = "connecting") ~> (c.view # "connecting")
  /\ \A f \in Frame : Arrived(f) ~> ~Arrived(f)
==============================================================================
