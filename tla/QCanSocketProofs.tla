--------------------------- MODULE QCanSocketProofs ---------------------------
(***************************************************************************)
(* Theorems about the CAN socket, for any number of Qt sockets and frames, *)
(* of a program that waits for the answer to connectNetwork() and that     *)
(* reconnects only WebSockets in the slot of disconnected(); and about     *)
(* the tools, for any options and whatever the server does.                *)
(***************************************************************************)
EXTENDS MCQCanTools, Subsequences, WellFoundedInduction, TLAPS

(* What IsConnected and OnlyOnce ask of the program.                       *)
Discipline == Patient /\ Reconnects \subseteq {"web"}

State == Live \cup {"down", "gone"}
QtSocket == [kind : {"local", "web"}, state : State, in : Seq(Frame)]
Members ==
  [btIsConnectedP : BOOLEAN, btIsLocalConnectionP : BOOLEAN,
   pclLocalSocketP : Nat, pclWebSocketP : Nat, clReceiveFifoP : Seq(Frame),
   sock : Seq(QtSocket), view : {"idle", "connecting", "connected"}]

SocketOf(d) == 1 .. Len(d.sock)

(* A pointer is null or points to a socket of its kind.                    *)
Points(d, n, which) == n # 0 => n \in SocketOf(d) /\ d.sock[n].kind = which

Shape(d) ==
  /\ d \in Members /\ Len(d.sock) <= MaxSockets
  /\ Points(d, d.pclLocalSocketP, "local") /\ Points(d, d.pclWebSocketP, "web")

(* No socket is in use: what holds in the middle of the error handlers.    *)
Quiet(d) == \A k \in SocketOf(d) : d.sock[k].state \notin Live
Single(d) == \A k \in SocketOf(d) : d.sock[k].state \in Live => k = Pointer(d)

(* The signals, the flag and the sockets tell the same.                    *)
Status(d) ==
  /\ Single(d) /\ (d.btIsConnectedP <=> d.view = "connected")
  /\ d.view = "idle" => Quiet(d)
  /\ d.view = "connecting" => Pointer(d) # 0 /\ d.sock[Pointer(d)].state = "pending"
  /\ d.view = "connected" => Pointer(d) # 0 /\ d.sock[Pointer(d)].state = "up"

Good(d) == Shape(d) /\ Status(d)

SocketInv ==
  /\ Good(c) /\ crashed = FALSE /\ server \in BOOLEAN /\ exec \in BOOLEAN
  /\ sent \in Seq(Frame) /\ taken \in Seq(Frame)

------------------------------------------------------------------------------
IsAppended(d, which, new) == new = Append(d.sock, NewSocket(which, "pending"))

(* What a new Qt socket leaves of the old ones.                          *)
LEMMA Appended ==
  ASSUME NEW d, Shape(d), NEW which \in {"local", "web"},
         NEW new, IsAppended(d, which, new)
  PROVE  /\ new \in Seq(QtSocket) /\ Len(new) = Len(d.sock) + 1
         /\ new[Len(d.sock) + 1].kind = which /\ new[Len(d.sock) + 1].state = "pending"
         /\ new[Len(d.sock) + 1].in = <<>>
         /\ \A k \in 1 .. Len(d.sock) : new[k] = d.sock[k]
<1>1. NewSocket(which, "pending") \in QtSocket BY DEF NewSocket, QtSocket, State, Live
<1>2. d.sock \in Seq(QtSocket) BY DEF Shape, Members
<1>3. /\ NewSocket(which, "pending").kind = which /\ NewSocket(which, "pending").state = "pending"
      /\ NewSocket(which, "pending").in = <<>>
  BY DEF NewSocket
<1> HIDE DEF NewSocket, QtSocket
<1> QED BY <1>1, <1>2, <1>3 DEF IsAppended

StateBecomes(d, k, st, e) ==
  \/ e = [d EXCEPT !.sock[k].state = st]
  \/ e = [d EXCEPT !.sock[k].state = st, !.sock[k].in = <<>>]

(* What the new state of a Qt socket leaves of the members.                *)
LEMMA StateSet ==
  ASSUME NEW d, Shape(d), NEW k \in SocketOf(d), NEW st \in State,
         NEW e, StateBecomes(d, k, st, e)
  PROVE  /\ Shape(e) /\ SocketOf(e) = SocketOf(d) /\ Len(e.sock) = Len(d.sock)
         /\ e.sock[k].state = st
         /\ \A j \in SocketOf(d) : j # k => e.sock[j].state = d.sock[j].state
         /\ \A j \in SocketOf(d) : e.sock[j].kind = d.sock[j].kind
         /\ (e.btIsConnectedP <=> d.btIsConnectedP) /\ e.view = d.view
         /\ e.btIsLocalConnectionP = d.btIsLocalConnectionP
         /\ e.pclLocalSocketP = d.pclLocalSocketP /\ e.pclWebSocketP = d.pclWebSocketP
<1>1. d \in Members /\ k \in 1 .. Len(d.sock) /\ d.sock[k] \in QtSocket
  BY DEF Shape, Members, SocketOf
<1>2. PICK q \in QtSocket : /\ e = [d EXCEPT !.sock = [d.sock EXCEPT ![k] = q]]
                            /\ q.state = st /\ q.kind = d.sock[k].kind
  <2>1. CASE e = [d EXCEPT !.sock[k].state = st]
    <3>1. [d.sock[k] EXCEPT !.state = st] \in QtSocket BY <1>1 DEF QtSocket
    <3>2. [d.sock[k] EXCEPT !.state = st].state = st
          /\ [d.sock[k] EXCEPT !.state = st].kind = d.sock[k].kind BY <1>1 DEF QtSocket
    <3>3. e = [d EXCEPT !.sock = [d.sock EXCEPT ![k] = [d.sock[k] EXCEPT !.state = st]]]
      BY <2>1, <1>1 DEF Members
    <3> QED BY <3>1, <3>2, <3>3
  <2>2. CASE e = [d EXCEPT !.sock[k].state = st, !.sock[k].in = <<>>]
    <3> DEFINE q == [d.sock[k] EXCEPT !.state = st, !.in = <<>>]
    <3>1. q \in QtSocket
      <4>1. <<>> \in Seq(Frame) OBVIOUS
      <4> QED BY <1>1, <4>1 DEF QtSocket
    <3>2. q.state = st /\ q.kind = d.sock[k].kind BY <1>1 DEF QtSocket
    <3>3. e = [d EXCEPT !.sock = [d.sock EXCEPT ![k] = q]]
      BY <2>2, <1>1 DEF Members
    <3> HIDE DEF q
    <3> QED BY <3>1, <3>2, <3>3
  <2> QED BY <2>1, <2>2 DEF StateBecomes
<1>3. e.sock = [d.sock EXCEPT ![k] = q] BY <1>1, <1>2 DEF Members
<1>4. d.sock \in Seq(QtSocket) BY <1>1 DEF Members
<1> HIDE DEF QtSocket
<1>5. e.sock \in Seq(QtSocket) /\ Len(e.sock) = Len(d.sock)
      /\ e.sock[k] = q /\ \A j \in SocketOf(d) : j # k => e.sock[j] = d.sock[j]
  BY <1>1, <1>2, <1>3, <1>4 DEF SocketOf
<1>6. /\ (e.btIsConnectedP <=> d.btIsConnectedP) /\ e.view = d.view
      /\ e.btIsLocalConnectionP = d.btIsLocalConnectionP
      /\ e.pclLocalSocketP = d.pclLocalSocketP /\ e.pclWebSocketP = d.pclWebSocketP
  BY <1>1, <1>2 DEF Members
<1>7. e \in Members
  <2>1. [d EXCEPT !.sock = e.sock] \in Members BY <1>1, <1>5 DEF Members
  <2>2. e = [d EXCEPT !.sock = e.sock] BY <1>2, <1>3
  <2> QED BY <2>1, <2>2
<1>8. Shape(e)
  <2>1. \A j \in SocketOf(d) : e.sock[j].kind = d.sock[j].kind BY <1>2, <1>5 DEF SocketOf
  <2> QED BY <2>1, <1>5, <1>6, <1>7 DEF Shape, Points, SocketOf
<1> QED BY <1>2, <1>5, <1>6, <1>8 DEF SocketOf

FlagUp(d, e) == e = [d EXCEPT !.btIsConnectedP = TRUE, !.view = "connected"]
FlagDown(d, w, e) ==
  \/ e = [d EXCEPT !.btIsConnectedP = FALSE, !.view = w]
  \/ ~d.btIsConnectedP /\ e = [d EXCEPT !.view = w]
  \/ w = d.view /\ e = [d EXCEPT !.btIsConnectedP = FALSE]
SameRest(d, e) ==
  /\ e.sock = d.sock /\ e.btIsLocalConnectionP = d.btIsLocalConnectionP
  /\ e.pclLocalSocketP = d.pclLocalSocketP /\ e.pclWebSocketP = d.pclWebSocketP

(* The flag and what the application believes.                             *)
LEMMA UpSet ==
  ASSUME NEW d, Shape(d), NEW e, FlagUp(d, e)
  PROVE  Shape(e) /\ e.btIsConnectedP /\ e.view = "connected" /\ SameRest(d, e)
<1>1. d \in Members BY DEF Shape
<1>2. e \in Members BY <1>1 DEF Members, FlagUp
<1>3. e.btIsConnectedP /\ e.view = "connected" /\ SameRest(d, e)
  BY <1>1 DEF Members, FlagUp, SameRest
<1>4. Shape(e) BY <1>2, <1>3 DEF Shape, Points, SocketOf, SameRest
<1> QED BY <1>3, <1>4

LEMMA DownSet ==
  ASSUME NEW d, Shape(d), NEW w \in {"idle", "connecting", "connected"},
         NEW e, FlagDown(d, w, e)
  PROVE  Shape(e) /\ ~e.btIsConnectedP /\ e.view = w /\ SameRest(d, e)
<1>1. d \in Members BY DEF Shape
<1>2. e = [d EXCEPT !.btIsConnectedP = FALSE, !.view = w] BY <1>1 DEF Members, FlagDown
<1>3. e \in Members BY <1>1, <1>2 DEF Members
<1>4. ~e.btIsConnectedP /\ e.view = w /\ SameRest(d, e)
  BY <1>1, <1>2 DEF Members, SameRest
<1>5. Shape(e) BY <1>3, <1>4 DEF Shape, Points, SocketOf, SameRest
<1> QED BY <1>4, <1>5

Room(d) == Len(d.sock) < MaxSockets

(* A new Qt socket, kept in the pointer of its kind.                       *)
Added(d) ==
  IF d.btIsLocalConnectionP
  THEN [d EXCEPT !.view = "connecting", !.pclLocalSocketP = Len(d.sock) + 1,
                 !.sock = Append(@, NewSocket("local", "pending"))]
  ELSE [d EXCEPT !.view = "connecting", !.pclWebSocketP = Len(d.sock) + 1,
                 !.sock = Append(@, NewSocket("web", "pending"))]

LEMMA SocketAdded ==
  ASSUME NEW d, Shape(d), Room(d), NEW e, e = Added(d)
  PROVE  /\ Shape(e) /\ Len(e.sock) = Len(d.sock) + 1 /\ Pointer(e) = Len(e.sock)
         /\ e.sock[Len(e.sock)].state = "pending" /\ e.sock[Len(e.sock)].in = <<>>
         /\ \A k \in SocketOf(d) : e.sock[k] = d.sock[k]
         /\ e.view = "connecting" /\ (e.btIsConnectedP <=> d.btIsConnectedP)
         /\ e.btIsLocalConnectionP = d.btIsLocalConnectionP
         /\ e.clReceiveFifoP = d.clReceiveFifoP
<1> DEFINE n == Len(d.sock) + 1
           which == IF d.btIsLocalConnectionP THEN "local" ELSE "web"
           new == Append(d.sock, NewSocket(which, "pending"))
<1> HIDE DEF new
<1>0. d \in Members /\ Len(d.sock) \in Nat /\ n \in Nat \ {0} BY DEF Shape, Members
<1>1. /\ new \in Seq(QtSocket) /\ Len(new) = n /\ new[n].kind = which /\ new[n].state = "pending"
      /\ new[n].in = <<>>
      /\ \A k \in SocketOf(d) : new[k] = d.sock[k]
  <2>1. IsAppended(d, which, new) BY Zenon DEF new, IsAppended
  <2> QED BY <2>1, Appended DEF SocketOf
<1>2. IF d.btIsLocalConnectionP
      THEN e = [d EXCEPT !.view = "connecting", !.pclLocalSocketP = n, !.sock = new]
      ELSE e = [d EXCEPT !.view = "connecting", !.pclWebSocketP = n, !.sock = new]
  BY Zenon DEF new, Added
<1>3. e \in Members BY <1>0, <1>1, <1>2 DEF Members
<1>4. /\ e.view = "connecting" /\ e.sock = new /\ (e.btIsConnectedP <=> d.btIsConnectedP)
      /\ e.btIsLocalConnectionP = d.btIsLocalConnectionP
      /\ e.pclLocalSocketP = (IF d.btIsLocalConnectionP THEN n ELSE d.pclLocalSocketP)
      /\ e.pclWebSocketP = (IF d.btIsLocalConnectionP THEN d.pclWebSocketP ELSE n)
      /\ e.clReceiveFifoP = d.clReceiveFifoP
  BY <1>0, <1>2 DEF Members
<1>5. Pointer(e) = n /\ Len(e.sock) = n BY <1>1, <1>4 DEF Pointer
<1>6. Points(e, e.pclLocalSocketP, "local")
  BY <1>0, <1>1, <1>4 DEF Points, SocketOf, Shape
<1>7. Points(e, e.pclWebSocketP, "web")
  BY <1>0, <1>1, <1>4 DEF Points, SocketOf, Shape
<1>8. Shape(e)
  <2>1. Len(e.sock) <= MaxSockets BY <1>0, <1>5, SocketAssumption DEF Room
  <2> QED BY <2>1, <1>3, <1>6, <1>7 DEF Shape
<1> QED BY <1>1, <1>4, <1>5, <1>8

(* The connection of socket k.                                             *)
LEMMA Connected ==
  ASSUME NEW d, Shape(d), NEW k \in SocketOf(d), NEW e, e = onSocketConnect(d, k)
  PROVE  /\ Shape(e) /\ SocketOf(e) = SocketOf(d) /\ e.sock[k].state = "up"
         /\ \A j \in SocketOf(d) : j # k => e.sock[j].state = d.sock[j].state
         /\ e.btIsConnectedP /\ e.view = "connected" /\ Pointer(e) = Pointer(d)
         /\ e.btIsLocalConnectionP = d.btIsLocalConnectionP
<1> DEFINE u == [d EXCEPT !.sock[k].state = "up"]
<1>1. e = [u EXCEPT !.btIsConnectedP = TRUE, !.view = "connected"]
  BY Zenon DEF onSocketConnect
<1>2. StateBecomes(d, k, "up", u) BY DEF StateBecomes
<1> HIDE DEF u
<1>3. "up" \in State BY DEF State, Live
<1>4. /\ Shape(u) /\ SocketOf(u) = SocketOf(d) /\ u.sock[k].state = "up"
      /\ \A j \in SocketOf(d) : j # k => u.sock[j].state = d.sock[j].state
      /\ u.btIsLocalConnectionP = d.btIsLocalConnectionP
      /\ u.pclLocalSocketP = d.pclLocalSocketP /\ u.pclWebSocketP = d.pclWebSocketP
  BY <1>2, <1>3, StateSet
<1>5. /\ Shape(e) /\ e.btIsConnectedP /\ e.view = "connected" /\ e.sock = u.sock
      /\ e.btIsLocalConnectionP = u.btIsLocalConnectionP
      /\ e.pclLocalSocketP = u.pclLocalSocketP /\ e.pclWebSocketP = u.pclWebSocketP
  <2>1. FlagUp(u, e) BY <1>1 DEF FlagUp
  <2> QED BY <2>1, <1>4, UpSet DEF SameRest
<1> QED BY <1>4, <1>5 DEF Pointer, SocketOf

(* What connectNetwork(), the slot of disconnected() and abort() may       *)
(* return, whether the server is there or not.                             *)
Attempt(d, e) ==
  \/ e = Added(d) \/ e = onSocketConnect(Added(d), Len(d.sock) + 1)
  \/ e = [Added(d) EXCEPT !.sock[Len(d.sock) + 1].state = "down", !.view = "idle"]
AtRest(d) == [d EXCEPT !.btIsConnectedP = FALSE, !.view = "idle"]
SlotRan(d, which, e) ==
  \/ e = AtRest(d)
  \/ which \in Reconnects /\ Len(d.sock) < MaxSockets /\ Attempt(AtRest(d), e)
Aborted(d, k, e) ==
  IF d.sock[k].state \notin Live THEN e = d
  ELSE SlotRan([d EXCEPT !.sock[k].state = "down", !.sock[k].in = <<>>], d.sock[k].kind, e)

LEMMA AttemptMade ==
  ASSUME NEW d, ~d.btIsConnectedP, NEW later
  PROVE  Attempt(d, connectNetwork(d, later))
BY Zenon DEF Attempt, Added, connectNetwork

LEMMA AtRestType ==
  ASSUME NEW d, Shape(d)
  PROVE  /\ Shape(AtRest(d)) /\ ~AtRest(d).btIsConnectedP /\ AtRest(d).view = "idle"
         /\ AtRest(d).sock = d.sock /\ AtRest(d).btIsLocalConnectionP = d.btIsLocalConnectionP
<1> DEFINE u == AtRest(d)
<1>1. FlagDown(d, "idle", u) BY DEF FlagDown, AtRest
<1>2. "idle" \in {"idle", "connecting", "connected"} OBVIOUS
<1> HIDE DEF u
<1>3. /\ Shape(u) /\ ~u.btIsConnectedP /\ u.view = "idle" /\ u.sock = d.sock
      /\ u.btIsLocalConnectionP = d.btIsLocalConnectionP
  BY <1>1, <1>2, DownSet DEF SameRest
<1> QED BY <1>3 DEF u

LEMMA SlotResult ==
  ASSUME NEW d, NEW which, NEW again, NEW later
  PROVE  SlotRan(d, which, onSocketDisconnect(d, which, again, later))
<1> DEFINE e == AtRest(d)
<1>1. ~e.btIsConnectedP BY DEF AtRest
<1>2. Attempt(e, connectNetwork(e, later)) BY <1>1, AttemptMade
<1> QED BY <1>2 DEF SlotRan, onSocketDisconnect, AtRest

LEMMA AbortResult ==
  ASSUME NEW d, NEW k, NEW again, NEW later
  PROVE  Aborted(d, k, abort(d, k, again, later))
BY SlotResult DEF Aborted, abort

(* A new attempt, from a socket that is not in use.                        *)
LEMMA ConnectGood ==
  ASSUME NEW d, Shape(d), Quiet(d), ~d.btIsConnectedP, d.view = "idle",
         Room(d), NEW e, Attempt(d, e)
  PROVE  Good(e) /\ e.btIsLocalConnectionP = d.btIsLocalConnectionP
<1> DEFINE n == Len(d.sock) + 1
           a == Added(d)
<1>1. \/ e = a
      \/ e = onSocketConnect(a, n)
      \/ e = [a EXCEPT !.sock[n].state = "down", !.view = "idle"]
  BY DEF Attempt
<1>2. /\ Shape(a) /\ Len(a.sock) = n /\ Pointer(a) = n
      /\ a.sock[n].state = "pending"
      /\ \A k \in SocketOf(d) : a.sock[k].state = d.sock[k].state
      /\ a.view = "connecting" /\ ~a.btIsConnectedP
      /\ a.btIsLocalConnectionP = d.btIsLocalConnectionP
  <2> DEFINE b == a
  <2>1. b = Added(d) OBVIOUS
  <2>2. d.btIsConnectedP = FALSE BY DEF Shape, Members
  <2> HIDE DEF b
  <2>3. /\ Shape(b) /\ Len(b.sock) = Len(d.sock) + 1 /\ Pointer(b) = Len(b.sock)
        /\ b.sock[Len(b.sock)].state = "pending"
        /\ \A k \in SocketOf(d) : b.sock[k] = d.sock[k]
        /\ b.view = "connecting" /\ (b.btIsConnectedP <=> d.btIsConnectedP)
        /\ b.btIsLocalConnectionP = d.btIsLocalConnectionP
    BY <2>1, SocketAdded
  <2> QED BY <2>2, <2>3 DEF b
<1>3. n \in Nat \ {0} /\ Len(d.sock) \in Nat BY DEF Shape, Members
<1> HIDE DEF a
<1>4. \A k \in SocketOf(a) : k # n => a.sock[k].state \notin Live
  BY <1>2, <1>3 DEF SocketOf, Quiet
<1>5. n \in SocketOf(a) /\ n # 0 BY <1>2, <1>3 DEF SocketOf
<1>6. CASE e = a
  BY <1>2, <1>4, <1>5, <1>6 DEF Good, Status, Single, Live
<1> HIDE DEF n
<1>7. CASE e = onSocketConnect(a, n)
  <2>1. /\ Shape(e) /\ SocketOf(e) = SocketOf(a) /\ e.sock[n].state = "up"
        /\ \A j \in SocketOf(a) : j # n => e.sock[j].state = a.sock[j].state
        /\ e.btIsConnectedP /\ e.view = "connected" /\ Pointer(e) = n
        /\ e.btIsLocalConnectionP = a.btIsLocalConnectionP
    BY <1>2, <1>5, <1>7, Connected
  <2> QED BY <1>2, <1>4, <1>5, <2>1 DEF Good, Status, Single, Live
<1>8. CASE e = [a EXCEPT !.sock[n].state = "down", !.view = "idle"]
  <2> DEFINE u == [a EXCEPT !.sock[n].state = "down"]
  <2>1. e = [u EXCEPT !.view = "idle"] BY <1>8, Zenon
  <2>2. StateBecomes(a, n, "down", u) BY DEF StateBecomes
  <2> HIDE DEF u
  <2>3. /\ Shape(u) /\ SocketOf(u) = SocketOf(a) /\ u.sock[n].state = "down"
        /\ \A j \in SocketOf(a) : j # n => u.sock[j].state = a.sock[j].state
        /\ (u.btIsConnectedP <=> a.btIsConnectedP)
        /\ u.btIsLocalConnectionP = a.btIsLocalConnectionP
    <3>1. "down" \in State BY DEF State
    <3> QED BY <1>2, <1>5, <2>2, <3>1, StateSet
  <2>4. /\ Shape(e) /\ ~e.btIsConnectedP /\ e.view = "idle" /\ e.sock = u.sock
        /\ e.btIsLocalConnectionP = u.btIsLocalConnectionP
    <3>1. FlagDown(u, "idle", e) BY <1>2, <2>1, <2>3 DEF FlagDown
    <3>2. "idle" \in {"idle", "connecting", "connected"} OBVIOUS
    <3>3. Shape(u) BY <2>3
    <3> QED BY <3>1, <3>2, <3>3, DownSet DEF SameRest
  <2>5. Quiet(e) BY <1>4, <2>3, <2>4 DEF Quiet, SocketOf, Live
  <2> QED BY <1>2, <2>3, <2>4, <2>5 DEF Good, Status, Single, Quiet
<1> QED BY <1>1, <1>6, <1>7, <1>8

(* The socket of the pointer is deleted, the other pointer is kept.        *)
LEMMA Disconnected ==
  ASSUME NEW d, Shape(d), NEW e, e = disconnectNetwork(d)
  PROVE  /\ Shape(e) /\ ~e.btIsConnectedP /\ e.view = d.view /\ SocketOf(e) = SocketOf(d)
         /\ e.btIsLocalConnectionP = d.btIsLocalConnectionP
         /\ \A k \in SocketOf(d) :
              e.sock[k].state = IF k = Pointer(d) THEN "gone" ELSE d.sock[k].state
<1> DEFINE k == Pointer(d)
           u == IF k = 0 THEN d ELSE [d EXCEPT !.sock[k].state = "gone", !.sock[k].in = <<>>]
<1>1. IF d.btIsLocalConnectionP
      THEN e = [u EXCEPT !.btIsConnectedP = FALSE, !.pclLocalSocketP = 0]
      ELSE e = [u EXCEPT !.btIsConnectedP = FALSE, !.pclWebSocketP = 0]
  BY Zenon DEF disconnectNetwork
<1>2. d \in Members /\ (k # 0 => k \in SocketOf(d)) BY DEF Shape, Points, Pointer
<1>3. IF k = 0 THEN u = d ELSE StateBecomes(d, k, "gone", u) BY DEF StateBecomes
<1> HIDE DEF u, k
<1>5. /\ Shape(u) /\ SocketOf(u) = SocketOf(d) /\ u.view = d.view
      /\ (k \in SocketOf(d) => u.sock[k].state = "gone")
      /\ \A j \in SocketOf(d) : j # k => u.sock[j].state = d.sock[j].state
      /\ u.btIsLocalConnectionP = d.btIsLocalConnectionP
  <2>1. CASE k = 0
    <3>1. 0 \notin SocketOf(d) BY <1>2 DEF SocketOf, Members
    <3> QED BY <2>1, <3>1, <1>3
  <2>2. CASE k # 0
    <3>1. "gone" \in State BY DEF State
    <3> QED BY <2>2, <3>1, <1>2, <1>3, StateSet
  <2> QED BY <2>1, <2>2
<1>6. u \in Members BY <1>5 DEF Shape
<1> DEFINE v == [u EXCEPT !.btIsConnectedP = FALSE]
<1>7. /\ v \in Members /\ ~v.btIsConnectedP /\ v.view = u.view /\ v.sock = u.sock
      /\ v.btIsLocalConnectionP = u.btIsLocalConnectionP
      /\ v.pclLocalSocketP = u.pclLocalSocketP /\ v.pclWebSocketP = u.pclWebSocketP
  BY <1>6 DEF Members
<1>8. e = [v EXCEPT !.pclLocalSocketP = 0] \/ e = [v EXCEPT !.pclWebSocketP = 0]
  BY <1>1
<1> HIDE DEF v
<1>9. /\ e \in Members /\ ~e.btIsConnectedP /\ e.view = v.view /\ e.sock = v.sock
      /\ e.btIsLocalConnectionP = v.btIsLocalConnectionP
      /\ e.pclLocalSocketP \in {0, v.pclLocalSocketP}
      /\ e.pclWebSocketP \in {0, v.pclWebSocketP}
  BY <1>7, <1>8 DEF Members
<1>10. Shape(e) BY <1>5, <1>7, <1>9 DEF Shape, Points, SocketOf
<1> QED BY <1>2, <1>5, <1>7, <1>9, <1>10 DEF SocketOf, k

(* disconnected(), emitted when no socket is in use: the application may   *)
(* connect again in its slot.                                              *)
LEMMA SlotGood ==
  ASSUME NEW d, Shape(d), Quiet(d), NEW which, NEW e, SlotRan(d, which, e)
  PROVE  /\ Good(e) /\ e.btIsLocalConnectionP = d.btIsLocalConnectionP
         /\ (which \notin Reconnects => Quiet(e) /\ e.view = "idle")
<1> DEFINE u == AtRest(d)
<1>1. \/ e = u
      \/ Attempt(u, e) /\ Len(d.sock) < MaxSockets /\ which \in Reconnects
  BY DEF SlotRan
<1>2. /\ Shape(u) /\ ~u.btIsConnectedP /\ u.view = "idle" /\ u.sock = d.sock
      /\ u.btIsLocalConnectionP = d.btIsLocalConnectionP
  BY AtRestType
<1> HIDE DEF u
<1>4. Quiet(u) BY <1>2 DEF Quiet, SocketOf
<1>5. CASE e = u
  BY <1>2, <1>4, <1>5 DEF Good, Status, Single, Quiet
<1>6. CASE Attempt(u, e) /\ Len(d.sock) < MaxSockets /\ which \in Reconnects
  <2>1. Room(u) BY <1>2, <1>6 DEF Room
  <2> QED BY <1>2, <1>4, <1>6, <2>1, ConnectGood
<1> QED BY <1>1, <1>5, <1>6

(* abort() of the socket of the pointer, with the slot in the middle.      *)
LEMMA AbortGood ==
  ASSUME NEW d, Good(d), NEW k, k = Pointer(d), k # 0, NEW e, Aborted(d, k, e)
  PROVE  /\ Good(e) /\ e.btIsLocalConnectionP = d.btIsLocalConnectionP
         /\ (d.sock[k].kind \in Reconnects \/ Quiet(e))
<1> DEFINE u == [d EXCEPT !.sock[k].state = "down", !.sock[k].in = <<>>]
<1>1. IF d.sock[k].state \notin Live THEN e = d ELSE SlotRan(u, d.sock[k].kind, e)
  BY DEF Aborted
<1>2. StateBecomes(d, k, "down", u) BY DEF StateBecomes
<1>3. Shape(d) /\ Single(d) /\ k \in SocketOf(d)
  BY DEF Good, Status, Shape, Points, Pointer
<1> HIDE DEF u
<1>4. /\ Shape(u) /\ SocketOf(u) = SocketOf(d) /\ u.sock[k].state = "down"
      /\ \A j \in SocketOf(d) : j # k => u.sock[j].state = d.sock[j].state
      /\ u.btIsLocalConnectionP = d.btIsLocalConnectionP
  <2>1. "down" \in State BY DEF State
  <2> QED BY <2>1, <1>2, <1>3, StateSet
<1>5. Quiet(u) BY <1>3, <1>4 DEF Quiet, Single, Live
<1>6. CASE d.sock[k].state \notin Live
  <2>1. e = d BY <1>1, <1>6
  <2>2. Quiet(d) BY <1>3, <1>6 DEF Quiet, Single
  <2> QED BY <2>1, <2>2
<1>7. CASE d.sock[k].state \in Live
  <2>1. SlotRan(u, d.sock[k].kind, e) BY <1>1, <1>7
  <2> QED BY <2>1, <1>4, <1>5, SlotGood
<1> QED BY <1>6, <1>7

(* Frames move: no socket, pointer or flag changes.                        *)
FramesOnly(d, e) ==
  /\ e \in Members /\ e.view = d.view /\ Len(e.sock) = Len(d.sock)
  /\ (e.btIsConnectedP <=> d.btIsConnectedP)
  /\ e.btIsLocalConnectionP = d.btIsLocalConnectionP
  /\ e.pclLocalSocketP = d.pclLocalSocketP /\ e.pclWebSocketP = d.pclWebSocketP
  /\ \A k \in SocketOf(d) : e.sock[k].kind = d.sock[k].kind /\ e.sock[k].state = d.sock[k].state

LEMMA FramesGood == ASSUME NEW d, Good(d), NEW e, FramesOnly(d, e) PROVE Good(e)
<1>1. SocketOf(e) = SocketOf(d) /\ Pointer(e) = Pointer(d) BY DEF FramesOnly, SocketOf, Pointer
<1>2. Shape(e) BY <1>1 DEF FramesOnly, Good, Shape, Points, SocketOf
<1>3. Pointer(d) # 0 => Pointer(d) \in SocketOf(d) BY DEF Good, Shape, Points, Pointer
<1>4. Status(e) BY <1>1, <1>3 DEF FramesOnly, Good, Status, Single, Quiet
<1> QED BY <1>2, <1>4 DEF Good

(* Frames are taken out of a Qt socket.                                    *)
LEMMA FramesTaken ==
  ASSUME NEW d, d \in Members, NEW k \in SocketOf(d), NEW q \in Seq(Frame),
         NEW s \in Seq(Frame)
  PROVE  FramesOnly(d, [d EXCEPT !.clReceiveFifoP = q, !.sock[k].in = s])
<1>1. d.sock \in Seq(QtSocket) /\ k \in 1 .. Len(d.sock) BY DEF SocketOf, Members
<1> DEFINE r == [d.sock[k] EXCEPT !.in = s]
           new == [d.sock EXCEPT ![k] = r]
           e == [d EXCEPT !.clReceiveFifoP = q, !.sock = new]
<1>2. d.sock[k] \in QtSocket BY <1>1
<1>3. r \in QtSocket /\ r.kind = d.sock[k].kind /\ r.state = d.sock[k].state
  BY <1>2 DEF QtSocket
<1>4. [d EXCEPT !.clReceiveFifoP = q, !.sock[k].in = s] = e BY Zenon
<1> HIDE DEF r, QtSocket
<1>5. /\ new \in Seq(QtSocket) /\ Len(new) = Len(d.sock)
      /\ \A j \in SocketOf(d) : new[j].kind = d.sock[j].kind /\ new[j].state = d.sock[j].state
  BY <1>1, <1>3 DEF SocketOf
<1> HIDE DEF new
<1>6. /\ e \in Members /\ e.view = d.view /\ e.sock = new
      /\ (e.btIsConnectedP <=> d.btIsConnectedP)
      /\ e.btIsLocalConnectionP = d.btIsLocalConnectionP
      /\ e.pclLocalSocketP = d.pclLocalSocketP /\ e.pclWebSocketP = d.pclWebSocketP
  BY <1>5 DEF Members
<1> HIDE DEF e
<1>7. FramesOnly(d, e) BY <1>5, <1>6 DEF FramesOnly
<1> QED BY <1>4, <1>7

(* A socket in use is the one of the pointer, of the kind chosen.          *)
LEMMA InUse ==
  ASSUME NEW d, Good(d), NEW k \in SocketOf(d), d.sock[k].state \in Live
  PROVE  /\ k = Pointer(d) /\ k # 0
         /\ (d.sock[k].kind = "local" <=> d.btIsLocalConnectionP)
         /\ (d.sock[k].state = "pending" => d.view = "connecting" /\ ~d.btIsConnectedP)
         /\ (d.sock[k].state = "up" => d.view = "connected" /\ d.btIsConnectedP)
<1>1. k = Pointer(d) BY DEF Good, Status, Single
<1>2. d \in Members /\ k # 0 BY DEF Good, Shape, SocketOf, Members
<1>3. d.sock[k].kind = "local" <=> d.btIsLocalConnectionP
  BY <1>1, <1>2 DEF Good, Shape, Points, Pointer
<1>4. d.view # "idle" BY DEF Good, Status, Quiet
<1>5. d.view \in {"connecting", "connected"} BY <1>2, <1>4 DEF Members
<1> QED BY <1>1, <1>2, <1>3, <1>5 DEF Good, Status

LEMMA StateKept ==
  ASSUME NEW d, Shape(d), NEW k \in SocketOf(d)
  PROVE  [d EXCEPT !.sock[k].state = d.sock[k].state] = d
<1>1. d \in Members /\ d.sock \in Seq(QtSocket) /\ k \in 1 .. Len(d.sock)
  BY DEF Shape, SocketOf, Members
<1> DEFINE r == d.sock[k]
<1>2. r \in QtSocket BY <1>1
<1>3. [r EXCEPT !.state = r.state] = r BY <1>2 DEF QtSocket
<1>4. [d.sock EXCEPT ![k] = r] = d.sock BY <1>1
<1>5. [d EXCEPT !.sock = d.sock] = d BY <1>1 DEF Members
<1>6. [d EXCEPT !.sock[k].state = d.sock[k].state]
        = [d EXCEPT !.sock = [d.sock EXCEPT ![k] = [r EXCEPT !.state = r.state]]]
  BY Zenon
<1> QED BY <1>3, <1>4, <1>5, <1>6

------------------------------------------------------------------------------
LEMMA InitInv == Init => SocketInv
<1> SUFFICES ASSUME Init PROVE SocketInv OBVIOUS
<1>1. c \in Members BY DEF Init, Members
<1>2. c.sock = <<>> /\ Len(c.sock) = 0 BY DEF Init
<1>3. Shape(c) BY <1>1, <1>2, SocketAssumption DEF Init, Shape, Points
<1>4. Quiet(c) BY <1>2 DEF Quiet, SocketOf
<1>5. c.view = "idle" /\ ~c.btIsConnectedP BY DEF Init
<1>6. Status(c) BY <1>4, <1>5 DEF Status, Single, Quiet
<1> QED BY <1>3, <1>6 DEF Init, SocketInv, Good

(* The calls of the program.                                               *)
LEMMA ProgramStep ==
  /\ Discipline /\ SocketInv
  /\ \/ AppDisconnect \/ write \/ read \/ Resume
     \/ \E b \in BOOLEAN : AppConnect(b) \/ setHostAddress(b)
  => SocketInv'
<1> SUFFICES ASSUME Discipline, SocketInv,
                    \/ AppDisconnect \/ write \/ read \/ Resume
                    \/ \E b \in BOOLEAN : AppConnect(b) \/ setHostAddress(b)
             PROVE  SocketInv'
  OBVIOUS
<1>0. Good(c) /\ Shape(c) /\ c \in Members BY DEF SocketInv, Good, Shape
<1>1. CASE AppDisconnect
  <2> DEFINE u == disconnectNetwork(c)
  <2>1. /\ Shape(u) /\ ~u.btIsConnectedP /\ SocketOf(u) = SocketOf(c)
        /\ \A k \in SocketOf(c) :
             u.sock[k].state = IF k = Pointer(c) THEN "gone" ELSE c.sock[k].state
    BY <1>0, Disconnected
  <2>2. FlagDown(u, "idle", c') BY <1>1, <2>1 DEF AppDisconnect, FlagDown
  <2> HIDE DEF u
  <2>3. Shape(c') /\ ~c'.btIsConnectedP /\ c'.view = "idle" /\ c'.sock = u.sock
    BY <2>1, <2>2, DownSet DEF SameRest
  <2>4. Quiet(c') BY <1>0, <2>1, <2>3 DEF Quiet, SocketOf, Good, Status, Single, Live
  <2>5. Good(c') BY <2>3, <2>4 DEF Good, Status, Single, Quiet
  <2> QED BY <1>1, <2>5 DEF AppDisconnect, SocketInv
<1>2. CASE write
  <2>1. Pointer(c) # 0 BY <1>0, <1>2 DEF write, Good, Status
  <2> QED BY <1>2, <2>1 DEF write, SocketInv
<1>3. CASE read
  <2>1. c.clReceiveFifoP \in Seq(Frame) /\ c.clReceiveFifoP # <<>>
        /\ c' = [c EXCEPT !.clReceiveFifoP = Tail(c.clReceiveFifoP)]
        /\ taken' = Append(taken, Head(c.clReceiveFifoP))
    BY <1>0, <1>3 DEF read, Members
  <2>2. Tail(c.clReceiveFifoP) \in Seq(Frame) /\ Head(c.clReceiveFifoP) \in Frame
    BY <2>1
  <2>3. FramesOnly(c, c') BY <1>0, <2>1, <2>2 DEF FramesOnly, Members
  <2>4. Good(c') BY <1>0, <2>3, FramesGood
  <2>5. taken' \in Seq(Frame) BY <2>1, <2>2 DEF SocketInv
  <2> QED BY <1>3, <2>4, <2>5 DEF read, SocketInv
<1>4. CASE Resume BY <1>4 DEF Resume, SocketInv
<1>5. ASSUME NEW b \in BOOLEAN, AppConnect(b) \/ setHostAddress(b) PROVE SocketInv'
  <2>1. c.view = "idle" \/ AppConnect(b)
    BY <1>5 DEF setHostAddress, Waits, Discipline
  <2>2. c.view = "idle" BY <1>5, <2>1 DEF AppConnect, Waits, Discipline
  <2>3. Quiet(c) /\ ~c.btIsConnectedP BY <1>0, <2>2 DEF Good, Status
  <2>4. CASE AppConnect(b)
    <3>1. Attempt(c, c') BY <2>3, <2>4, AttemptMade DEF AppConnect
    <3>2. Room(c) BY <2>4 DEF AppConnect, Room
    <3>3. Good(c') BY <1>0, <2>2, <2>3, <3>1, <3>2, ConnectGood
    <3>4. exec' \in BOOLEAN BY <2>4 DEF AppConnect
    <3> QED BY <2>4, <3>3, <3>4 DEF AppConnect, SocketInv
  <2>5. CASE setHostAddress(b)
    <3>1. c' = [c EXCEPT !.btIsLocalConnectionP = b] BY <2>5 DEF setHostAddress
    <3>2. /\ c' \in Members /\ c'.sock = c.sock /\ ~c'.btIsConnectedP /\ c'.view = "idle"
          /\ c'.pclLocalSocketP = c.pclLocalSocketP /\ c'.pclWebSocketP = c.pclWebSocketP
      BY <1>0, <2>2, <2>3, <3>1 DEF Members
    <3>3. Shape(c') BY <1>0, <3>2 DEF Shape, Points, SocketOf
    <3>4. Quiet(c') BY <2>3, <3>2 DEF Quiet, SocketOf
    <3>5. Good(c') BY <3>2, <3>3, <3>4 DEF Good, Status, Single, Quiet
    <3> QED BY <2>5, <3>5 DEF setHostAddress, SocketInv
  <2> QED BY <1>5, <2>4, <2>5
<1> QED BY <1>1, <1>2, <1>3, <1>4, <1>5

(* Frames that are sent and received.                                      *)
LEMMA TrafficStep ==
  /\ SocketInv
  /\ \/ ServerChanges
     \/ \E f \in Frame : NetworkSends(f)
     \/ \E k \in Socket : onSocketReceiveLocal(k) \/ onSocketReceiveWeb(k)
  => SocketInv'
<1> SUFFICES ASSUME SocketInv,
                    \/ ServerChanges
                    \/ \E f \in Frame : NetworkSends(f)
                    \/ \E k \in Socket : onSocketReceiveLocal(k) \/ onSocketReceiveWeb(k)
             PROVE  SocketInv'
  OBVIOUS
<1>0. Good(c) /\ Shape(c) /\ c \in Members /\ c.sock \in Seq(QtSocket)
      /\ c.clReceiveFifoP \in Seq(Frame)
  BY DEF SocketInv, Good, Shape, Members
<1>1. CASE ServerChanges BY <1>1 DEF ServerChanges, SocketInv
<1>2. ASSUME NEW f \in Frame, NetworkSends(f) PROVE SocketInv'
  <2> DEFINE new == [k \in Socket |-> IF c.sock[k].state = "up"
                                      THEN [c.sock[k] EXCEPT !.in = Append(@, f)] ELSE c.sock[k]]
  <2>1. c' = [c EXCEPT !.sock = new] BY <1>2 DEF NetworkSends
  <2>2. \A k \in Socket : /\ new[k] \in QtSocket
                          /\ new[k].kind = c.sock[k].kind /\ new[k].state = c.sock[k].state
    <3> SUFFICES ASSUME NEW k \in Socket
                 PROVE  /\ new[k] \in QtSocket
                        /\ new[k].kind = c.sock[k].kind /\ new[k].state = c.sock[k].state
      OBVIOUS
    <3> DEFINE r == c.sock[k]
               q == [r EXCEPT !.in = Append(r.in, f)]
    <3>1. r \in QtSocket BY <1>0 DEF Socket
    <3>2. r.in \in Seq(Frame) BY <3>1 DEF QtSocket
    <3>3. Append(r.in, f) \in Seq(Frame) BY <3>2
    <3>4. q \in QtSocket /\ q.kind = r.kind /\ q.state = r.state BY <3>1, <3>3 DEF QtSocket
    <3>5. new[k] = IF r.state = "up" THEN q ELSE r OBVIOUS
    <3> HIDE DEF new, q, r
    <3>6. new[k] \in QtSocket /\ new[k].kind = r.kind /\ new[k].state = r.state
      BY <3>1, <3>4, <3>5
    <3> QED BY <3>6 DEF r
  <2>3. new = [k \in Socket |-> new[k]] OBVIOUS
  <2> HIDE DEF new
  <2>4. new \in Seq(QtSocket) /\ Len(new) = Len(c.sock)
    <3>1. Len(c.sock) \in Nat BY <1>0
    <3>2. new \in [1 .. Len(c.sock) -> QtSocket] BY <2>2, <2>3 DEF Socket
    <3> HIDE DEF QtSocket
    <3> QED BY <3>1, <3>2
  <2>5. FramesOnly(c, c') BY <1>0, <2>1, <2>2, <2>4 DEF FramesOnly, Members, SocketOf, Socket
  <2>6. Good(c') BY <1>0, <2>5, FramesGood
  <2>7. sent' \in Seq(Frame)
    <3>1. sent \in Seq(Frame) BY DEF SocketInv
    <3>2. sent' = Append(sent, f) BY <1>2 DEF NetworkSends
    <3> QED BY <3>1, <3>2
  <2> QED BY <1>2, <2>6, <2>7 DEF NetworkSends, SocketInv
<1>3. ASSUME NEW k \in Socket, onSocketReceiveLocal(k) PROVE SocketInv'
  <2>1. k = Pointer(c) /\ k # 0 /\ c.btIsLocalConnectionP
    BY <1>0, <1>3, InUse DEF onSocketReceiveLocal, Socket, SocketOf, Live
  <2>2. c.pclLocalSocketP = k /\ k # 0 BY <2>1 DEF Pointer
  <2>3. c' = [c EXCEPT !.clReceiveFifoP = c.clReceiveFifoP \o c.sock[k].in, !.sock[k].in = <<>>]
        /\ crashed' = crashed
    BY <1>3, <2>2 DEF onSocketReceiveLocal
  <2>4. k \in SocketOf(c) /\ c.sock[k] \in QtSocket BY <1>0 DEF Socket, SocketOf
  <2>5. c.sock[k].in \in Seq(Frame) BY <2>4 DEF QtSocket
  <2>6. c.clReceiveFifoP \o c.sock[k].in \in Seq(Frame) /\ <<>> \in Seq(Frame) BY <1>0, <2>5
  <2>7. FramesOnly(c, c') BY <1>0, <2>3, <2>4, <2>6, FramesTaken
  <2>8. Good(c') BY <1>0, <2>7, FramesGood
  <2> QED BY <1>3, <2>3, <2>8 DEF onSocketReceiveLocal, SocketInv
<1>4. ASSUME NEW k \in Socket, onSocketReceiveWeb(k) PROVE SocketInv'
  <2>1. k \in SocketOf(c) /\ c.sock[k] \in QtSocket BY <1>0 DEF Socket, SocketOf
  <2>2. c.sock[k].in \in Seq(Frame) /\ c.sock[k].in # <<>>
    BY <1>4, <2>1 DEF QtSocket, onSocketReceiveWeb
  <2>3. c' = [c EXCEPT !.clReceiveFifoP = Append(c.clReceiveFifoP, Head(c.sock[k].in)),
                       !.sock[k].in = Tail(c.sock[k].in)]
    BY <1>4 DEF onSocketReceiveWeb
  <2>4. Append(c.clReceiveFifoP, Head(c.sock[k].in)) \in Seq(Frame)
        /\ Tail(c.sock[k].in) \in Seq(Frame)
    BY <1>0, <2>2
  <2>5. FramesOnly(c, c') BY <1>0, <2>1, <2>3, <2>4, FramesTaken
  <2>6. Good(c') BY <1>0, <2>5, FramesGood
  <2> QED BY <1>4, <2>6 DEF onSocketReceiveWeb, SocketInv
<1> QED BY <1>1, <1>2, <1>3, <1>4

(* A Qt socket is connected, is refused, fails or is closed.               *)
LEMMA EventStep ==
  /\ Discipline /\ SocketInv
  /\ \E k \in Socket :
       \/ Accepted(k)
       \/ \E again, more \in BOOLEAN : LocalFails(k, again, more) \/ WebFails(k, again, more)
       \/ \E again \in BOOLEAN : Refused(k, again) \/ WebCloses(k, again)
  => SocketInv'
<1> SUFFICES ASSUME Discipline, SocketInv, NEW k \in Socket,
                    \/ Accepted(k)
                    \/ \E again, more \in BOOLEAN :
                         LocalFails(k, again, more) \/ WebFails(k, again, more)
                    \/ \E again \in BOOLEAN : Refused(k, again) \/ WebCloses(k, again)
             PROVE  SocketInv'
  OBVIOUS
<1>0. Good(c) /\ Shape(c) /\ c \in Members /\ k \in SocketOf(c)
  BY DEF SocketInv, Good, Shape, Socket, SocketOf
<1>a. c.sock[k].state \in Live
  BY DEF Accepted, LocalFails, WebFails, Refused, WebCloses, Live
<1>b. /\ k = Pointer(c) /\ k # 0
      /\ (c.sock[k].kind = "local" <=> c.btIsLocalConnectionP)
      /\ (c.sock[k].state = "pending" => c.view = "connecting" /\ ~c.btIsConnectedP)
      /\ (c.sock[k].state = "up" => c.view = "connected" /\ c.btIsConnectedP)
  BY <1>0, <1>a, InUse
<1> DEFINE u == [c EXCEPT !.sock[k].state = "down"]
<1>c. /\ Shape(u) /\ Quiet(u) /\ (u.btIsConnectedP <=> c.btIsConnectedP)
      /\ u.btIsLocalConnectionP = c.btIsLocalConnectionP
  <2>1. StateBecomes(c, k, "down", u) BY DEF StateBecomes
  <2>2. "down" \in State BY DEF State
  <2> HIDE DEF u
  <2>3. /\ Shape(u) /\ SocketOf(u) = SocketOf(c) /\ u.sock[k].state = "down"
        /\ \A j \in SocketOf(c) : j # k => u.sock[j].state = c.sock[j].state
        /\ (u.btIsConnectedP <=> c.btIsConnectedP)
        /\ u.btIsLocalConnectionP = c.btIsLocalConnectionP
    BY <1>0, <2>1, <2>2, StateSet
  <2>4. Quiet(u) BY <1>0, <1>b, <2>3 DEF Quiet, Good, Status, Single, Live
  <2> QED BY <2>3, <2>4
<1>1. CASE Accepted(k)
  <2>1. c' = onSocketConnect(c, k) BY <1>1 DEF Accepted
  <2>2. /\ Shape(c') /\ SocketOf(c') = SocketOf(c) /\ c'.sock[k].state = "up"
        /\ \A j \in SocketOf(c) : j # k => c'.sock[j].state = c.sock[j].state
        /\ c'.btIsConnectedP /\ c'.view = "connected" /\ Pointer(c') = Pointer(c)
    BY <1>0, <2>1, Connected
  <2>3. Good(c') BY <1>0, <1>b, <2>2 DEF Good, Status, Single
  <2> QED BY <1>1, <2>3 DEF Accepted, SocketInv
<1>2. ASSUME NEW again \in BOOLEAN, Refused(k, again) PROVE SocketInv'
  <2>1. CASE c.sock[k].kind = "local"
    <3>1. c' = [c EXCEPT !.sock[k].state = "down", !.view = "idle"] /\ exec' = FALSE
      BY <1>2, <2>1 DEF Refused
    <3>2. FlagDown(u, "idle", c')
      <4>1. ~u.btIsConnectedP BY <1>2, <1>b, <1>c DEF Refused
      <4>2. c' = [u EXCEPT !.view = "idle"] BY <3>1, Zenon
      <4> HIDE DEF u
      <4> QED BY <4>1, <4>2 DEF FlagDown
    <3> HIDE DEF u
    <3>3. Shape(c') /\ ~c'.btIsConnectedP /\ c'.view = "idle" /\ c'.sock = u.sock
      BY <1>c, <3>2, DownSet DEF SameRest
    <3>4. Quiet(c') BY <1>c, <3>3 DEF Quiet, SocketOf
    <3>5. Good(c') BY <3>3, <3>4 DEF Good, Status, Single, Quiet
    <3> QED BY <1>2, <3>1, <3>5 DEF Refused, SocketInv
  <2>2. CASE c.sock[k].kind # "local"
    <3>1. SlotRan(u, "web", c') /\ exec' = exec
      <4>1. c' = onSocketDisconnect(u, "web", again, FALSE) /\ exec' = exec
        BY <1>2, <2>2 DEF Refused
      <4> HIDE DEF u
      <4>2. SlotRan(u, "web", c') BY <1>c, <4>1, SlotResult
      <4> QED BY <4>1, <4>2
    <3> HIDE DEF u
    <3>2. Good(c') BY <1>c, <3>1, SlotGood
    <3> QED BY <1>2, <3>1, <3>2 DEF Refused, SocketInv
  <2> QED BY <2>1, <2>2
<1>3. ASSUME NEW again \in BOOLEAN, NEW later \in BOOLEAN, LocalFails(k, again, later)
      PROVE  SocketInv'
  <2>1. c.btIsLocalConnectionP /\ c.pclLocalSocketP = k BY <1>3, <1>b DEF LocalFails, Pointer
  <2>2. [c EXCEPT !.sock[k].state = c.sock[k].state] = c BY <1>0, StateKept
  <2>3. c' = onSocketErrorLocal(c, again, later) /\ exec' = FALSE /\ crashed' = crashed
    BY <1>3, <1>b, <2>1, <2>2 DEF LocalFails
  <2> DEFINE a == abort(c, k, again, later)
  <2>4. c' = AtRest(a) BY <2>1, <2>3 DEF onSocketErrorLocal, AtRest
  <2>5. Aborted(c, k, a) BY AbortResult
  <2> HIDE DEF a
  <2>6. PICK b : b = a OBVIOUS
  <2>7. Good(b) /\ Quiet(b)
    BY <1>0, <1>3, <1>b, <2>5, <2>6, AbortGood DEF LocalFails, Discipline
  <2>8. /\ Shape(AtRest(b)) /\ ~AtRest(b).btIsConnectedP /\ AtRest(b).view = "idle"
        /\ AtRest(b).sock = b.sock
    BY <2>7, AtRestType DEF Good
  <2>9. c' = AtRest(b) BY <2>4, <2>6
  <2>10. Quiet(c') BY <2>7, <2>8, <2>9 DEF Quiet, SocketOf
  <2>11. Good(c') BY <2>8, <2>9, <2>10 DEF Good, Status, Single, Quiet
  <2> QED BY <1>3, <2>3, <2>11 DEF LocalFails, SocketInv
<1>4. ASSUME NEW again \in BOOLEAN, NEW more \in BOOLEAN, WebFails(k, again, more)
      PROVE  SocketInv'
  <2>1. ~c.btIsLocalConnectionP /\ c.pclWebSocketP = k BY <1>4, <1>b DEF WebFails, Pointer
  <2>2. [c EXCEPT !.sock[k].state = c.sock[k].state] = c BY <1>0, StateKept
  <2>3. c' = onSocketErrorWeb(c, again, more, FALSE) /\ crashed' = crashed
    BY <1>4, <1>b, <2>1, <2>2 DEF WebFails
  <2> DEFINE a == abort(c, k, again, FALSE)
             e == disconnectNetwork([a EXCEPT !.btIsConnectedP = FALSE])
  <2>4. c' = onSocketDisconnect(e, "web", more, FALSE) BY <2>1, <2>3 DEF onSocketErrorWeb
  <2>5. Aborted(c, k, a) BY AbortResult
  <2>6. SlotRan(e, "web", c') BY <2>4, SlotResult
  <2> HIDE DEF a
  <2>7. PICK b : b = a OBVIOUS
  <2>8. Good(b) BY <1>0, <1>b, <2>5, <2>7, AbortGood
  <2> DEFINE v == [b EXCEPT !.btIsConnectedP = FALSE]
             w == disconnectNetwork(v)
  <2>9. SlotRan(w, "web", c') BY <2>6, <2>7
  <2>10. Shape(w) /\ Quiet(w)
    <3>1. FlagDown(b, b.view, v) BY DEF FlagDown
    <3>2. b.view \in {"idle", "connecting", "connected"} BY <2>8 DEF Good, Shape, Members
    <3>3. w = disconnectNetwork(v) OBVIOUS
    <3> HIDE DEF v, w
    <3>4. Shape(v) /\ SameRest(b, v) BY <2>8, <3>1, <3>2, DownSet DEF Good
    <3>5. Shape(w) /\ SocketOf(w) = SocketOf(v)
          /\ \A j \in SocketOf(v) :
               w.sock[j].state = IF j = Pointer(v) THEN "gone" ELSE v.sock[j].state
      BY <3>3, <3>4, Disconnected
    <3>6. Pointer(v) = Pointer(b) /\ v.sock = b.sock /\ SocketOf(v) = SocketOf(b)
      BY <3>4 DEF SameRest, Pointer, SocketOf
    <3>7. Single(b) BY <2>8 DEF Good, Status
    <3>8. Quiet(w) BY <3>5, <3>6, <3>7 DEF Quiet, Single, Live
    <3> QED BY <3>5, <3>8
  <2> HIDE DEF w
  <2>11. Good(c') BY <2>9, <2>10, SlotGood
  <2> QED BY <1>4, <2>3, <2>11 DEF WebFails, SocketInv
<1>5. ASSUME NEW again \in BOOLEAN, WebCloses(k, again) PROVE SocketInv'
  <2>1. SlotRan(u, "web", c')
    <3>1. c' = onSocketDisconnect(u, "web", again, FALSE) BY <1>5 DEF WebCloses
    <3> HIDE DEF u
    <3> QED BY <3>1, SlotResult
  <2> HIDE DEF u
  <2>2. Good(c') BY <1>c, <2>1, SlotGood
  <2> QED BY <1>5, <2>2 DEF WebCloses, SocketInv
<1> QED BY <1>1, <1>2, <1>3, <1>4, <1>5

------------------------------------------------------------------------------
(* The order of the frames.  s is a part of the history h in its order.    *)
Follows(s, h) ==
  /\ \A j \in DOMAIN s : \E a \in DOMAIN h : h[a] = s[j]
  /\ \A j, k \in DOMAIN s : j < k =>
       \A a, b \in DOMAIN h : h[a] = s[j] /\ h[b] = s[k] => a < b

(* Only a connected socket holds frames; what it holds comes after all     *)
(* that was received before, of this and of earlier connections.           *)
Loaded(d) == \A k \in SocketOf(d) : d.sock[k].in # <<>> => d.sock[k].state = "up"
OrderInv ==
  /\ Loaded(c) /\ Follows(Received, sent)
  /\ \A k \in Socket : Follows(Received \o c.sock[k].in, sent)

LEMMA FollowsShorter ==
  ASSUME NEW h \in Seq(Frame), NEW s \in Seq(Frame), NEW u \in Seq(Frame), Follows(s \o u, h)
  PROVE  Follows(s, h)
<1>1. \A j \in DOMAIN s : j \in DOMAIN (s \o u) /\ (s \o u)[j] = s[j] OBVIOUS
<1> DEFINE z == s \o u
<1> HIDE DEF z
<1>2. Follows(z, h) /\ \A j \in DOMAIN s : j \in DOMAIN z /\ z[j] = s[j] BY <1>1 DEF z
<1> QED BY <1>2 DEF Follows

(* A frame is sent that was not sent before, and arrives or does not.      *)
LEMMA FollowsNew ==
  ASSUME NEW h \in Seq(Frame), NEW s \in Seq(Frame), Follows(s, h),
         NEW f \in Frame, f \notin Elements(h)
  PROVE  Follows(s, Append(h, f)) /\ Follows(Append(s, f), Append(h, f))
<1> DEFINE g == Append(h, f)
           z == Append(s, f)
           m == Len(h) + 1
           n == Len(s) + 1
<1>1. /\ DOMAIN g = 1 .. m /\ g[m] = f /\ DOMAIN h = 1 .. Len(h)
      /\ \A a \in DOMAIN h : g[a] = h[a] /\ h[a] # f
  BY DEF Elements
<1>2. /\ DOMAIN z = 1 .. n /\ z[n] = f /\ DOMAIN s = 1 .. Len(s)
      /\ \A j \in DOMAIN s : z[j] = s[j]
  OBVIOUS
<1>3. Len(h) \in Nat /\ Len(s) \in Nat OBVIOUS
<1>4. \A j \in DOMAIN s : s[j] # f BY <1>1 DEF Follows
<1> HIDE DEF g, z
<1>5. \A j \in DOMAIN s : \A a \in DOMAIN g : g[a] = s[j] => a \in DOMAIN h /\ h[a] = s[j]
  BY <1>1, <1>3, <1>4
<1>6. Follows(s, g)
  <2>1. \A j \in DOMAIN s : \E a \in DOMAIN g : g[a] = s[j]
    <3> TAKE j \in DOMAIN s
    <3>1. PICK a \in DOMAIN h : h[a] = s[j] BY DEF Follows
    <3>2. a \in DOMAIN g /\ g[a] = s[j] BY <1>1, <1>3, <3>1
    <3> QED BY <3>2
  <2>2. \A j, k \in DOMAIN s : j < k =>
          \A a, b \in DOMAIN g : g[a] = s[j] /\ g[b] = s[k] => a < b
    BY <1>5 DEF Follows
  <2> QED BY <2>1, <2>2 DEF Follows
<1>7. Follows(z, g)
  <2>1. \A j \in DOMAIN z : \E a \in DOMAIN g : g[a] = z[j]
    <3> TAKE j \in DOMAIN z
    <3>1. CASE j \in DOMAIN s BY <1>2, <1>6, <3>1 DEF Follows
    <3>2. CASE j \notin DOMAIN s
      <4>1. j = n BY <1>2, <1>3, <3>2
      <4> QED BY <1>1, <1>2, <1>3, <4>1
    <3> QED BY <3>1, <3>2
  <2>2. ASSUME NEW j \in DOMAIN z, NEW k \in DOMAIN z, j < k,
               NEW a \in DOMAIN g, NEW b \in DOMAIN g, g[a] = z[j], g[b] = z[k]
        PROVE  a < b
    <3>1. j \in DOMAIN s BY <1>2, <1>3, <2>2
    <3>2. z[j] = s[j] /\ a \in DOMAIN h BY <1>2, <1>5, <2>2, <3>1
    <3>3. CASE k \in DOMAIN s
      <4>1. z[k] = s[k] BY <1>2, <3>3
      <4> QED BY <1>6, <2>2, <3>1, <3>2, <3>3, <4>1 DEF Follows
    <3>4. CASE k \notin DOMAIN s
      <4>1. k = n BY <1>2, <1>3, <3>4
      <4>2. b = m BY <1>1, <1>2, <1>3, <2>2, <4>1
      <4> QED BY <1>1, <1>3, <3>2, <4>2
    <3> QED BY <3>3, <3>4
  <2> QED BY <2>1, <2>2 DEF Follows
<1> QED BY <1>6, <1>7 DEF g, z

LEMMA FollowsPosition == ASSUME sent \in Seq(Frame), Follows(Received, sent) PROVE ReadInOrder
<1> SUFFICES ASSUME NEW j \in DOMAIN Received, NEW k \in DOMAIN Received, j < k
             PROVE  Position(Received[j]) < Position(Received[k])
  BY DEF ReadInOrder
<1>1. \A i \in DOMAIN Received :
        Position(Received[i]) \in DOMAIN sent /\ sent[Position(Received[i])] = Received[i]
  BY Zenon DEF Follows, Position
<1> HIDE DEF Received, Position
<1> QED BY <1>1 DEF Follows

(* What the methods do to the frames: those of a socket that falls are     *)
(* lost, the others stay where they are.                                   *)
Falls(d, e) ==
  /\ e.clReceiveFifoP = d.clReceiveFifoP
  /\ \A k \in SocketOf(e) :
       \/ e.sock[k].in = <<>>
       \/ k \in SocketOf(d) /\ e.sock[k].in = d.sock[k].in /\ e.sock[k].state = d.sock[k].state

LEMMA FallsOn == ASSUME NEW d, NEW e, NEW g, Falls(d, e), Falls(e, g) PROVE Falls(d, g)
BY DEF Falls

(* The socket is emptied, or it held nothing.                              *)
Emptied(d, k, e) ==
  \E st \in State :
    \/ e = [d EXCEPT !.sock[k].state = st, !.sock[k].in = <<>>]
    \/ e = [d EXCEPT !.sock[k].state = st] /\ d.sock[k].in = <<>>

LEMMA StateFalls ==
  ASSUME NEW d, Shape(d), NEW k \in SocketOf(d), NEW e, Emptied(d, k, e)
  PROVE  Falls(d, e)
<1>1. d \in Members /\ k \in 1 .. Len(d.sock) /\ d.sock[k] \in QtSocket /\ d.sock \in Seq(QtSocket)
  BY DEF Shape, Members, SocketOf
<1>2. PICK q : e = [d EXCEPT !.sock = [d.sock EXCEPT ![k] = q]] /\ q.in = <<>>
  <2>1. PICK st \in State :
          \/ e = [d EXCEPT !.sock[k].state = st, !.sock[k].in = <<>>]
          \/ e = [d EXCEPT !.sock[k].state = st] /\ d.sock[k].in = <<>>
    BY DEF Emptied
  <2>2. CASE e = [d EXCEPT !.sock[k].state = st, !.sock[k].in = <<>>]
    <3> DEFINE q == [d.sock[k] EXCEPT !.state = st, !.in = <<>>]
    <3>1. q.in = <<>> BY <1>1 DEF QtSocket
    <3>2. e = [d EXCEPT !.sock = [d.sock EXCEPT ![k] = q]] BY <2>2, <1>1 DEF Members
    <3> HIDE DEF q
    <3> QED BY <3>1, <3>2
  <2>3. CASE e = [d EXCEPT !.sock[k].state = st] /\ d.sock[k].in = <<>>
    <3> DEFINE q == [d.sock[k] EXCEPT !.state = st]
    <3>1. q.in = <<>> BY <1>1, <2>3 DEF QtSocket
    <3>2. e = [d EXCEPT !.sock = [d.sock EXCEPT ![k] = q]] BY <2>3, <1>1 DEF Members
    <3> HIDE DEF q
    <3> QED BY <3>1, <3>2
  <2> QED BY <2>1, <2>2, <2>3
<1>3. e.sock = [d.sock EXCEPT ![k] = q] /\ e.clReceiveFifoP = d.clReceiveFifoP
  BY <1>1, <1>2 DEF Members
<1> HIDE DEF QtSocket
<1>4. SocketOf(e) = SocketOf(d) /\ e.sock[k] = q
      /\ \A j \in SocketOf(d) : j # k => e.sock[j] = d.sock[j]
  BY <1>1, <1>3 DEF SocketOf
<1> QED BY <1>2, <1>3, <1>4 DEF Falls

(* Flags and pointers hold no frames.                                      *)
FlagsSet(d, e) ==
  \/ \E w : FlagUp(d, e) \/ FlagDown(d, w, e)
  \/ \E n : \/ e = [d EXCEPT !.btIsConnectedP = FALSE, !.pclLocalSocketP = n]
            \/ e = [d EXCEPT !.btIsConnectedP = FALSE, !.pclWebSocketP = n]
LEMMA FlagsFall == ASSUME NEW d, Shape(d), NEW e, FlagsSet(d, e) PROVE Falls(d, e)
<1>1. d \in Members BY DEF Shape
<1>2. e.sock = d.sock /\ e.clReceiveFifoP = d.clReceiveFifoP
  BY <1>1 DEF FlagsSet, FlagUp, FlagDown, Members
<1> QED BY <1>2 DEF Falls, SocketOf

LEMMA AddedFalls ==
  ASSUME NEW d, Shape(d), Room(d), NEW e, e = Added(d)
  PROVE  /\ Falls(d, e) /\ Shape(e) /\ Len(d.sock) + 1 \in SocketOf(e)
         /\ e.sock[Len(d.sock) + 1].in = <<>>
<1>1. /\ Shape(e) /\ Len(e.sock) = Len(d.sock) + 1 /\ e.sock[Len(e.sock)].in = <<>>
      /\ \A k \in SocketOf(d) : e.sock[k] = d.sock[k]
      /\ e.clReceiveFifoP = d.clReceiveFifoP
  BY SocketAdded
<1>2. Len(d.sock) \in Nat BY DEF Shape, Members
<1>3. \A k \in SocketOf(e) : k \in SocketOf(d) \/ k = Len(d.sock) + 1
  BY <1>1, <1>2 DEF SocketOf
<1> QED BY <1>1, <1>2, <1>3 DEF Falls, SocketOf

LEMMA AttemptFalls ==
  ASSUME NEW d, Shape(d), Room(d), NEW e, Attempt(d, e) PROVE Falls(d, e)
<1> DEFINE a == Added(d)
           n == Len(d.sock) + 1
<1>1. \/ e = a \/ e = onSocketConnect(a, n)
      \/ e = [a EXCEPT !.sock[n].state = "down", !.view = "idle"]
  BY DEF Attempt
<1>2. Falls(d, a) /\ Shape(a) /\ n \in SocketOf(a) /\ a.sock[n].in = <<>>
  BY AddedFalls
<1> HIDE DEF a, n
<1>3. ASSUME NEW st \in State, NEW u, u = [a EXCEPT !.sock[n].state = st]
      PROVE  Falls(d, u) /\ Shape(u)
  <2>1. Emptied(a, n, u) BY <1>2, <1>3 DEF Emptied
  <2>2. StateBecomes(a, n, st, u) BY <1>3 DEF StateBecomes
  <2>3. Shape(u) BY <1>2, <2>2, StateSet
  <2> QED BY <1>2, <2>1, <2>3, StateFalls, FallsOn
<1>4. CASE e = onSocketConnect(a, n)
  <2> DEFINE u == [a EXCEPT !.sock[n].state = "up"]
  <2>1. FlagUp(u, e) BY <1>4, Zenon DEF onSocketConnect, FlagUp
  <2>2. "up" \in State BY DEF State, Live
  <2>3. Falls(d, u) /\ Shape(u) BY <1>3, <2>2
  <2> HIDE DEF u
  <2>4. FlagsSet(u, e) BY <2>1 DEF FlagsSet
  <2> QED BY <2>3, <2>4, FlagsFall, FallsOn
<1>5. CASE e = [a EXCEPT !.sock[n].state = "down", !.view = "idle"]
  <2> DEFINE u == [a EXCEPT !.sock[n].state = "down"]
  <2>1. e = [u EXCEPT !.view = "idle"] BY <1>5, Zenon
  <2>2. "down" \in State BY DEF State
  <2>3. Falls(d, u) /\ Shape(u) BY <1>3, <2>2
  <2> HIDE DEF u
  <2>4. u \in Members BY <2>3 DEF Shape
  <2>5. e.sock = u.sock /\ e.clReceiveFifoP = u.clReceiveFifoP BY <2>1, <2>4 DEF Members
  <2>6. Falls(u, e) BY <2>5 DEF Falls, SocketOf
  <2> QED BY <2>3, <2>6, FallsOn
<1> QED BY <1>1, <1>2, <1>4, <1>5

LEMMA SlotFalls == ASSUME NEW d, Shape(d), NEW which, NEW e, SlotRan(d, which, e) PROVE Falls(d, e)
<1> DEFINE u == AtRest(d)
<1>1. \/ e = u
      \/ Attempt(u, e) /\ Len(d.sock) < MaxSockets
  BY DEF SlotRan
<1>2. Shape(u) /\ u.sock = d.sock BY AtRestType
<1>3. FlagsSet(d, u) BY DEF FlagsSet, FlagDown, AtRest
<1> HIDE DEF u
<1>4. Falls(d, u) BY <1>3, FlagsFall
<1>5. CASE Attempt(u, e) /\ Len(d.sock) < MaxSockets
  <2>1. Room(u) BY <1>2, <1>5 DEF Room
  <2> QED BY <1>2, <1>4, <1>5, <2>1, AttemptFalls, FallsOn
<1> QED BY <1>1, <1>4, <1>5

LEMMA AbortFalls ==
  ASSUME NEW d, Shape(d), NEW k \in SocketOf(d), NEW e, Aborted(d, k, e) PROVE Falls(d, e)
<1> DEFINE u == [d EXCEPT !.sock[k].state = "down", !.sock[k].in = <<>>]
<1>1. e = d \/ SlotRan(u, d.sock[k].kind, e) BY DEF Aborted
<1>2. Falls(d, u) /\ Shape(u)
  <2> DEFINE v == u
  <2>1. "down" \in State BY DEF State
  <2>2. Emptied(d, k, v) BY <2>1 DEF Emptied
  <2>3. StateBecomes(d, k, "down", v) BY DEF StateBecomes
  <2> HIDE DEF v
  <2>4. Falls(d, v) /\ Shape(v) BY <2>1, <2>2, <2>3, StateFalls, StateSet
  <2> QED BY <2>4 DEF v
<1> HIDE DEF u
<1>3. CASE e = d BY <1>3 DEF Falls
<1>4. CASE SlotRan(u, d.sock[k].kind, e) BY <1>2, <1>4, SlotFalls, FallsOn
<1> QED BY <1>1, <1>3, <1>4

LEMMA DisconnectFalls ==
  ASSUME NEW d, Shape(d), NEW e, e = disconnectNetwork(d) PROVE Falls(d, e)
<1> DEFINE k == Pointer(d)
           u == IF k = 0 THEN d ELSE [d EXCEPT !.sock[k].state = "gone", !.sock[k].in = <<>>]
<1>1. \/ e = [u EXCEPT !.btIsConnectedP = FALSE, !.pclLocalSocketP = 0]
      \/ e = [u EXCEPT !.btIsConnectedP = FALSE, !.pclWebSocketP = 0]
  BY Zenon DEF disconnectNetwork
<1>2. k # 0 => k \in SocketOf(d) BY DEF Shape, Points, Pointer
<1>3. "gone" \in State BY DEF State
<1>4. IF k = 0 THEN u = d ELSE Emptied(d, k, u) /\ StateBecomes(d, k, "gone", u)
  BY <1>3 DEF StateBecomes, Emptied
<1> HIDE DEF u, k
<1>5. Shape(u) /\ Falls(d, u)
  <2>1. CASE k = 0 BY <2>1, <1>4 DEF Falls
  <2>2. CASE k # 0 BY <2>2, <1>2, <1>3, <1>4, StateSet, StateFalls
  <2> QED BY <2>1, <2>2
<1>6. FlagsSet(u, e) BY <1>1 DEF FlagsSet
<1> QED BY <1>5, <1>6, FlagsFall, FallsOn

(* A call or an event that moves no frame.                                 *)
LEMMA FallStep ==
  /\ Discipline /\ SocketInv /\ Loaded(c)
  /\ \/ AppDisconnect \/ write \/ Resume \/ ServerChanges
     \/ \E b \in BOOLEAN : AppConnect(b) \/ setHostAddress(b)
     \/ \E k \in Socket :
          \/ Accepted(k)
          \/ \E again, more \in BOOLEAN : LocalFails(k, again, more) \/ WebFails(k, again, more)
          \/ \E again \in BOOLEAN : Refused(k, again) \/ WebCloses(k, again)
  => Falls(c, c') /\ UNCHANGED <<sent, taken>>
<1> SUFFICES ASSUME Discipline, SocketInv, Loaded(c)
             PROVE  /\ \/ AppDisconnect \/ write \/ Resume \/ ServerChanges
                       \/ \E b \in BOOLEAN : AppConnect(b) \/ setHostAddress(b)
                       \/ \E k \in Socket :
                            \/ Accepted(k)
                            \/ \E again, more \in BOOLEAN :
                                 LocalFails(k, again, more) \/ WebFails(k, again, more)
                            \/ \E again \in BOOLEAN : Refused(k, again) \/ WebCloses(k, again)
                    => Falls(c, c') /\ UNCHANGED <<sent, taken>>
  OBVIOUS
<1>0. Good(c) /\ Shape(c) /\ c \in Members /\ Falls(c, c)
  BY DEF SocketInv, Good, Shape, Falls
<1>1. ASSUME AppDisconnect PROVE Falls(c, c') /\ UNCHANGED <<sent, taken>>
  <2> DEFINE u == disconnectNetwork(c)
  <2>1. Falls(c, u) BY <1>0, DisconnectFalls
  <2>2. Shape(u) /\ ~u.btIsConnectedP BY <1>0, Disconnected
  <2>3. FlagDown(u, "idle", c') BY <1>1, <2>2 DEF AppDisconnect, FlagDown
  <2> HIDE DEF u
  <2>4. FlagsSet(u, c') BY <2>3 DEF FlagsSet
  <2>5. Falls(c, c') BY <2>1, <2>2, <2>4, FlagsFall, FallsOn
  <2> QED BY <1>1, <2>5 DEF AppDisconnect
<1>2. ASSUME NEW b \in BOOLEAN, AppConnect(b) PROVE Falls(c, c') /\ UNCHANGED <<sent, taken>>
  <2>1. c.view = "idle" BY <1>2 DEF AppConnect, Waits, Discipline
  <2>2. Attempt(c, c') BY <1>0, <1>2, <2>1, AttemptMade DEF AppConnect, Good, Status
  <2>3. Room(c) BY <1>2 DEF AppConnect, Room
  <2>4. Falls(c, c') BY <1>0, <2>2, <2>3, AttemptFalls
  <2> QED BY <1>2, <2>4 DEF AppConnect
<1>3. ASSUME NEW b \in BOOLEAN, setHostAddress(b) PROVE Falls(c, c') /\ UNCHANGED <<sent, taken>>
  <2>1. c' = [c EXCEPT !.btIsLocalConnectionP = b] BY <1>3 DEF setHostAddress
  <2>2. c'.sock = c.sock /\ c'.clReceiveFifoP = c.clReceiveFifoP
    BY <1>0, <2>1 DEF Members
  <2> QED BY <1>3, <2>2 DEF setHostAddress, Falls, SocketOf
<1>4. ASSUME write \/ Resume \/ ServerChanges PROVE Falls(c, c') /\ UNCHANGED <<sent, taken>>
  BY <1>0, <1>4 DEF write, Resume, ServerChanges
<1>5. ASSUME NEW k \in Socket,
             \/ Accepted(k)
             \/ \E again, more \in BOOLEAN : LocalFails(k, again, more) \/ WebFails(k, again, more)
             \/ \E again \in BOOLEAN : Refused(k, again) \/ WebCloses(k, again)
      PROVE  Falls(c, c') /\ UNCHANGED <<sent, taken>>
  <2>1. UNCHANGED <<sent, taken>>
    BY <1>5 DEF Accepted, LocalFails, WebFails, Refused, WebCloses
  <2>2. k \in SocketOf(c) BY DEF Socket, SocketOf
  <2>3. c.sock[k].state = "pending" => c.sock[k].in = <<>> BY <2>2 DEF Loaded
  <2>4. c.sock[k].state \in Live
    BY <1>5 DEF Accepted, LocalFails, WebFails, Refused, WebCloses, Live
  <2>5. k = Pointer(c) /\ k # 0 /\ (c.sock[k].kind = "local" <=> c.btIsLocalConnectionP)
    BY <1>0, <2>2, <2>4, InUse
  <2>6. [c EXCEPT !.sock[k].state = c.sock[k].state] = c BY <1>0, <2>2, StateKept
  <2>7. ASSUME NEW st \in State, NEW u, u = [c EXCEPT !.sock[k].state = st],
               c.sock[k].in = <<>>
        PROVE  Falls(c, u) /\ Shape(u)
    <3>1. Emptied(c, k, u) /\ StateBecomes(c, k, st, u) BY <2>7 DEF Emptied, StateBecomes
    <3> QED BY <1>0, <2>2, <3>1, StateFalls, StateSet
  <2>8. "up" \in State /\ "down" \in State BY DEF State, Live
  <2>9. CASE Accepted(k)
    <3> DEFINE u == [c EXCEPT !.sock[k].state = "up"]
    <3>1. FlagUp(u, c') BY <2>9, Zenon DEF Accepted, onSocketConnect, FlagUp
    <3>2. c.sock[k].in = <<>> BY <2>3, <2>9 DEF Accepted
    <3>3. Falls(c, u) /\ Shape(u) BY <2>7, <2>8, <3>2
    <3> HIDE DEF u
    <3>4. FlagsSet(u, c') BY <3>1 DEF FlagsSet
    <3>5. Falls(c, c') BY <3>3, <3>4, FlagsFall, FallsOn
    <3> QED BY <2>1, <3>5
  <2>10. ASSUME NEW again \in BOOLEAN, Refused(k, again) \/ WebCloses(k, again)
         PROVE  Falls(c, c')
    <3> DEFINE u == [c EXCEPT !.sock[k].state = "down"]
    <3>1. c.sock[k].in = <<>> BY <2>3, <2>10 DEF Refused, WebCloses
    <3>2. Falls(c, u) /\ Shape(u) BY <2>7, <2>8, <3>1
    <3>3. \/ c' = [u EXCEPT !.view = "idle"]
          \/ c' = onSocketDisconnect(u, "web", again, FALSE)
      <4>1. CASE Refused(k, again)
        <5>1. \/ c' = [c EXCEPT !.sock[k].state = "down", !.view = "idle"]
              \/ c' = onSocketDisconnect(u, "web", again, FALSE)
          BY <4>1 DEF Refused
        <5> QED BY <5>1, Zenon
      <4>2. CASE WebCloses(k, again) BY <4>2 DEF WebCloses
      <4> QED BY <2>10, <4>1, <4>2
    <3> HIDE DEF u
    <3>4. CASE c' = [u EXCEPT !.view = "idle"]
      <4>1. u \in Members BY <3>2 DEF Shape
      <4>2. c'.sock = u.sock /\ c'.clReceiveFifoP = u.clReceiveFifoP BY <3>4, <4>1 DEF Members
      <4>3. Falls(u, c') BY <4>2 DEF Falls, SocketOf
      <4> QED BY <3>2, <4>3, FallsOn
    <3>5. CASE c' = onSocketDisconnect(u, "web", again, FALSE)
      <4>1. SlotRan(u, "web", c') BY <3>5, SlotResult
      <4> QED BY <3>2, <4>1, SlotFalls, FallsOn
    <3> QED BY <3>3, <3>4, <3>5
  <2>11. ASSUME NEW again \in BOOLEAN, NEW later \in BOOLEAN, LocalFails(k, again, later)
         PROVE  Falls(c, c')
    <3>1. c.pclLocalSocketP = k BY <2>5, <2>11 DEF LocalFails, Pointer
    <3>2. c' = onSocketErrorLocal(c, again, later)
      BY <2>11, <2>5, <2>6, <3>1 DEF LocalFails
    <3> DEFINE a == abort(c, k, again, later)
    <3>3. c' = AtRest(a) BY <3>1, <3>2 DEF onSocketErrorLocal, AtRest
    <3>4. Aborted(c, k, a) BY AbortResult
    <3> HIDE DEF a
    <3>5. Falls(c, a) BY <1>0, <2>2, <3>4, AbortFalls
    <3>6. PICK b : b = a OBVIOUS
    <3>7. Shape(b) BY <1>0, <2>5, <3>4, <3>6, AbortGood DEF Good
    <3>8. FlagsSet(b, AtRest(b)) BY DEF FlagsSet, FlagDown, AtRest
    <3>9. Falls(b, AtRest(b)) BY <3>7, <3>8, FlagsFall
    <3> QED BY <3>3, <3>5, <3>6, <3>9, FallsOn
  <2>12. ASSUME NEW again \in BOOLEAN, NEW more \in BOOLEAN, WebFails(k, again, more)
         PROVE  Falls(c, c')
    <3>1. c.pclWebSocketP = k BY <2>5, <2>12 DEF WebFails, Pointer
    <3>2. c' = onSocketErrorWeb(c, again, more, FALSE)
      BY <2>12, <2>5, <2>6, <3>1 DEF WebFails
    <3> DEFINE a == abort(c, k, again, FALSE)
               e == disconnectNetwork([a EXCEPT !.btIsConnectedP = FALSE])
    <3>3. c' = onSocketDisconnect(e, "web", more, FALSE) BY <3>1, <3>2 DEF onSocketErrorWeb
    <3>4. Aborted(c, k, a) BY AbortResult
    <3>5. SlotRan(e, "web", c') BY <3>3, SlotResult
    <3> HIDE DEF a
    <3>6. Falls(c, a) BY <1>0, <2>2, <3>4, AbortFalls
    <3>7. PICK b : b = a OBVIOUS
    <3>8. Shape(b) BY <1>0, <2>5, <3>4, <3>7, AbortGood DEF Good
    <3> DEFINE v == [b EXCEPT !.btIsConnectedP = FALSE]
               w == disconnectNetwork(v)
    <3>9. SlotRan(w, "web", c') BY <3>5, <3>7
    <3>10. FlagDown(b, b.view, v) BY DEF FlagDown
    <3>11. w = disconnectNetwork(v) OBVIOUS
    <3> HIDE DEF v, w
    <3>12. b.view \in {"idle", "connecting", "connected"} BY <3>8 DEF Shape, Members
    <3>13. Shape(v) BY <3>8, <3>10, <3>12, DownSet
    <3>14. FlagsSet(b, v) BY <3>10 DEF FlagsSet
    <3>15. Falls(b, v) BY <3>8, <3>14, FlagsFall
    <3>16. Falls(v, w) /\ Shape(w) BY <3>11, <3>13, DisconnectFalls, Disconnected
    <3>17. Falls(w, c') BY <3>9, <3>16, SlotFalls
    <3> QED BY <3>6, <3>7, <3>15, <3>16, <3>17, FallsOn
  <2> QED BY <1>5, <2>1, <2>9, <2>10, <2>11, <2>12
<1> QED BY <1>1, <1>2, <1>3, <1>4, <1>5

(* Frames that fall leave the order of the others.                         *)
LEMMA FallOrder ==
  SocketInv /\ OrderInv /\ Falls(c, c') /\ UNCHANGED <<sent, taken>> => OrderInv'
<1> SUFFICES ASSUME SocketInv, OrderInv, Falls(c, c'), UNCHANGED <<sent, taken>>
             PROVE  OrderInv'
  OBVIOUS
<1>1. Received' = Received BY DEF Falls, Received
<1>2. Received \in Seq(Frame)
  <2>1. taken \in Seq(Frame) /\ c.clReceiveFifoP \in Seq(Frame)
    BY DEF SocketInv, Good, Shape, Members
  <2> QED BY <2>1 DEF Received
<1>3. Loaded(c') BY DEF Falls, Loaded, OrderInv
<1>4. Follows(Received, sent)' BY <1>1 DEF OrderInv, Follows
<1> HIDE DEF Received
<1>5. ASSUME NEW k \in Socket' PROVE Follows(Received \o c.sock[k].in, sent)'
  <2>1. k \in SocketOf(c') BY DEF Socket, SocketOf
  <2>2. CASE c'.sock[k].in = <<>>
    <3>1. Received \o <<>> = Received BY <1>2
    <3>2. Received' \o c'.sock[k].in = Received BY <1>1, <2>2, <3>1
    <3> QED BY <3>2 DEF OrderInv
  <2>3. CASE k \in SocketOf(c) /\ c'.sock[k].in = c.sock[k].in
    <3>1. Follows(Received \o c.sock[k].in, sent) BY <2>3 DEF OrderInv, Socket, SocketOf
    <3> QED BY <1>1, <2>3, <3>1
  <2> QED BY <2>1, <2>2, <2>3 DEF Falls
<1> QED BY <1>3, <1>4, <1>5 DEF OrderInv

LEMMA Concat ==
  ASSUME NEW r \in Seq(Frame), NEW s \in Seq(Frame), NEW u \in Seq(Frame)
  PROVE  (r \o s) \o u = r \o (s \o u) /\ r \o <<>> = r
OBVIOUS

LEMMA ConcatAppend ==
  ASSUME NEW r \in Seq(Frame), NEW s \in Seq(Frame), NEW f \in Frame
  PROVE  r \o Append(s, f) = Append(r \o s, f) /\ Append(r, f) = r \o <<f>>
<1>1. Append(r, f) = r \o <<f>> OBVIOUS
<1>2. r \o Append(s, f) = Append(r \o s, f)
  <2> DEFINE x == r \o Append(s, f)
             y == Append(r \o s, f)
  <2>1. x \in Seq(Frame) /\ y \in Seq(Frame) /\ Len(x) = Len(y) OBVIOUS
  <2>2. \A i \in 1 .. Len(x) : x[i] = y[i] OBVIOUS
  <2> HIDE DEF x, y
  <2>3. x = y BY <2>1, <2>2
  <2> QED BY <2>3 DEF x, y
<1> QED BY <1>1, <1>2

LEMMA HeadAndTail ==
  ASSUME NEW r \in Seq(Frame), NEW s \in Seq(Frame), s # <<>>
  PROVE  /\ Append(r, Head(s)) \o Tail(s) = r \o s /\ <<Head(s)>> \o Tail(s) = s
         /\ Tail(s) \in Seq(Frame) /\ Head(s) \in Frame
<1>1. Tail(s) \in Seq(Frame) /\ Head(s) \in Frame /\ <<Head(s)>> \o Tail(s) = s OBVIOUS
<1> DEFINE x == Append(r, Head(s)) \o Tail(s)
           y == r \o s
<1>2. x \in Seq(Frame) /\ y \in Seq(Frame) /\ Len(x) = Len(y) BY <1>1
<1>3. \A i \in 1 .. Len(x) : x[i] = y[i] BY <1>1
<1> HIDE DEF x, y
<1>4. x = y BY <1>2, <1>3
<1> QED BY <1>1, <1>4 DEF x, y

(* read() moves the first frame from the FIFO to what was taken.           *)
LEMMA ReadOrder == SocketInv /\ OrderInv /\ read => OrderInv'
<1> SUFFICES ASSUME SocketInv, OrderInv, read PROVE OrderInv' OBVIOUS
<1>1. c \in Members /\ taken \in Seq(Frame) /\ c.clReceiveFifoP \in Seq(Frame)
  BY DEF SocketInv, Good, Shape, Members
<1>2. c'.sock = c.sock /\ c'.clReceiveFifoP = Tail(c.clReceiveFifoP)
  BY <1>1 DEF read, Members
<1>3. Received' = Received
  <2>1. c.clReceiveFifoP # <<>> /\ taken' = Append(taken, Head(c.clReceiveFifoP)) BY DEF read
  <2>2. Append(taken, Head(c.clReceiveFifoP)) \o Tail(c.clReceiveFifoP)
          = taken \o c.clReceiveFifoP
    BY <1>1, <2>1, HeadAndTail
  <2> QED BY <1>2, <2>1, <2>2 DEF Received
<1> QED BY <1>2, <1>3 DEF OrderInv, Loaded, SocketOf, Socket, read

LEMMA SendOrder ==
  ASSUME NEW f \in Frame PROVE SocketInv /\ OrderInv /\ NetworkSends(f) => OrderInv'
<1> SUFFICES ASSUME SocketInv, OrderInv, NetworkSends(f) PROVE OrderInv' OBVIOUS
<1>1. /\ c \in Members /\ c.clReceiveFifoP \in Seq(Frame) /\ c.sock \in Seq(QtSocket)
      /\ taken \in Seq(Frame) /\ sent \in Seq(Frame) /\ SocketOf(c) = Socket
  BY DEF SocketInv, Good, Shape, Members, SocketOf, Socket
<1>2. Received \in Seq(Frame) BY <1>1 DEF Received
<1> DEFINE q == [k \in Socket |-> IF c.sock[k].state = "up"
                                  THEN [c.sock[k] EXCEPT !.in = Append(@, f)] ELSE c.sock[k]]
<1>3. c'.sock = q /\ c'.clReceiveFifoP = c.clReceiveFifoP
  BY <1>1 DEF NetworkSends, Members
<1>4. sent' = Append(sent, f) /\ f \notin Elements(sent) /\ taken' = taken
  BY DEF NetworkSends
<1>5. \A k \in Socket : /\ c.sock[k].in \in Seq(Frame) /\ q[k].state = c.sock[k].state
                        /\ q[k].in \in {c.sock[k].in, Append(c.sock[k].in, f)}
                        /\ q[k].in # c.sock[k].in => c.sock[k].state = "up"
  <2> TAKE k \in Socket
  <2>1. c.sock[k] \in QtSocket BY <1>1 DEF Socket
  <2>2. q[k] = IF c.sock[k].state = "up" THEN [c.sock[k] EXCEPT !.in = Append(@, f)]
               ELSE c.sock[k]
    OBVIOUS
  <2> HIDE DEF q
  <2> QED BY <2>1, <2>2 DEF QtSocket
<1>6. Socket' = Socket
  <2>1. Len(c.sock) \in Nat BY <1>1
  <2>2. DOMAIN q = 1 .. Len(c.sock) BY DEF Socket
  <2>3. Len(q) = Len(c.sock) BY <2>1, <2>2
  <2> QED BY <1>3, <2>3 DEF Socket
<1> HIDE DEF q
<1>7. Loaded(c)'
  <2> SUFFICES ASSUME NEW k \in Socket, c'.sock[k].in # <<>> PROVE c'.sock[k].state = "up"
    BY <1>6 DEF Loaded, SocketOf, Socket
  <2> QED BY <1>1, <1>3, <1>5 DEF OrderInv, Loaded
<1>8. Received' = Received BY <1>3, <1>4 DEF Received
<1> HIDE DEF Received
<1>9. Follows(Received', sent') BY <1>1, <1>2, <1>4, <1>8, FollowsNew DEF OrderInv
<1>10. ASSUME NEW k \in Socket PROVE Follows(Received' \o c'.sock[k].in, sent')
  <2> DEFINE s == Received \o c.sock[k].in
  <2>1. s \in Seq(Frame) /\ Received \o Append(c.sock[k].in, f) = Append(s, f)
    <3> DEFINE old == c.sock[k].in
    <3>1. old \in Seq(Frame) BY <1>5
    <3> HIDE DEF old
    <3>2. Received \o old \in Seq(Frame) /\ Received \o Append(old, f) = Append(Received \o old, f)
      BY <1>2, <3>1, ConcatAppend
    <3> QED BY <3>2 DEF old
  <2>2. Follows(s, sent) BY DEF OrderInv
  <2> HIDE DEF s
  <2>3. Follows(s, sent') /\ Follows(Append(s, f), sent')
    BY <1>1, <1>4, <2>1, <2>2, FollowsNew
  <2>4. CASE c'.sock[k].in = c.sock[k].in BY <1>8, <2>3, <2>4 DEF s
  <2>5. CASE c'.sock[k].in = Append(c.sock[k].in, f) BY <1>8, <2>1, <2>3, <2>5
  <2> QED BY <1>3, <1>5, <2>4, <2>5
<1> QED BY <1>6, <1>7, <1>9, <1>10 DEF OrderInv

(* Frames go from the socket in use to the FIFO, from the front.           *)
FrontTaken(k, d, e) ==
  \E s, rest \in Seq(Frame) :
    /\ d.sock[k].in = s \o rest
    /\ e = [d EXCEPT !.clReceiveFifoP = @ \o s, !.sock[k].in = rest]

LEMMA FrontOrder ==
  ASSUME NEW k \in Socket, c.sock[k].state = "up", SocketInv, OrderInv,
         FrontTaken(k, c, c'), UNCHANGED <<sent, taken>>
  PROVE  OrderInv'
<1>1. /\ c \in Members /\ c.clReceiveFifoP \in Seq(Frame) /\ c.sock \in Seq(QtSocket)
      /\ taken \in Seq(Frame) /\ sent \in Seq(Frame) /\ SocketOf(c) = Socket
      /\ Good(c) /\ k \in SocketOf(c) /\ k \in 1 .. Len(c.sock)
  BY DEF SocketInv, Good, Shape, Members, SocketOf, Socket
<1>2. PICK s \in Seq(Frame), rest \in Seq(Frame) :
        /\ c.sock[k].in = s \o rest
        /\ c' = [c EXCEPT !.clReceiveFifoP = @ \o s, !.sock[k].in = rest]
  BY DEF FrontTaken
<1>3. /\ c'.clReceiveFifoP = c.clReceiveFifoP \o s
      /\ c'.sock = [c.sock EXCEPT ![k] = [c.sock[k] EXCEPT !.in = rest]]
  BY <1>1, <1>2 DEF Members
<1>4. /\ Len(c'.sock) = Len(c.sock) /\ c'.sock[k].in = rest /\ c'.sock[k].state = c.sock[k].state
      /\ \A j \in Socket : j # k => c'.sock[j] = c.sock[j]
  <2>1. c.sock[k] \in QtSocket BY <1>1
  <2> DEFINE r == [c.sock[k] EXCEPT !.in = rest]
  <2>2. r.in = rest /\ r.state = c.sock[k].state BY <2>1 DEF QtSocket
  <2> HIDE DEF r, QtSocket
  <2> QED BY <1>1, <1>3, <2>2 DEF Socket
<1>5. Socket' = Socket /\ SocketOf(c') = Socket BY <1>4 DEF Socket, SocketOf
<1>6. Received \in Seq(Frame) BY <1>1 DEF Received
<1>7. Received' = Received \o s
  <2>1. taken' = taken OBVIOUS
  <2> DEFINE q == c.clReceiveFifoP
  <2>2. q \in Seq(Frame) /\ taken \in Seq(Frame) BY <1>1
  <2> HIDE DEF q
  <2>3. (taken \o q) \o s = taken \o (q \o s) BY <2>2, Concat, SMTT(30)
  <2> QED BY <1>3, <2>1, <2>3 DEF Received, q
<1> HIDE DEF Received
<1>8. Follows(Received' \o rest, sent')
  <2>1. Received' \o rest = Received \o c.sock[k].in BY <1>2, <1>6, <1>7, Concat
  <2>2. Follows(Received \o c.sock[k].in, sent) BY DEF OrderInv
  <2> QED BY <2>1, <2>2
<1>9. Received' \in Seq(Frame) BY <1>6, <1>7
<1>10. Follows(Received', sent')
  <2>1. sent' \in Seq(Frame) BY <1>1
  <2> QED BY <1>8, <1>9, <2>1, FollowsShorter
<1>11. ASSUME NEW j \in Socket, j # k PROVE c'.sock[j].in = <<>>
  <2>1. k = Pointer(c) BY <1>1, InUse DEF Live
  <2>2. c.sock[j].state # "up" BY <1>1, <1>11, <2>1 DEF Good, Status, Single, Live
  <2> QED BY <1>1, <1>4, <1>11, <2>2 DEF OrderInv, Loaded
<1>12. Loaded(c') BY <1>4, <1>5, <1>11 DEF Loaded
<1>13. ASSUME NEW j \in Socket PROVE Follows(Received' \o c'.sock[j].in, sent')
  <2>1. CASE j = k BY <1>4, <1>8, <2>1
  <2>2. CASE j # k
    <3>1. Received' \o <<>> = Received' BY <1>9, Concat
    <3> QED BY <1>10, <1>11, <2>2, <3>1
  <2> QED BY <2>1, <2>2
<1> QED BY <1>5, <1>10, <1>12, <1>13 DEF OrderInv

LEMMA ReceiveOrder ==
  ASSUME NEW k \in Socket
  PROVE  /\ SocketInv /\ OrderInv /\ (onSocketReceiveLocal(k) \/ onSocketReceiveWeb(k))
         => OrderInv'
<1> SUFFICES ASSUME SocketInv, OrderInv, onSocketReceiveLocal(k) \/ onSocketReceiveWeb(k)
             PROVE  OrderInv'
  OBVIOUS
<1>1. /\ c \in Members /\ Good(c) /\ k \in SocketOf(c) /\ c.sock[k].in \in Seq(Frame)
      /\ c.sock[k].state = "up" /\ UNCHANGED <<sent, taken>> /\ c.sock[k].in # <<>>
  <2>1. c \in Members /\ Good(c) /\ k \in SocketOf(c)
    BY DEF SocketInv, Good, Shape, Socket, SocketOf
  <2>2. c.sock[k] \in QtSocket BY <2>1 DEF Members, SocketOf
  <2> QED BY <2>1, <2>2 DEF QtSocket, onSocketReceiveLocal, onSocketReceiveWeb
<1>2. CASE onSocketReceiveLocal(k)
  <2>1. k = Pointer(c) /\ k # 0 /\ c.btIsLocalConnectionP
    BY <1>1, <1>2, InUse DEF onSocketReceiveLocal, Live
  <2>2. c' = [c EXCEPT !.clReceiveFifoP = @ \o c.sock[k].in, !.sock[k].in = <<>>]
    BY <1>2, <2>1 DEF onSocketReceiveLocal, Pointer
  <2>3. c.sock[k].in = c.sock[k].in \o <<>> /\ <<>> \in Seq(Frame) BY <1>1, Concat
  <2>4. FrontTaken(k, c, c') BY <1>1, <2>2, <2>3 DEF FrontTaken
  <2> QED BY <1>1, <2>4, FrontOrder
<1>3. CASE onSocketReceiveWeb(k)
  <2> DEFINE s == <<Head(c.sock[k].in)>>
             rest == Tail(c.sock[k].in)
  <2>1. c' = [c EXCEPT !.clReceiveFifoP = Append(@, Head(c.sock[k].in)), !.sock[k].in = rest]
    BY <1>3 DEF onSocketReceiveWeb
  <2>2. s \in Seq(Frame) /\ rest \in Seq(Frame) BY <1>1, HeadAndTail
  <2>3. c.clReceiveFifoP \in Seq(Frame) BY <1>1 DEF Members
  <2>4. Append(c.clReceiveFifoP, Head(c.sock[k].in)) = c.clReceiveFifoP \o s
    BY <1>1, <2>3, HeadAndTail, ConcatAppend
  <2>5. c.sock[k].in = s \o rest BY <1>1, HeadAndTail
  <2>6. c' = [c EXCEPT !.clReceiveFifoP = @ \o s, !.sock[k].in = rest] BY <2>1, <2>4
  <2> HIDE DEF s, rest
  <2>7. FrontTaken(k, c, c') BY <2>2, <2>5, <2>6 DEF FrontTaken
  <2> QED BY <1>1, <2>7, FrontOrder
<1> QED BY <1>2, <1>3

------------------------------------------------------------------------------
LEMMA SocketInvariant == ASSUME Discipline PROVE Spec => []SocketInv
<1>1. SocketInv /\ [Next]_vars => SocketInv'
  <2> SUFFICES ASSUME SocketInv, [Next]_vars PROVE SocketInv' OBVIOUS
  <2>1. CASE UNCHANGED vars BY <2>1 DEF vars, SocketInv
  <2>2. CASE Next
    BY <2>2, ProgramStep, TrafficStep, EventStep DEF Next
  <2> QED BY <2>1, <2>2
<1> QED BY <1>1, InitInv, PTL DEF Spec

LEMMA InvType == SocketInv => TypeOK
<1> SUFFICES ASSUME SocketInv PROVE TypeOK OBVIOUS
<1>1. Shape(c) /\ c \in Members BY DEF SocketInv, Good, Shape
<1>2. \A k \in Socket : c.sock[k] \in QtSocket BY <1>1 DEF Socket, Members
<1>3. \A k \in Socket : c.sock[k].kind \in {"local", "web"}
                        /\ c.sock[k].state \in Live \cup {"down", "gone"}
  BY <1>2 DEF QtSocket, State
<1>4. /\ c.btIsConnectedP \in BOOLEAN /\ c.btIsLocalConnectionP \in BOOLEAN
      /\ c.view \in {"idle", "connecting", "connected"} /\ c.clReceiveFifoP \in Seq(Frame)
  BY <1>1 DEF Members
<1>5. /\ c.pclLocalSocketP # 0 => c.sock[c.pclLocalSocketP].kind = "local"
      /\ c.pclWebSocketP # 0 => c.sock[c.pclWebSocketP].kind = "web"
      /\ Len(c.sock) <= MaxSockets
  BY <1>1 DEF Shape, Points
<1>6. /\ taken \in Seq(Frame) /\ server \in BOOLEAN /\ exec \in BOOLEAN
      /\ crashed \in BOOLEAN
  BY DEF SocketInv
<1> QED BY <1>3, <1>4, <1>5, <1>6 DEF TypeOK

LEMMA InvConnected == SocketInv => IsConnected /\ OnlyOnce
<1> SUFFICES ASSUME SocketInv PROVE IsConnected /\ OnlyOnce OBVIOUS
<1>1. Good(c) /\ Socket = SocketOf(c) BY DEF SocketInv, Socket, SocketOf
<1>2. Pointer(c) # 0 => Pointer(c) \in SocketOf(c) BY <1>1 DEF Good, Shape, Points, Pointer
<1>3. c.view \in {"idle", "connecting", "connected"} BY <1>1 DEF Good, Shape, Members
<1>4. Pointer(c) # 0 /\ c.sock[Pointer(c)].state = "up" => c.btIsConnectedP
  BY <1>1, <1>2, InUse DEF Live
<1> QED BY <1>1, <1>4 DEF IsConnected, OnlyOnce, SocketInv, Good, Status, Single

(* The members have their types, and each pointer a socket of its kind.    *)
THEOREM SocketTypeCorrect == ASSUME Discipline PROVE Spec => []TypeOK
BY SocketInvariant, InvType, PTL

(* The flag, the pointer write() follows, the Qt socket and the signals    *)
(* tell the same, however connections fail: no null pointer is used.       *)
THEOREM FlagIsRight == ASSUME Discipline PROVE Spec => []IsConnected
<1>1. SocketInv => IsConnected BY InvConnected
<1> QED BY <1>1, SocketInvariant, PTL

(* No second Qt socket is alive, for any number of attempts.               *)
THEOREM OneAtATime == ASSUME Discipline PROVE Spec => []OnlyOnce
<1>1. SocketInv => OnlyOnce BY InvConnected
<1> QED BY <1>1, SocketInvariant, PTL

LEMMA OrderInvariant == ASSUME Discipline PROVE Spec => [](SocketInv /\ OrderInv)
<1>1. Init => OrderInv
  <2> SUFFICES ASSUME Init PROVE OrderInv OBVIOUS
  <2>1. c.sock = <<>> /\ Received = <<>> BY DEF Init, Received
  <2>2. Socket = {} /\ SocketOf(c) = {} BY <2>1 DEF Socket, SocketOf
  <2> QED BY <2>1, <2>2 DEF OrderInv, Loaded, Follows
<1>2. SocketInv /\ OrderInv /\ [Next]_vars => OrderInv'
  <2> SUFFICES ASSUME SocketInv, OrderInv, [Next]_vars PROVE OrderInv' OBVIOUS
  <2>1. CASE UNCHANGED vars
    <3>1. Falls(c, c') BY <2>1 DEF vars, Falls, SocketOf
    <3> QED BY <2>1, <3>1, FallOrder DEF vars
  <2>2. CASE read BY <2>2, ReadOrder
  <2>3. CASE \E f \in Frame : NetworkSends(f) BY <2>3, SendOrder
  <2>4. CASE \E k \in Socket : onSocketReceiveLocal(k) \/ onSocketReceiveWeb(k)
    BY <2>4, ReceiveOrder
  <2>5. CASE \/ AppDisconnect \/ write \/ Resume \/ ServerChanges
             \/ \E b \in BOOLEAN : AppConnect(b) \/ setHostAddress(b)
             \/ \E k \in Socket :
                  \/ Accepted(k)
                  \/ \E again, more \in BOOLEAN :
                       LocalFails(k, again, more) \/ WebFails(k, again, more)
                  \/ \E again \in BOOLEAN : Refused(k, again) \/ WebCloses(k, again)
    BY <2>5, FallStep, FallOrder DEF OrderInv
  <2> QED BY <2>1, <2>2, <2>3, <2>4, <2>5 DEF Next
<1> QED BY <1>1, <1>2, SocketInvariant, PTL DEF Spec

(* The frames of all connections, the lost ones left out, are read in the  *)
(* order the network sent them.                                            *)
THEOREM FramesInOrder == ASSUME Discipline PROVE Spec => []ReadInOrder
<1>1. SocketInv /\ OrderInv => ReadInOrder
  BY FollowsPosition DEF SocketInv, OrderInv
<1> QED BY <1>1, OrderInvariant, PTL

------------------------------------------------------------------------------
(* A set of natural numbers has a least member.                            *)
LEMMA LeastMember ==
  ASSUME NEW A, A \subseteq Nat, A # {}
  PROVE  \E x \in A : \A y \in A : x <= y
<1> DEFINE R == {pair \in Nat \X Nat : pair[1] < pair[2]}
<1>1. IsWellFoundedOn(OpToRel(<, Nat), Nat)
  BY NatLessThanWellFounded
<1>2. IsWellFoundedOn(R, Nat)
  BY <1>1 DEF OpToRel
<1> HIDE DEF R
<1>3. PICK x \in A : \A y \in A : ~(<<y, x>> \in R)
  BY <1>2, WFMin
<1>4. \A y \in A : x <= y
  <2> SUFFICES ASSUME NEW y \in A PROVE x <= y
    OBVIOUS
  <2>1. ~(<<y, x>> \in R)
    BY <1>3
  <2>2. <<y, x>> \in Nat \X Nat
    OBVIOUS
  <2> QED
    BY <2>1, <2>2 DEF R
<1> QED
  BY <1>4

------------------------------------------------------------------------------
(* Sequences, and the part of them that lies in a set.                     *)
(* Induction over the natural numbers, from the fact that < is well        *)
(* founded, and over sequences: as sets that are closed.                   *)
LEMMA Induction ==
  ASSUME NEW S, S \subseteq Nat, 0 \in S, \A n \in S : n + 1 \in S
  PROVE  S = Nat
<1> SUFFICES ASSUME S # Nat PROVE FALSE
  OBVIOUS
<1>1. Nat \ S # {} /\ Nat \ S \subseteq Nat
  OBVIOUS
<1>2. PICK x \in Nat \ S : \A y \in Nat \ S : x <= y
  BY <1>1, LeastMember
<1>3. x # 0 /\ x - 1 \in Nat
  OBVIOUS
<1>4. x - 1 \in S
  BY <1>2, <1>3
<1> QED
  BY <1>4

(* Append under a name of its own: the provers take Append itself apart.   *)
Longer(s, e) == Append(s, e)
Joined(s, x) == s \o x

LEMMA SameSequence ==
  ASSUME NEW S, NEW s \in Seq(S), NEW y \in Seq(S), Len(s) = Len(y),
         \A k \in 1 .. Len(s) : s[k] = y[k]
  PROVE  s = y
OBVIOUS

LEMMA LongerType ==
  ASSUME NEW A, NEW s \in Seq(A), NEW e \in A
  PROVE  /\ Longer(s, e) \in Seq(A) /\ Len(Longer(s, e)) = Len(s) + 1
         /\ Longer(s, e)[Len(s) + 1] = e /\ \A k \in 1 .. Len(s) : Longer(s, e)[k] = s[k]
BY DEF Longer

LEMMA ShorterByOne ==
  ASSUME NEW A, NEW s \in Seq(A), NEW k \in Nat, Len(s) = k + 1
  PROVE  \E front \in Seq(A), e \in A : Len(front) = k /\ s = Longer(front, e)
<1> DEFINE front == [j \in 1 .. k |-> s[j]]
<1>1. \A j \in 1 .. k : s[j] \in A
  OBVIOUS
<1>2. front \in Seq(A) /\ Len(front) = k
  BY <1>1
<1>3. s[k + 1] \in A
  OBVIOUS
<1>4. Append(front, s[k + 1]) \in Seq(A) /\ Len(Append(front, s[k + 1])) = k + 1
  BY <1>2, <1>3
<1>5. \A j \in 1 .. k + 1 : Append(front, s[k + 1])[j] = s[j]
  BY <1>2, <1>3
<1>6. s = Append(front, s[k + 1])
  <2> HIDE DEF front
  <2> QED BY <1>4, <1>5
<1> QED
  BY <1>2, <1>3, <1>6 DEF Longer

LEMMA ListInduction ==
  ASSUME NEW A, NEW L, <<>> \in L,
         \A s \in Seq(A), e \in A : s \in L => Longer(s, e) \in L
  PROVE  \A s \in Seq(A) : s \in L
<1> DEFINE S == {k \in Nat : \A s \in Seq(A) : Len(s) = k => s \in L}
<1>1. 0 \in S
  <2>1. ASSUME NEW s \in Seq(A), Len(s) = 0 PROVE s \in L
    <3>1. s = <<>>
      BY <2>1
    <3> QED
      BY <3>1
  <2> QED
    BY <2>1
<1>2. ASSUME NEW k \in S PROVE k + 1 \in S
  <2>1. ASSUME NEW s \in Seq(A), Len(s) = k + 1 PROVE s \in L
    <3>1. PICK front \in Seq(A), e \in A : Len(front) = k /\ s = Longer(front, e)
      BY <2>1, ShorterByOne
    <3>2. front \in L
      BY <1>2, <3>1
    <3> QED
      BY <3>1, <3>2
  <2> QED
    BY <2>1
<1>3. S = Nat
  <2>1. S \subseteq Nat
    OBVIOUS
  <2> HIDE DEF S
  <2> QED BY <1>1, <1>2, <2>1, Induction
<1> QED
  BY <1>3

(* A recursive function exists for every length: a step, given as a        *)
(* function of position and last value, is repeated.                       *)
Repeats(f, n, D, base, step) ==
  /\ f \in [0 .. n -> D] /\ f[0] = base
  /\ \A k \in 1 .. n : f[k] = step[k][f[k - 1]]

LEMMA Repeated ==
  ASSUME NEW n \in Nat, NEW D, NEW base \in D, NEW step,
         \A k \in 1 .. n, d \in D : step[k][d] \in D
  PROVE  \E f : Repeats(f, n, D, base, step)
<1> DEFINE Goes(f, m) == f[0] = base /\ \A k \in 1 .. m : f[k] = step[k][f[k - 1]]
           S == {m \in Nat : m <= n => \E f \in [0 .. m -> D] : Goes(f, m)}
<1>1. 0 \in S
  <2>1. [k \in 0 .. 0 |-> base] \in [0 .. 0 -> D]
    OBVIOUS
  <2>2. Goes([k \in 0 .. 0 |-> base], 0)
    OBVIOUS
  <2> QED
    BY <2>1, <2>2
<1>2. ASSUME NEW m \in S PROVE m + 1 \in S
  <2> SUFFICES ASSUME m + 1 <= n PROVE \E g \in [0 .. m + 1 -> D] : Goes(g, m + 1)
    OBVIOUS
  <2>1. PICK f \in [0 .. m -> D] : Goes(f, m)
    OBVIOUS
  <2>2. f[m] \in D /\ step[m + 1][f[m]] \in D
    OBVIOUS
  <2> DEFINE g == [k \in 0 .. m + 1 |-> IF k <= m THEN f[k] ELSE step[m + 1][f[m]]]
  <2>3. g \in [0 .. m + 1 -> D]
    BY <2>2
  <2>4. ASSUME NEW k \in 1 .. m + 1 PROVE g[k] = step[k][g[k - 1]]
    <3>1. g[k - 1] = f[k - 1]
      OBVIOUS
    <3>2. CASE k <= m
      BY <2>1, <3>1, <3>2
    <3>3. CASE k = m + 1
      <4>1. k - 1 = m /\ ~(k <= m)
        BY <3>3
      <4>2. g[k] = step[m + 1][f[m]] /\ g[k - 1] = f[m]
        BY <3>1, <4>1
      <4> HIDE DEF g
      <4> QED
        BY <3>3, <4>2
    <3> QED
      BY <3>2, <3>3
  <2>5. g[0] = base
    BY <2>1
  <2> HIDE DEF g
  <2> QED
    BY <2>3, <2>4, <2>5
<1>3. S = Nat
  <2>1. S \subseteq Nat
    OBVIOUS
  <2> HIDE DEF S
  <2> QED BY <1>1, <1>2, <2>1, Induction
<1>4. n \in S
  BY <1>3
<1>5. PICK f \in [0 .. n -> D] : Goes(f, n)
  BY <1>4
<1> QED
  BY <1>5 DEF Repeats

(* What Only computes, position after position.                            *)
Selects(f, s, S) ==
  f[0] = <<>> /\ \A k \in 1 .. Len(s) :
    f[k] = IF s[k] \in S THEN Append(f[k - 1], s[k]) ELSE f[k - 1]

LEMMA OnlySelects ==
  ASSUME NEW A, NEW s \in Seq(A), NEW S
  PROVE  \E f : Selects(f, s, S) /\ Only(s, S) = f[Len(s)]
<1> DEFINE n == Len(s)
           step == [k \in 1 .. n |-> [d \in Seq(A) |->
                      IF s[k] \in S THEN Append(d, s[k]) ELSE d]]
           H(g, k) == IF k = 0 THEN <<>>
                      ELSE IF s[k] \in S THEN Append(g[k - 1], s[k]) ELSE g[k - 1]
           only == CHOOSE g : g = [k \in 0 .. n |-> H(g, k)]
<1>1. ASSUME NEW k \in 1 .. n, NEW d \in Seq(A)
      PROVE  /\ step[k][d] = IF s[k] \in S THEN Append(d, s[k]) ELSE d
             /\ step[k][d] \in Seq(A)
  <2>1. s[k] \in A
    OBVIOUS
  <2>2. Append(d, s[k]) \in Seq(A)
    BY <2>1
  <2>3. step[k][d] = IF s[k] \in S THEN Append(d, s[k]) ELSE d
    OBVIOUS
  <2> QED
    BY <2>2, <2>3
<1>2. n \in Nat /\ <<>> \in Seq(A)
  OBVIOUS
<1> HIDE DEF n, step
<1>3. PICK f \in [0 .. n -> Seq(A)] :
        f[0] = <<>> /\ \A k \in 1 .. n : f[k] = step[k][f[k - 1]]
  <2>1. \A k \in 1 .. n, d \in Seq(A) : step[k][d] \in Seq(A)
    BY <1>1
  <2>2. PICK D, base : D = Seq(A) /\ base = <<>>
    OBVIOUS
  <2>3. base \in D /\ \A k \in 1 .. n, d \in D : step[k][d] \in D
    BY <1>2, <2>1, <2>2
  <2>4. PICK f : Repeats(f, n, D, base, step)
    BY <1>2, <2>3, Repeated
  <2> QED
    BY <2>2, <2>4 DEF Repeats
<1>4. ASSUME NEW k \in 1 .. n
      PROVE  f[k] = IF s[k] \in S THEN Append(f[k - 1], s[k]) ELSE f[k - 1]
  <2>1. f[k - 1] \in Seq(A)
    BY <1>2
  <2> QED
    BY <1>1, <1>3, <2>1
<1>5. f = [k \in 0 .. n |-> H(f, k)]
  <2>1. ASSUME NEW k \in 0 .. n PROVE f[k] = H(f, k)
    <3>1. k # 0 => k \in 1 .. n
      BY <1>2
    <3> QED
      BY <1>3, <1>4, <3>1
  <2> HIDE DEF H
  <2> QED BY <1>3, <2>1
<1>6. only = [k \in 0 .. n |-> H(only, k)]
  <2> HIDE DEF H
  <2> QED BY <1>5
<1>7. Only(s, S) = only[n]
  BY DEF Only, n
<1>8. \A k \in 0 .. n : only[k] = H(only, k)
  <2> HIDE DEF only
  <2> QED BY <1>6
<1> HIDE DEF only
<1> DEFINE E == {k \in Nat : k <= n => only[k] = f[k]}
<1>9. 0 \in E
  BY <1>2, <1>3, <1>8
<1>10. ASSUME NEW k \in E PROVE k + 1 \in E
  <2> SUFFICES ASSUME k + 1 <= n PROVE only[k + 1] = f[k + 1]
    OBVIOUS
  <2>1. only[k] = f[k] /\ (k + 1) - 1 = k
    BY <1>2
  <2>2. only[k + 1] = IF s[k + 1] \in S THEN Append(only[k], s[k + 1]) ELSE only[k]
    BY <1>2, <1>8, <2>1
  <2>3. f[k + 1] = IF s[k + 1] \in S THEN Append(f[k], s[k + 1]) ELSE f[k]
    BY <1>2, <1>4, <2>1
  <2> QED
    BY <2>1, <2>2, <2>3
<1>11. E = Nat
  <2>1. E \subseteq Nat
    OBVIOUS
  <2> HIDE DEF E
  <2> QED BY <1>9, <1>10, <2>1, Induction
<1>12. Only(s, S) = f[n]
  <2>1. n \in E
    BY <1>2, <1>11
  <2> QED
    BY <1>2, <1>7, <2>1
<1>13. Selects(f, s, S)
  BY <1>3, <1>4 DEF Selects, n
<1> QED
  BY <1>3, <1>12, <1>13 DEF n

(* The result depends on the positions up to the length only.              *)
LEMMA OnlySame ==
  ASSUME NEW A, NEW s \in Seq(A), NEW x \in Seq(A), NEW S, NEW f, NEW g,
         Selects(f, s, S), Selects(g, x, S),
         NEW n \in Nat, n <= Len(s), n <= Len(x), \A k \in 1 .. n : s[k] = x[k]
  PROVE  f[n] = g[n]
<1> DEFINE E == {k \in Nat : k <= n => f[k] = g[k]}
<1>1. 0 \in E
  BY DEF Selects
<1>2. ASSUME NEW k \in E PROVE k + 1 \in E
  <2> SUFFICES ASSUME k + 1 <= n PROVE f[k + 1] = g[k + 1]
    OBVIOUS
  <2>1. f[k] = g[k] /\ (k + 1) - 1 = k /\ k + 1 \in 1 .. n /\ s[k + 1] = x[k + 1]
    OBVIOUS
  <2>2. k + 1 \in 1 .. Len(s) /\ k + 1 \in 1 .. Len(x)
    OBVIOUS
  <2>3. f[k + 1] = IF s[k + 1] \in S THEN Append(f[k], s[k + 1]) ELSE f[k]
    BY <2>1, <2>2 DEF Selects
  <2>4. g[k + 1] = IF x[k + 1] \in S THEN Append(g[k], x[k + 1]) ELSE g[k]
    BY <2>1, <2>2 DEF Selects
  <2> QED
    BY <2>1, <2>3, <2>4
<1>3. E = Nat
  <2>1. E \subseteq Nat
    OBVIOUS
  <2> HIDE DEF E
  <2> QED BY <1>1, <1>2, <2>1, Induction
<1> QED
  BY <1>3

LEMMA OnlyNone ==
  ASSUME NEW S
  PROVE  Only(<<>>, S) = <<>>
<1>1. <<>> \in Seq({}) /\ Len(<<>>) = 0
  OBVIOUS
<1>2. PICK s \in Seq({}) : s = <<>>
  BY <1>1
<1>3. PICK f : Selects(f, s, S) /\ Only(s, S) = f[Len(s)]
  BY OnlySelects
<1> QED
  BY <1>2, <1>3 DEF Selects

LEMMA OnlyOneMore ==
  ASSUME NEW A, NEW s \in Seq(A), NEW e \in A, NEW S
  PROVE  Only(Longer(s, e), S) = IF e \in S THEN Longer(Only(s, S), e) ELSE Only(s, S)
<1>0. Longer(s, e) \in Seq(A)
  BY LongerType
<1>1. PICK x \in Seq(A) : x = Longer(s, e)
  BY <1>0
<1>2. Len(x) = Len(s) + 1 /\ x[Len(x)] = e /\ \A k \in 1 .. Len(s) : x[k] = s[k]
  <2>1. /\ Len(Longer(s, e)) = Len(s) + 1 /\ Longer(s, e)[Len(s) + 1] = e
        /\ \A k \in 1 .. Len(s) : Longer(s, e)[k] = s[k]
    BY DEF Longer
  <2>2. Len(x) = Len(s) + 1
    BY <1>1, <2>1
  <2>3. x[Len(s) + 1] = e /\ \A k \in 1 .. Len(s) : x[k] = s[k]
    BY <1>1, <2>1
  <2> QED
    BY <2>2, <2>3
<1>3. PICK f : Selects(f, s, S) /\ Only(s, S) = f[Len(s)]
  BY OnlySelects
<1>4. PICK g : Selects(g, x, S) /\ Only(x, S) = g[Len(x)]
  BY OnlySelects
<1>5. f[Len(s)] = g[Len(s)]
  <2>1. Len(s) \in Nat /\ Len(s) <= Len(x)
    BY <1>2
  <2>2. \A k \in 1 .. Len(s) : s[k] = x[k]
    BY <1>2
  <2> QED
    BY <1>1, <1>3, <1>4, <2>1, <2>2, OnlySame
<1>6. Len(x) \in 1 .. Len(x) /\ Len(x) - 1 = Len(s)
  BY <1>2
<1>7. g[Len(x)] = IF e \in S THEN Longer(g[Len(s)], e) ELSE g[Len(s)]
  <2>1. g[Len(x)] = IF x[Len(x)] \in S THEN Append(g[Len(x) - 1], x[Len(x)]) ELSE g[Len(x) - 1]
    BY <1>4, <1>6 DEF Selects
  <2> QED
    BY <1>2, <1>6, <2>1 DEF Longer
<1> QED
  BY <1>1, <1>3, <1>4, <1>5, <1>7

LEMMA OnlyType ==
  ASSUME NEW A, NEW s \in Seq(A), NEW S
  PROVE  Only(s, S) \in Seq(A) /\ Only(s, S) \in Seq(S)
<1> DEFINE L == {x \in Seq(A) : Only(x, S) \in Seq(A) /\ Only(x, S) \in Seq(S)}
<1>1. <<>> \in L
  <2>1. <<>> \in Seq(A) /\ <<>> \in Seq(S)
    OBVIOUS
  <2> QED
    BY <2>1, OnlyNone
<1>2. ASSUME NEW x \in Seq(A), NEW e \in A, x \in L PROVE Longer(x, e) \in L
  <2>1. Only(Longer(x, e), S) = IF e \in S THEN Longer(Only(x, S), e) ELSE Only(x, S)
    BY OnlyOneMore
  <2>2. Only(x, S) \in Seq(A) /\ Only(x, S) \in Seq(S)
    BY <1>2
  <2>3. Longer(x, e) \in Seq(A)
    BY LongerType
  <2>4. PICK o : o = Only(x, S)
    OBVIOUS
  <2>5. Longer(o, e) \in Seq(A)
    BY <2>2, <2>4, LongerType
  <2>6. e \in S => Longer(o, e) \in Seq(S)
    BY <2>2, <2>4, LongerType
  <2> QED
    BY <2>1, <2>2, <2>3, <2>4, <2>5, <2>6
<1>3. \A x \in Seq(A) : x \in L
  <2> HIDE DEF L
  <2> QED BY <1>1, <1>2, ListInduction
<1> QED
  BY <1>3

LEMMA AppendBoth ==
  ASSUME NEW A, NEW s \in Seq(A), NEW x \in Seq(A), NEW e \in A
  PROVE  Longer(Joined(s, x), e) = Joined(s, Longer(x, e))
<1>1. /\ s \o x \in Seq(A) /\ Len(s \o x) = Len(s) + Len(x)
      /\ Append(x, e) \in Seq(A) /\ Len(Append(x, e)) = Len(x) + 1
  OBVIOUS
<1>2. Append(s \o x, e) \in Seq(A) /\ s \o Append(x, e) \in Seq(A)
  BY <1>1
<1>3. PICK l \in Seq(A) : l = Append(s \o x, e)
  BY <1>2
<1>4. PICK r \in Seq(A) : r = s \o Append(x, e)
  BY <1>2
<1>5. Len(l) = Len(r)
  BY <1>1, <1>3, <1>4
<1>6. \A k \in 1 .. Len(l) : l[k] = r[k]
  BY <1>1, <1>3, <1>4
<1>7. l = r
  BY <1>5, <1>6, SameSequence
<1> QED
  BY <1>3, <1>4, <1>7 DEF Longer, Joined

LEMMA OnlyBoth ==
  ASSUME NEW A, NEW s \in Seq(A), NEW x \in Seq(A), NEW S
  PROVE  Only(Joined(s, x), S) = Joined(Only(s, S), Only(x, S))
<1> DEFINE L == {y \in Seq(A) : Only(s \o y, S) = Only(s, S) \o Only(y, S)}
<1>0. Only(s, S) \in Seq(A)
  BY OnlyType
<1>1. <<>> \in L
  <2>1. s \o <<>> = s /\ Only(s, S) \o <<>> = Only(s, S) /\ <<>> \in Seq(A)
    BY <1>0
  <2> QED
    BY <2>1, OnlyNone
<1>2. ASSUME NEW y \in Seq(A), NEW e \in A, y \in L PROVE Longer(y, e) \in L
  <2>1. s \o y \in Seq(A) /\ Longer(y, e) \in Seq(A)
    BY LongerType
  <2>2. s \o Longer(y, e) = Longer(s \o y, e)
    BY AppendBoth DEF Joined
  <2>4. Only(s, S) \in Seq(A) /\ Only(y, S) \in Seq(A)
    BY OnlyType
  <2>3. PICK a, b : a = Only(s, S) /\ b = Only(y, S)
    OBVIOUS
  <2>5. Only(Longer(s \o y, e), S) = IF e \in S THEN Longer(Only(s \o y, S), e) ELSE Only(s \o y, S)
    BY <2>1, OnlyOneMore
  <2>6. Only(Longer(y, e), S) = IF e \in S THEN Longer(b, e) ELSE b
    BY <2>3, OnlyOneMore
  <2>7. Only(s \o y, S) = a \o b
    BY <1>2, <2>3
  <2>8. Longer(a \o b, e) = a \o Longer(b, e)
    <3>1. a \in Seq(A) /\ b \in Seq(A)
      BY <2>3, <2>4
    <3>2. Longer(Joined(a, b), e) = Joined(a, Longer(b, e))
      BY <3>1, AppendBoth
    <3> QED
      BY <3>2 DEF Joined
  <2> QED
    BY <2>1, <2>2, <2>3, <2>5, <2>6, <2>7, <2>8
<1>3. \A y \in Seq(A) : y \in L
  <2> HIDE DEF L
  <2> QED BY <1>1, <1>2, ListInduction
<1> QED
  BY <1>3 DEF Joined

(* No more than all of them; and one after the other.                      *)
LEMMA OnlyLength ==
  ASSUME NEW A, NEW s \in Seq(A), NEW S
  PROVE  Len(Only(s, S)) \in Nat /\ Len(Only(s, S)) <= Len(s)
<1> DEFINE L == {x \in Seq(A) : Len(Only(x, S)) <= Len(x)}
<1>1. <<>> \in L
  <2>1. <<>> \in Seq(A) /\ Len(<<>>) = 0
    OBVIOUS
  <2> QED
    BY <2>1, OnlyNone
<1>2. ASSUME NEW x \in Seq(A), NEW e \in A, x \in L PROVE Longer(x, e) \in L
  <2>1. Only(Longer(x, e), S) = IF e \in S THEN Longer(Only(x, S), e) ELSE Only(x, S)
    BY OnlyOneMore
  <2>2. PICK o \in Seq(A) : o = Only(x, S)
    BY OnlyType
  <2>3. /\ Longer(x, e) \in Seq(A) /\ Len(Longer(x, e)) = Len(x) + 1 /\ Len(Longer(o, e)) = Len(o) + 1
    BY LongerType
  <2>4. Len(x) \in Nat /\ Len(o) \in Nat /\ Len(o) <= Len(x)
    BY <1>2, <2>2
  <2>5. Len(Only(Longer(x, e), S)) <= Len(x) + 1
    BY <2>1, <2>2, <2>3, <2>4
  <2> QED
    BY <2>3, <2>5
<1>3. \A x \in Seq(A) : x \in L
  <2> HIDE DEF L
  <2> QED BY <1>1, <1>2, ListInduction
<1>4. Only(s, S) \in Seq(A)
  BY OnlyType
<1> QED
  BY <1>3, <1>4

LEMMA OnlyIs ==
  ASSUME NEW s
  PROVE  T!Passed(s) = Only(s, T!Passing)
BY DEF T!Passed, T!Only, Only

------------------------------------------------------------------------------
(* The members of a tool.                                                  *)
Frames == [number : Nat, passes : BOOLEAN]
ToolMembers ==
  [call : MCCalls, running : BOOLEAN, loop : BOOLEAN,
   timers : SUBSET {"parse", "send", "activity", "quit"},
   settings : {"none", "opening", "open", "broken"}, object : BOOLEAN,
   net : {"none", "opening", "open", "broken", "down"}, objects : Nat, listens : BOOLEAN,
   channel : Nat \ {0}, sock : {"none", "pending", "up", "broken", "down"}, reached : Nat,
   in : Seq(Frames), count : Nat, id : Nat, dlc : Nat]

CallType ==
  [tool : {"send", "dump", "config", "error"}, local : BOOLEAN, channel : Nat \ {0},
   count : 0 .. CountWidth - 1, inc : SUBSET {"I", "D"}, id : 0 .. IdLimit - 1,
   dlc : 0 .. DlcLimit - 1, all : BOOLEAN, command : BOOLEAN, time : BOOLEAN]

LEMMA CallIs ==
  ASSUME NEW call \in MCCalls
  PROVE  /\ call \in CallType
         /\ call.all => call.tool = "config"
         /\ call.time => call.tool = "dump"
         /\ call.tool = "config" => call.count = 0
         /\ call.tool # "send" => call.inc = {} /\ call.id = 0 /\ call.dlc = 0
<1>1. 0 \in 0 .. CountWidth - 1 /\ 0 \in 0 .. IdLimit - 1 /\ IdLimit - 1 \in 0 .. IdLimit - 1
      /\ 0 \in 0 .. DlcLimit - 1 /\ DlcLimit - 1 \in 0 .. DlcLimit - 1
  BY ToolsAssumption
<1>2. Channels \subseteq Nat \ {0} /\ Counts \subseteq 0 .. CountWidth - 1
  BY ToolsAssumption
<1> QED
  BY <1>1, <1>2 DEF MCCalls, CallsOf, CallType

ToolTypes ==
  /\ t \in ToolMembers /\ there \in BOOLEAN /\ enabled \in BOOLEAN /\ trouble \in BOOLEAN
  /\ due \in Seq(Frames) /\ Len(due) <= MaxFrames

LEMMA Quits ==
  ASSUME NEW d \in ToolMembers
  PROVE  T!quit(d) \in ToolMembers
BY DEF T!quit, ToolMembers

LEMMA RouteType ==
  ASSUME NEW number \in Nat \ {0}
  PROVE  /\ T!Route(number) \in Nat
         /\ T!Route(number) \in {0, ((number - 1) % NumberWidth) + 1}
         /\ T!Route(number) = 0 => ((number - 1) % NumberWidth) + 1 > NetworkCount
         /\ number \in 1 .. NumberWidth => ((number - 1) % NumberWidth) + 1 = number
<1>1. NumberWidth \in Nat \ {0} /\ NetworkCount \in 1 .. NumberWidth /\ number - 1 \in Nat
  BY ToolsAssumption
<1>2. PICK index : index = (number - 1) % NumberWidth
  OBVIOUS
<1>3. index \in Nat
  BY <1>1, <1>2
<1>4. number \in 1 .. NumberWidth => index = number - 1
  <2>1. ASSUME NEW a \in Nat, a < NumberWidth PROVE a % NumberWidth = a
    BY <1>1, <2>1
  <2> QED
    BY <1>1, <1>2, <2>1
<1>5. T!Route(number) = IF number > 0 /\ index < NetworkCount THEN index + 1 ELSE 0
  BY <1>2 DEF T!Route
<1> QED
  BY <1>1, <1>2, <1>3, <1>4, <1>5

LEMMA NamedType ==
  ASSUME NEW call \in CallType
  PROVE  T!Named(call) \in Nat \ {0}
<1>1. call.channel \in Nat \ {0} /\ NumberWidth \in Nat \ {0} /\ call.channel - 1 \in Nat
  BY ToolsAssumption DEF CallType
<1>2. (call.channel - 1) % NumberWidth \in Nat
  BY <1>1
<1> QED
  BY <1>1, <1>2 DEF T!Named

LEMMA TypesStart ==
  ASSUME T!Init
  PROVE  ToolTypes
<1>1. PICK call \in MCCalls : t = T!New(call)
  BY DEF T!Init
<1>2. call \in CallType
  BY CallIs
<1>3. call.channel \in Nat \ {0} /\ call.count \in Nat /\ call.id \in Nat /\ call.dlc \in Nat
      /\ call.all \in BOOLEAN
  BY <1>2, ToolsAssumption DEF CallType
<1>4. <<>> \in Seq(Frames) /\ Len(<<>>) = 0
  OBVIOUS
<1>5. t \in ToolMembers
  BY <1>1, <1>3, <1>4 DEF T!New, ToolMembers
<1>6. there \in BOOLEAN /\ enabled \in BOOLEAN /\ trouble \in BOOLEAN
  <2>1. (~(there /\ enabled)) \in BOOLEAN
    OBVIOUS
  <2> QED
    BY <2>1, Zenon DEF T!Init
<1> QED
  BY <1>4, <1>5, <1>6, ToolsAssumption DEF T!Init, ToolTypes

(* What can-dump takes of the frames that have arrived, and what is left.  *)
Taken == IF t.call.local THEN Len(t.in) ELSE 1
LEMMA TakenIs ==
  ASSUME ToolTypes, t.in # <<>>
  PROVE  Taken \in 1 .. Len(t.in)
<1>1. t.in \in Seq(Frames)
  BY DEF ToolTypes, ToolMembers
<1>2. Len(t.in) \in Nat \ {0}
  BY <1>1
<1> QED
  BY <1>2 DEF Taken

LEMMA TypesStep ==
  ASSUME ToolTypes, T!Next
  PROVE  ToolTypes'
<1>1. /\ t \in ToolMembers /\ there \in BOOLEAN /\ enabled \in BOOLEAN /\ trouble \in BOOLEAN
      /\ due \in Seq(Frames) /\ Len(due) <= MaxFrames
  BY DEF ToolTypes
<1>2. T!quit(t) \in ToolMembers
  BY <1>1, Quits
<1>3. ASSUME UNCHANGED <<there, enabled, trouble, due>>, t' \in ToolMembers
      PROVE  ToolTypes'
  BY <1>1, <1>3 DEF ToolTypes
<1>4. CASE T!runCmdParser
  <2>1. t' \in ToolMembers
    BY <1>1, <1>4 DEF T!runCmdParser, T!connectNetwork, T!Fired, ToolMembers
  <2> QED
    BY <1>3, <1>4, <2>1 DEF T!runCmdParser, T!outside, T!history
<1>5. CASE T!ServerChanges \/ T!NetworkChanges \/ T!ConnectionFails
  <2>1. t' \in ToolMembers
    <3>1. CASE T!ServerChanges
      BY <1>1, <3>1, ZenonT(60) DEF T!ServerChanges, T!Broken, ToolMembers
    <3>2. CASE T!NetworkChanges
      BY <1>1, <3>2 DEF T!NetworkChanges
    <3>3. CASE T!ConnectionFails
      BY <1>1, <3>3 DEF T!ConnectionFails, ToolMembers
    <3> QED
      BY <1>5, <3>1, <3>2, <3>3
  <2>2. there' \in BOOLEAN /\ enabled' \in BOOLEAN
    <3>1. (~there) \in BOOLEAN /\ (~enabled) \in BOOLEAN
      OBVIOUS
    <3>2. (there' = there \/ there' = ~there) /\ (enabled' = enabled \/ enabled' = ~enabled)
      BY <1>5 DEF T!ServerChanges, T!NetworkChanges, T!ConnectionFails
    <3> QED
      BY <1>1, <3>1, <3>2, Zenon
  <2>3. due' = due /\ trouble' = TRUE
    BY <1>5 DEF T!ServerChanges, T!NetworkChanges, T!ConnectionFails, T!history
  <2> QED
    BY <1>1, <2>1, <2>2, <2>3 DEF ToolTypes
<1>6. ASSUME NEW passes \in BOOLEAN, T!NetworkSends(passes)
      PROVE  ToolTypes'
  <2>1. PICK f : f = [number |-> Len(due) + 1, passes |-> passes]
    OBVIOUS
  <2>2. f \in Frames
    BY <1>1, <2>1 DEF Frames
  <2>3. due' = Append(due, f) /\ t' = [t EXCEPT !.in = Append(@, f)] /\ Len(due) < MaxFrames
    BY <1>6, <2>1 DEF T!NetworkSends
  <2>4. due' \in Seq(Frames) /\ Len(due') = Len(due) + 1 /\ Len(due) \in Nat
    BY <1>1, <2>2, <2>3
  <2>5. t.in \in Seq(Frames)
    BY <1>1 DEF ToolMembers
  <2>6. Append(t.in, f) \in Seq(Frames)
    BY <2>2, <2>5
  <2>7. t' \in ToolMembers
    BY <1>1, <2>3, <2>6 DEF ToolMembers
  <2>8. UNCHANGED <<there, enabled, trouble>>
    BY <1>6 DEF T!NetworkSends, T!outside
  <2>9. MaxFrames \in Nat
    BY ToolsAssumption
  <2>10. Len(due') <= MaxFrames
    BY <2>3, <2>4, <2>9
  <2> QED
    BY <1>1, <2>4, <2>7, <2>8, <2>10 DEF ToolTypes
<1>7. CASE T!OtherAttaches
  <2>1. t' \in ToolMembers
    <3>1. PICK n : n = t.objects + 1
      OBVIOUS
    <3>2. n \in Nat
      BY <1>1, <3>1 DEF ToolMembers
    <3>3. t' = [t EXCEPT !.objects = n]
      BY <1>7, <3>1 DEF T!OtherAttaches
    <3> QED
      BY <1>1, <3>2, <3>3 DEF ToolMembers
  <2> QED
    BY <1>3, <1>7, <2>1 DEF T!OtherAttaches, T!outside, T!history
<1>8. CASE T!ServerConnected \/ T!SettingsConnected \/ T!SettingsGone
  <2>1. t' \in ToolMembers
    <3>1. CASE T!ServerConnected
      BY <1>1, <3>1 DEF T!ServerConnected, ToolMembers
    <3>2. CASE T!SettingsConnected
      BY <1>1, <3>2 DEF T!SettingsConnected, ToolMembers
    <3>3. CASE T!SettingsGone
      BY <1>1, <3>3 DEF T!SettingsGone, ToolMembers
    <3> QED
      BY <1>8, <3>1, <3>2, <3>3
  <2> QED
    BY <1>3, <1>8, <2>1 DEF T!ServerConnected, T!SettingsConnected, T!SettingsGone, T!outside, T!history
<1>9. CASE T!onServerStateChanged
  BY <1>2, <1>3, <1>9 DEF T!onServerStateChanged, T!outside, T!history
<1>10. CASE T!onServerObjectReceived
  <2>1. t' \in ToolMembers
    BY <1>1, <1>10 DEF T!onServerObjectReceived, T!quit, ToolMembers
  <2> QED
    BY <1>3, <1>10, <2>1 DEF T!onServerObjectReceived, T!outside, T!history
<1>11. t.objects > 0 => T!Object \in ToolMembers
  <2>1. t.objects > 0 => t.objects - 1 \in Nat
    BY <1>1 DEF ToolMembers
  <2> QED
    BY <1>1, <2>1 DEF T!Object, ToolMembers
<1>12. CASE T!AttachSocket
  <2>1. t' \in ToolMembers
    <3>1. PICK d : d = T!Object
      OBVIOUS
    <3>2. d \in ToolMembers
      BY <1>11, <1>12, <3>1 DEF T!AttachSocket
    <3>3. T!connectNetwork([d EXCEPT !.listens = FALSE]) \in ToolMembers
      BY <3>2 DEF T!connectNetwork, ToolMembers
    <3> QED
      BY <1>12, <3>1, <3>2, <3>3 DEF T!AttachSocket
  <2> QED
    BY <1>3, <1>12, <2>1 DEF T!AttachSocket, T!outside, T!history
<1>13. CASE T!ExecCommand
  <2>1. t' \in ToolMembers
    <3>1. PICK d : d = T!Object
      OBVIOUS
    <3>2. d \in ToolMembers /\ t' = [d EXCEPT !.timers = @ \cup {"quit"}]
      BY <1>11, <1>13, <3>1 DEF T!ExecCommand
    <3> QED
      BY <3>2 DEF ToolMembers
  <2> QED
    BY <1>3, <1>13, <2>1 DEF T!ExecCommand, T!outside
<1>14. CASE T!ShowSettings
  <2>1. t' \in ToolMembers
    <3>1. t.channel + 1 \in Nat \ {0}
      BY <1>1 DEF ToolMembers
    <3>2. [t EXCEPT !.channel = @ + 1, !.net = "opening", !.objects = 0] \in ToolMembers
      BY <1>1, <3>1 DEF ToolMembers
    <3> QED
      BY <1>2, <1>14, <3>2 DEF T!ShowSettings
  <2> QED
    BY <1>3, <1>14, <2>1 DEF T!ShowSettings, T!outside
<1>15. CASE T!onSocketConnected
  <2>1. PICK n : n = IF t.call.local THEN t.channel ELSE T!Route(t.channel)
    OBVIOUS
  <2>2. n \in Nat
    BY <1>1, <2>1, RouteType DEF ToolMembers
  <2>3. PICK more \in SUBSET {"send", "activity"} :
          t' = [t EXCEPT !.sock = IF n = 0 THEN "broken" ELSE "up", !.reached = n, !.timers = @ \cup more]
    BY <1>15, <2>1 DEF T!onSocketConnected
  <2>4. t' \in ToolMembers
    BY <1>1, <2>2, <2>3 DEF ToolMembers
  <2> QED
    BY <1>3, <1>15, <2>4 DEF T!onSocketConnected, T!outside, T!history
<1>16. CASE T!onSocketError
  <2>1. t' \in ToolMembers
    BY <1>1, <1>16 DEF T!onSocketError, T!quit, ToolMembers
  <2> QED
    BY <1>3, <1>16, <2>1 DEF T!onSocketError, T!outside, T!history
<1>17. ASSUME NEW orderly \in BOOLEAN, T!SocketLost(orderly)
       PROVE  ToolTypes'
  <2>1. t' \in ToolMembers
    BY <1>1, <1>17 DEF T!SocketLost, T!quit, ToolMembers
  <2> QED
    BY <1>3, <1>17, <2>1 DEF T!SocketLost, T!outside, T!history
<1>18. CASE T!StartSending
  <2>1. t' \in ToolMembers
    BY <1>1, <1>18 DEF T!StartSending, T!Fired, ToolMembers
  <2> QED
    BY <1>3, <1>18, <2>1 DEF T!StartSending, T!outside
<1>19. CASE T!SendNext
  <2>1. ASSUME NEW value \in Nat, NEW limit PROVE T!Incremented(value, limit) \in Nat
    BY DEF T!Incremented
  <2>2. PICK id \in Nat, dlc \in Nat : t' = [t EXCEPT !.count = @ - 1, !.id = id, !.dlc = dlc]
    BY <1>1, <1>19, <2>1 DEF T!SendNext, ToolMembers
  <2>3. t' \in ToolMembers
    <3>1. t.count - 1 \in Nat
      BY <1>1, <1>19 DEF T!SendNext, ToolMembers
    <3> QED
      BY <1>1, <2>2, <3>1 DEF ToolMembers
  <2> QED
    BY <1>3, <1>19, <2>3 DEF T!SendNext, T!outside
<1>20. CASE T!SendingDone \/ T!WriteFails
  <2>1. t' \in ToolMembers
    <3>1. [t EXCEPT !.loop = FALSE, !.timers = @ \cup {"quit"}] \in ToolMembers
      BY <1>1 DEF ToolMembers
    <3> QED
      BY <1>2, <1>20, <3>1 DEF T!SendingDone, T!WriteFails
  <2> QED
    BY <1>3, <1>20, <2>1 DEF T!SendingDone, T!WriteFails, T!outside, T!history
<1>21. CASE T!sendErrorFrame
  <2>1. t' \in ToolMembers
    <3>1. CASE t.count > 1
      <4>1. t.count - 1 \in Nat
        BY <1>1, <3>1 DEF ToolMembers
      <4> QED
        BY <1>1, <1>21, <3>1, <4>1 DEF T!sendErrorFrame, ToolMembers
    <3>2. CASE ~(t.count > 1)
      BY <1>1, <1>21, <3>2 DEF T!sendErrorFrame, T!Fired, ToolMembers
    <3> QED
      BY <3>1, <3>2
  <2> QED
    BY <1>3, <1>21, <2>1 DEF T!sendErrorFrame, T!outside
<1>22. CASE T!onSocketReceive
  <2>1. PICK printed, left, count :
          /\ left = SubSeq(t.in, Taken + 1, Len(t.in))
          /\ printed = T!Passed(SubSeq(t.in, 1, Taken))
          /\ count = (t.count - Len(printed)) % CountWidth
    OBVIOUS
  <2>2. PICK d : /\ d = [t EXCEPT !.in = left, !.count = count]
                 /\ t' = T!quit(d) \/ t' = d
    BY <1>22, <2>1 DEF T!onSocketReceive, Taken
  <2>3. t.in \in Seq(Frames) /\ Taken \in 1 .. Len(t.in)
    BY <1>1, <1>22, TakenIs DEF T!onSocketReceive, ToolMembers
  <2>4. left \in Seq(Frames)
    BY <2>1, <2>3
  <2>5. t.count \in Nat /\ Len(printed) \in Nat /\ CountWidth \in Nat \ {0}
    BY <1>1, ToolsAssumption DEF ToolMembers
  <2>6. count \in Nat
    BY <2>1, <2>5
  <2>7. d \in ToolMembers
    BY <1>1, <2>2, <2>4, <2>6 DEF ToolMembers
  <2>8. t' \in ToolMembers
    BY <2>2, <2>7, Quits
  <2> QED
    BY <1>3, <1>22, <2>8 DEF T!onSocketReceive, T!outside
<1>23. CASE T!TimeToQuit
  BY <1>2, <1>3, <1>23 DEF T!TimeToQuit, T!outside, T!history
<1> QED
  BY <1>4, <1>5, <1>6, <1>7, <1>8, <1>9, <1>10, <1>12, <1>13, <1>14, <1>15, <1>16, <1>17, <1>18,
     <1>19, <1>20, <1>21, <1>22, <1>23 DEF T!Next, T!ToolStep

(* Nothing is missing that the tool needs.                                 *)
Healthy == ~trouble /\ T!Named(t.call) <= NetworkCount
Unconnected == {"none", "pending"}

(* The course of a tool: settings of the server, settings of the network,  *)
(* socket.  A connection that was lost does not come back.                 *)
Course ==
  /\ ~trouble => there /\ enabled /\ t.settings # "broken" /\ t.net # "broken"
  /\ "parse" \in t.timers =>
       /\ t.running /\ ~t.loop /\ t.timers = {"parse"} /\ t.settings = "none" /\ t.sock = "none"
       /\ ~t.object /\ t.in = <<>>
  /\ t.settings \in {"none", "opening"} \/ t.object => t.net = "none"
  /\ t.object => t.settings \notin {"none", "opening"}
  /\ t.objects > 0 => t.net \in {"open", "broken"}
  /\ ~t.call.all => t.channel = t.call.channel
  /\ t.net # "none" => t.channel <= NetworkCount
  /\ t.call.tool \in {"send", "dump"} /\ t.running /\ t.sock # "none" => t.net # "none" /\ ~t.listens
  /\ t.call.tool = "config" /\ t.running => t.sock = "none"
  /\ t.call.tool = "error" => t.settings = "none"
  /\ t.sock = "up" => t.reached = T!Named(t.call)
  /\ Healthy => t.sock # "broken" /\ (t.running => t.sock # "down")
  /\ t.timers \cap {"send", "activity", "quit"} # {} /\ t.call.tool # "config" => t.sock \notin Unconnected
  /\ ~t.running => t.sock = "down"
  /\ t.loop => t.running /\ t.call.tool = "send" /\ t.sock \notin Unconnected

LEMMA CourseStart ==
  ASSUME T!Init
  PROVE  Course
<1>1. PICK call \in MCCalls : t = T!New(call)
  BY DEF T!Init
<1>2. call \in CallType /\ (call.all => call.tool = "config")
  BY CallIs
<1>3. /\ t.object = FALSE /\ t.in = <<>>
      /\ t.call = call /\ t.running = TRUE /\ t.loop = FALSE /\ t.timers = {"parse"}
      /\ t.settings = "none" /\ t.net = "none" /\ t.objects = 0 /\ t.sock = "none"
      /\ t.channel = IF call.all THEN 1 ELSE call.channel
  BY <1>1 DEF T!New
<1>4. ~trouble => there /\ enabled
  BY DEF T!Init
<1> QED
  BY <1>3, <1>4 DEF Course, Unconnected

LEMMA CourseStep ==
  ASSUME ToolTypes, Course, T!Next
  PROVE  Course'
<1>1. /\ t \in ToolMembers /\ there \in BOOLEAN /\ enabled \in BOOLEAN /\ trouble \in BOOLEAN
  BY DEF ToolTypes
<1>2. /\ t.call \in CallType /\ (t.call.all => t.call.tool = "config")
  BY <1>1, CallIs DEF ToolMembers
<1>3. t.call.channel \in Nat \ {0} /\ NetworkCount \in 1 .. NumberWidth /\ NumberWidth \in Nat
      /\ t.channel \in Nat \ {0}
  BY <1>1, <1>2, ToolsAssumption DEF CallType, ToolMembers
<1> USE DEF Healthy, Unconnected
<1>4. ASSUME UNCHANGED <<there, enabled, trouble>>, t' = T!quit(t), "parse" \notin t.timers
      PROVE  Course'
  BY <1>1, <1>4 DEF Course, T!quit, ToolMembers
<1>5. CASE T!runCmdParser
  BY <1>1, <1>2, <1>5 DEF T!runCmdParser, T!connectNetwork, T!Fired, T!Fires, T!App, T!Tool, ToolMembers, T!outside, Course
<1>6. CASE T!ServerChanges
  BY <1>1, <1>6 DEF T!ServerChanges, T!Broken, ToolMembers, Course
<1>7. CASE T!NetworkChanges
  BY <1>1, <1>7 DEF T!NetworkChanges, Course
<1>8. CASE T!ConnectionFails
  BY <1>1, <1>8 DEF T!ConnectionFails, ToolMembers, Course
<1>9. ASSUME NEW passes \in BOOLEAN, T!NetworkSends(passes)
      PROVE  Course'
  <2>1. PICK q : t' = [t EXCEPT !.in = q]
    BY <1>9 DEF T!NetworkSends
  <2>2. UNCHANGED <<there, enabled, trouble>> /\ "parse" \notin t.timers
    BY <1>9 DEF T!NetworkSends, T!outside, Course
  <2> QED
    BY <1>1, <2>1, <2>2 DEF ToolMembers, Course
<1>10. CASE T!OtherAttaches
  BY <1>1, <1>10 DEF T!OtherAttaches, T!outside, ToolMembers, Course
<1>11. CASE T!ServerConnected
  BY <1>1, <1>11 DEF T!ServerConnected, T!outside, ToolMembers, Course, T!App
<1>12. CASE T!SettingsConnected
  BY <1>1, <1>12 DEF T!SettingsConnected, T!outside, ToolMembers, Course, T!App
<1>13. CASE T!SettingsGone
  BY <1>1, <1>13 DEF T!SettingsGone, T!outside, ToolMembers, Course, T!App
<1>14. CASE T!onServerStateChanged
  <2>1. "parse" \notin t.timers
    BY <1>14 DEF T!onServerStateChanged, Course
  <2> QED
    BY <1>4, <1>14, <2>1 DEF T!onServerStateChanged, T!outside
<1>15. CASE T!onServerObjectReceived
  BY <1>1, <1>15 DEF T!onServerObjectReceived, T!quit, T!outside, T!App, ToolMembers, Course
<1>16. CASE T!AttachSocket
  BY <1>1, <1>2, <1>16 DEF T!AttachSocket, T!Object, T!connectNetwork, T!outside, T!App, T!Tool, ToolMembers, Course
<1>17. CASE T!ExecCommand
  BY <1>1, <1>17 DEF T!ExecCommand, T!Object, T!outside, T!App, T!Tool, ToolMembers, Course
<1>18. CASE T!ShowSettings
  BY <1>1, <1>3, <1>18 DEF T!ShowSettings, T!quit, T!outside, T!App, T!Tool, ToolMembers, Course
<1>19. CASE T!onSocketConnected
  <2>1. PICK n : n = IF t.call.local THEN t.channel ELSE T!Route(t.channel)
    OBVIOUS
  <2>2. t.call.tool # "config" /\ ~t.call.all /\ t.channel = t.call.channel
    BY <1>2, <1>19 DEF T!onSocketConnected, T!App, Course
  <2>3. n \in {0, T!Named(t.call)} /\ (Healthy => n # 0)
    <3>1. t.call.tool \in {"send", "dump", "error"} /\ T!App /\ t.sock = "pending"
      BY <1>2, <1>19, <2>2 DEF T!onSocketConnected, CallType
    <3>2. t.call.tool # "error" => t.call.channel \in 1 .. NumberWidth
      BY <1>3, <2>2, <3>1 DEF Course, T!App
    <3>3. CASE t.call.local
      <4>1. n = t.call.channel /\ T!Named(t.call) = t.call.channel
        BY <2>1, <2>2, <3>3 DEF T!Named
      <4> QED
        BY <1>3, <4>1
    <3>4. CASE ~t.call.local
      <4>1. n = T!Route(t.call.channel)
        BY <2>1, <2>2, <3>4
      <4>2. T!Named(t.call) = ((t.call.channel - 1) % NumberWidth) + 1
        <5>1. CASE t.call.tool = "error"
          BY <3>4, <5>1 DEF T!Named
        <5>2. CASE t.call.tool # "error"
          BY <1>3, <3>2, <5>2, RouteType DEF T!Named
        <5> QED
          BY <5>1, <5>2
      <4>3. n \in {0, T!Named(t.call)} /\ (n = 0 => T!Named(t.call) > NetworkCount)
        BY <1>3, <4>1, <4>2, RouteType
      <4>4. T!Named(t.call) \in Nat
        BY <1>2, NamedType
      <4> QED
        BY <1>3, <4>3, <4>4
    <3> QED
      BY <3>3, <3>4
  <2>4. PICK more \in SUBSET {"send", "activity"} :
          t' = [t EXCEPT !.sock = IF n = 0 THEN "broken" ELSE "up", !.reached = n, !.timers = @ \cup more]
    BY <1>19, <2>1 DEF T!onSocketConnected
  <2>5. /\ t'.sock = (IF n = 0 THEN "broken" ELSE "up") /\ t'.reached = n /\ t'.timers = t.timers \cup more
        /\ t'.call = t.call /\ t'.running = t.running /\ t'.loop = t.loop /\ t'.settings = t.settings
        /\ t'.net = t.net /\ t'.object = t.object /\ t'.objects = t.objects /\ t'.channel = t.channel
        /\ t'.listens = t.listens
    BY <1>1, <2>4 DEF ToolMembers
  <2>6. UNCHANGED <<there, enabled, trouble>> /\ T!App /\ t.sock = "pending"
    BY <1>19 DEF T!onSocketConnected, T!outside
  <2>7. "parse" \notin t.timers
    BY <2>6 DEF Course
  <2>8. T!Named(t'.call) = T!Named(t.call)
    BY <2>5
  <2>9. "parse" \notin t'.timers
    BY <2>4, <2>5, <2>7
  <2> QED
    BY <1>3, <2>2, <2>3, <2>5, <2>6, <2>8, <2>9 DEF Course, T!App
<1>20. CASE T!onSocketError
  BY <1>1, <1>2, <1>3, <1>20 DEF T!onSocketError, T!Reachable, T!quit, T!outside, T!App, T!Tool, ToolMembers, Course
<1>21. ASSUME NEW orderly \in BOOLEAN, T!SocketLost(orderly)
       PROVE  Course'
  <2>1. PICK d : /\ d = [t EXCEPT !.sock = "down", !.count = IF T!Tool = "send" THEN 0 ELSE @]
                 /\ t' = T!quit(t) \/ t' = d
    BY <1>21 DEF T!SocketLost
  <2>2. UNCHANGED <<there, enabled, trouble>> /\ T!App /\ t.sock = "broken"
    BY <1>21 DEF T!SocketLost, T!outside
  <2>3. CASE t' = T!quit(t)
    <3>1. "parse" \notin t.timers
      BY <2>2 DEF Course
    <3> QED
      BY <1>4, <2>2, <2>3, <3>1
  <2>4. CASE t' = d
    BY <1>1, <2>1, <2>2, <2>4 DEF ToolMembers, Course, T!App
  <2> QED
    BY <2>1, <2>3, <2>4
<1>22. CASE T!StartSending
  BY <1>1, <1>22 DEF T!StartSending, T!Fired, T!Fires, T!App, T!Tool, T!outside, ToolMembers, Course
<1>23. CASE T!SendNext
  <2>1. PICK id, dlc : t' = [t EXCEPT !.count = @ - 1, !.id = id, !.dlc = dlc]
    BY <1>23 DEF T!SendNext
  <2>2. UNCHANGED <<there, enabled, trouble>>
    BY <1>23 DEF T!SendNext, T!outside
  <2> QED
    BY <1>1, <2>1, <2>2 DEF ToolMembers, Course
<1>24. CASE T!SendingDone
  BY <1>1, <1>24 DEF T!SendingDone, T!outside, ToolMembers, Course
<1>25. CASE T!WriteFails
  <2>1. "parse" \notin t.timers
    BY <1>25 DEF T!WriteFails, Course
  <2> QED
    BY <1>4, <1>25, <2>1 DEF T!WriteFails, T!outside
<1>26. CASE T!sendErrorFrame
  BY <1>1, <1>26 DEF T!sendErrorFrame, T!Fired, T!Fires, T!App, T!Tool, T!outside, ToolMembers, Course
<1>27. CASE T!onSocketReceive
  <2>1. PICK left, count : LET d == [t EXCEPT !.in = left, !.count = count]
                           IN t' = T!quit(d) \/ t' = d
    BY <1>27 DEF T!onSocketReceive
  <2>2. UNCHANGED <<there, enabled, trouble>> /\ T!App /\ "parse" \notin t.timers
    BY <1>27 DEF T!onSocketReceive, T!outside, Course
  <2> QED
    <3>1. CASE t' = [t EXCEPT !.in = left, !.count = count]
      BY <1>1, <2>2, <3>1 DEF ToolMembers, Course
    <3>2. CASE t' = T!quit([t EXCEPT !.in = left, !.count = count])
      BY <1>1, <2>2, <3>2 DEF ToolMembers, Course, T!quit
    <3> QED
      BY <2>1, <3>1, <3>2
<1>28. CASE T!TimeToQuit
  <2>1. "parse" \notin t.timers
    BY <1>28 DEF T!TimeToQuit, T!Fires, Course
  <2> QED
    BY <1>4, <1>28, <2>1 DEF T!TimeToQuit, T!outside
<1> QED
  BY <1>5, <1>6, <1>7, <1>8, <1>9, <1>10, <1>11, <1>12, <1>13, <1>14, <1>15, <1>16, <1>17, <1>18,
     <1>19, <1>20, <1>21, <1>22, <1>23, <1>24, <1>25, <1>26, <1>27, <1>28 DEF T!Next, T!ToolStep

------------------------------------------------------------------------------
(* can-send and can-error: what has been sent, and what is to come.        *)
Message == [id : Nat, dlc : Nat, network : Nat]
Wanted == T!Least(t.call.count)
Nth(k) == T!Asked(t.call)[k]
Sender == t.call.tool \in {"send", "error"}

(* What has been sent so far, and what is still to come.                   *)
Sending ==
  /\ onBus \in Seq(Message) /\ Len(onBus) <= Wanted
  /\ \A k \in 1 .. Len(onBus) : onBus[k] = Nth(k)
  /\ t.in = <<>> /\ "activity" \notin t.timers
  /\ t.sock \in Unconnected \/ (t.call.tool = "send" /\ "send" \in t.timers) =>
       /\ onBus = <<>> /\ ~t.loop /\ t.id = t.call.id /\ t.dlc = t.call.dlc
       /\ t.sock \in Unconnected \cup {"up"} => t.count = t.call.count
  /\ t.loop /\ t.sock = "up" =>
       /\ Len(onBus) = IF t.call.count = 0 THEN 1 ELSE t.call.count - t.count + 1
       /\ Len(onBus) \in 1 .. Wanted /\ (t.call.count = 0 => t.count = 0)
       /\ t.id = Nth(Len(onBus)).id /\ t.dlc = Nth(Len(onBus)).dlc
  /\ t.call.tool = "error" =>
       /\ t.id = t.call.id /\ t.dlc = t.call.dlc
       /\ "send" \in t.timers /\ t.sock = "up" =>
            Len(onBus) + t.count = t.call.count /\ (t.call.count > 0 => t.count > 0)
  /\ Healthy /\ ("quit" \in t.timers \/ ~t.running) => Len(onBus) = Wanted
Sends == Sender => Sending

LEMMA Incrementing ==
  ASSUME NEW a \in Nat, NEW limit \in Nat \ {0}
  PROVE  T!Incremented(a % limit, limit) = (a + 1) % limit
<1>1. PICK q \in Nat, r \in 0 .. limit - 1 : a = limit * q + r /\ a % limit = r
  <2>1. a = limit * (a \div limit) + (a % limit) /\ a % limit \in 0 .. limit - 1 /\ a \div limit \in Nat
    OBVIOUS
  <2> QED
    BY <2>1
<1>2. ASSUME NEW b \in Nat, NEW p \in Nat, NEW u \in 0 .. limit - 1, b = limit * p + u
      PROVE  b % limit = u
  BY <1>2
<1>3. CASE r + 1 < limit
  <2>1. a + 1 = limit * q + (r + 1) /\ r + 1 \in 0 .. limit - 1 /\ a + 1 \in Nat
    BY <1>1, <1>3
  <2>2. (a + 1) % limit = r + 1
    BY <1>1, <1>2, <2>1
  <2> QED
    BY <1>1, <1>3, <2>2 DEF T!Incremented
<1>4. CASE ~(r + 1 < limit)
  <2>1. a + 1 = limit * (q + 1) + 0 /\ 0 \in 0 .. limit - 1 /\ a + 1 \in Nat /\ q + 1 \in Nat
    BY <1>1, <1>4
  <2>2. (a + 1) % limit = 0
    BY <1>2, <2>1
  <2> QED
    BY <1>1, <1>4, <2>2 DEF T!Incremented
<1> QED
  BY <1>3, <1>4

LEMMA Small ==
  ASSUME NEW limit \in Nat \ {0}, NEW a \in 0 .. limit - 1
  PROVE  a % limit = a
OBVIOUS

LEMMA NthIs ==
  ASSUME t.call \in CallType
  PROVE  /\ Wanted \in Nat \ {0} /\ T!Asked(t.call) \in Seq(Message) /\ Len(T!Asked(t.call)) = Wanted
         /\ \A k \in 1 .. Wanted :
              Nth(k) = [id |-> IF "I" \in t.call.inc THEN (t.call.id + k - 1) % IdLimit ELSE t.call.id,
                        dlc |-> IF "D" \in t.call.inc THEN (t.call.dlc + k - 1) % DlcLimit ELSE t.call.dlc,
                        network |-> T!Named(t.call)]
<1>1. /\ t.call.id \in Nat /\ t.call.dlc \in Nat /\ T!Named(t.call) \in Nat /\ t.call.count \in Nat
      /\ IdLimit \in Nat \ {0} /\ DlcLimit \in Nat \ {0}
  BY ToolsAssumption, NamedType DEF CallType
<1>2. Wanted \in Nat \ {0}
  BY <1>1 DEF Wanted, T!Least
<1>3. ASSUME NEW k \in 1 .. Wanted
      PROVE  (t.call.id + k - 1) % IdLimit \in Nat /\ (t.call.dlc + k - 1) % DlcLimit \in Nat
  <2>1. t.call.id + k - 1 \in Nat /\ t.call.dlc + k - 1 \in Nat
    BY <1>1, <1>2
  <2> QED
    BY <1>1, <2>1
<1>4. \A k \in 1 .. Wanted :
        /\ T!Asked(t.call)[k] =
             [id |-> IF "I" \in t.call.inc THEN (t.call.id + k - 1) % IdLimit ELSE t.call.id,
              dlc |-> IF "D" \in t.call.inc THEN (t.call.dlc + k - 1) % DlcLimit ELSE t.call.dlc,
              network |-> T!Named(t.call)]
        /\ T!Asked(t.call)[k] \in Message
  BY <1>1, <1>3 DEF T!Asked, Wanted, Message
<1>5. T!Asked(t.call) \in [1 .. Wanted -> Message]
  BY <1>1, <1>3 DEF T!Asked, Wanted, Message
<1>6. T!Asked(t.call) \in Seq(Message) /\ Len(T!Asked(t.call)) = Wanted
  BY <1>2, <1>5
<1> QED
  BY <1>2, <1>4, <1>6 DEF Nth

LEMMA FirstIs ==
  ASSUME t.call \in CallType
  PROVE  Nth(1) = [id |-> t.call.id, dlc |-> t.call.dlc, network |-> T!Named(t.call)]
<1>1. t.call.id \in 0 .. IdLimit - 1 /\ t.call.dlc \in 0 .. DlcLimit - 1
      /\ IdLimit \in Nat \ {0} /\ DlcLimit \in Nat \ {0}
  BY ToolsAssumption DEF CallType
<1>2. t.call.id % IdLimit = t.call.id /\ t.call.dlc % DlcLimit = t.call.dlc
  BY <1>1, Small
<1>3. t.call.id + 1 - 1 = t.call.id /\ t.call.dlc + 1 - 1 = t.call.dlc
  BY <1>1
<1>4. 1 \in 1 .. Wanted
  BY NthIs
<1> QED
  BY <1>2, <1>3, <1>4, NthIs

LEMMA NextIs ==
  ASSUME t.call \in CallType, NEW k \in Nat, k \in 1 .. Wanted, k + 1 \in 1 .. Wanted
  PROVE  /\ Nth(k + 1).id = IF "I" \in t.call.inc THEN T!Incremented(Nth(k).id, IdLimit) ELSE Nth(k).id
         /\ Nth(k + 1).dlc = IF "D" \in t.call.inc THEN T!Incremented(Nth(k).dlc, DlcLimit) ELSE Nth(k).dlc
         /\ Nth(k + 1) = [id |-> Nth(k + 1).id, dlc |-> Nth(k + 1).dlc, network |-> T!Named(t.call)]
<1>1. t.call.id \in Nat /\ t.call.dlc \in Nat /\ IdLimit \in Nat \ {0} /\ DlcLimit \in Nat \ {0}
  BY ToolsAssumption DEF CallType
<1>2. PICK a \in Nat, b \in Nat : a = t.call.id + k - 1 /\ b = t.call.dlc + k - 1
  BY <1>1
<1>3. t.call.id + (k + 1) - 1 = a + 1 /\ t.call.dlc + (k + 1) - 1 = b + 1
  BY <1>1, <1>2
<1>4. /\ T!Incremented(a % IdLimit, IdLimit) = (a + 1) % IdLimit
      /\ T!Incremented(b % DlcLimit, DlcLimit) = (b + 1) % DlcLimit
  BY <1>1, <1>2, Incrementing
<1>5. Nth(k) = [id |-> IF "I" \in t.call.inc THEN a % IdLimit ELSE t.call.id,
                dlc |-> IF "D" \in t.call.inc THEN b % DlcLimit ELSE t.call.dlc, network |-> T!Named(t.call)]
  BY <1>2, NthIs
<1>6. Nth(k + 1) = [id |-> IF "I" \in t.call.inc THEN (a + 1) % IdLimit ELSE t.call.id,
                    dlc |-> IF "D" \in t.call.inc THEN (b + 1) % DlcLimit ELSE t.call.dlc,
                    network |-> T!Named(t.call)]
  BY <1>3, NthIs
<1> QED
  BY <1>4, <1>5, <1>6

LEMMA SendsStart ==
  ASSUME T!Init
  PROVE  Sends
<1>1. PICK call \in MCCalls : t = T!New(call)
  BY DEF T!Init
<1>2. /\ t.call = call /\ t.running = TRUE /\ t.loop = FALSE /\ t.timers = {"parse"} /\ t.in = <<>>
      /\ t.sock = "none" /\ t.count = call.count /\ t.id = call.id /\ t.dlc = call.dlc /\ onBus = <<>>
  BY <1>1 DEF T!New, T!Init
<1>3. call \in CallType
  BY CallIs
<1>4. Wanted \in Nat
  BY <1>2, <1>3, NthIs
<1>5. onBus \in Seq(Message) /\ Len(onBus) = 0
  BY <1>2
<1> QED
  BY <1>2, <1>4, <1>5 DEF Sends, Sending, Unconnected

(* A step that sends nothing, and neither connects nor lets a timer fire   *)
(* that sends, keeps what was sent.                                        *)
LEMMA SendsKept ==
  ASSUME Sending, onBus' = onBus, t'.call = t.call, t'.in = t.in, t'.id = t.id, t'.dlc = t.dlc,
         t'.loop => t.loop, t'.timers \subseteq t.timers \cup {"quit"},
         t'.sock \in Unconnected => t.sock \in Unconnected, t'.sock = "up" => t.sock = "up",
         t'.sock \in Unconnected \cup {"up"} => t'.count = t.count,
         Healthy' /\ ("quit" \in t'.timers \/ ~t'.running) => Len(onBus) = Wanted
  PROVE  Sends'
<1>1. Wanted' = Wanted
  BY DEF Wanted
<1>2. ASSUME NEW k PROVE Nth(k)' = Nth(k)
  BY DEF Nth
<1>3. Sending'
  <2>1. /\ onBus' \in Seq(Message) /\ Len(onBus') <= Wanted'
        /\ \A k \in 1 .. Len(onBus') : onBus'[k] = Nth(k)'
        /\ t'.in = <<>> /\ "activity" \notin t'.timers
    BY <1>1, <1>2 DEF Sending
  <2>2. t'.sock \in Unconnected \/ (t'.call.tool = "send" /\ "send" \in t'.timers) =>
          /\ onBus' = <<>> /\ ~t'.loop /\ t'.id = t'.call.id /\ t'.dlc = t'.call.dlc
          /\ t'.sock \in Unconnected \cup {"up"} => t'.count = t'.call.count
    BY DEF Sending, Unconnected
  <2>3. t'.loop /\ t'.sock = "up" =>
          /\ Len(onBus') = IF t'.call.count = 0 THEN 1 ELSE t'.call.count - t'.count + 1
          /\ Len(onBus') \in 1 .. Wanted' /\ (t'.call.count = 0 => t'.count = 0)
          /\ t'.id = Nth(Len(onBus))'.id /\ t'.dlc = Nth(Len(onBus))'.dlc
    BY <1>1, <1>2 DEF Sending, Unconnected
  <2>4. t'.call.tool = "error" =>
          /\ t'.id = t'.call.id /\ t'.dlc = t'.call.dlc
          /\ "send" \in t'.timers /\ t'.sock = "up" =>
               Len(onBus') + t'.count = t'.call.count /\ (t'.call.count > 0 => t'.count > 0)
    BY DEF Sending, Unconnected
  <2>5. Healthy' /\ ("quit" \in t'.timers \/ ~t'.running) => Len(onBus') = Wanted'
    BY <1>1
  <2> QED
    BY <2>1, <2>2, <2>3, <2>4, <2>5 DEF Sending, Unconnected
<1> QED
  BY <1>3 DEF Sends

(* A frame that is written is the next one that was asked for.             *)
LEMMA OneMoreSent ==
  ASSUME Sending, t.call \in CallType, NEW id, NEW dlc, t.sock = "up" => t.reached = T!Named(t.call),
         t.sock = "up" => Len(onBus) < Wanted /\ id = Nth(Len(onBus) + 1).id /\ dlc = Nth(Len(onBus) + 1).dlc,
         onBus' = T!Written(id, dlc)
  PROVE  /\ onBus' \in Seq(Message) /\ Len(onBus') = Len(onBus) + (IF t.sock = "up" THEN 1 ELSE 0)
         /\ Len(onBus') <= Wanted /\ \A k \in 1 .. Len(onBus') : onBus'[k] = Nth(k)
<1>1. onBus \in Seq(Message) /\ Len(onBus) \in Nat /\ Wanted \in Nat /\ Len(onBus) <= Wanted
      /\ \A k \in 1 .. Len(onBus) : onBus[k] = Nth(k)
  BY NthIs DEF Sending
<1>2. CASE t.sock = "up"
  <2>1. PICK m : m = [id |-> id, dlc |-> dlc, network |-> t.reached]
    OBVIOUS
  <2>2. onBus' = Append(onBus, m)
    BY <1>2, <2>1 DEF T!Written
  <2>3. PICK n : n = Len(onBus) + 1
    OBVIOUS
  <2>4. n \in 1 .. Wanted
    BY <1>1, <1>2, <2>3
  <2>5. Nth(n) = [id |-> Nth(n).id, dlc |-> Nth(n).dlc, network |-> T!Named(t.call)] /\ Nth(n) \in Message
    <3>1. Nth(n) = [id |-> IF "I" \in t.call.inc THEN (t.call.id + n - 1) % IdLimit ELSE t.call.id,
                    dlc |-> IF "D" \in t.call.inc THEN (t.call.dlc + n - 1) % DlcLimit ELSE t.call.dlc,
                    network |-> T!Named(t.call)]
      BY <2>4, NthIs
    <3>2. T!Asked(t.call) \in Seq(Message) /\ Len(T!Asked(t.call)) = Wanted
      BY NthIs
    <3>3. Nth(n) \in Message
      BY <2>4, <3>2 DEF Nth
    <3> QED
      BY <3>1, <3>3
  <2>6. m = Nth(n)
    BY <1>2, <2>1, <2>3, <2>5
  <2>7. /\ onBus' \in Seq(Message) /\ Len(onBus') = n
        /\ \A k \in 1 .. Len(onBus) : onBus'[k] = onBus[k]
        /\ onBus'[n] = m
    BY <1>1, <2>2, <2>3, <2>5, <2>6
  <2> QED
    <3>1. ASSUME NEW k \in 1 .. n PROVE onBus'[k] = Nth(k)
      <4>1. k \in 1 .. Len(onBus) \/ k = n
        BY <1>1, <2>3
      <4> QED
        <5>1. CASE k \in 1 .. Len(onBus)
          BY <1>1, <2>7, <5>1
        <5>2. CASE k = n
          BY <2>6, <2>7, <5>2
        <5> QED
          BY <4>1, <5>1, <5>2
    <3>2. n <= Wanted
      BY <2>4
    <3> QED
      BY <1>2, <2>3, <2>7, <3>1, <3>2
<1>3. CASE t.sock # "up"
  <2>1. onBus' = onBus
    BY <1>3 DEF T!Written
  <2> QED
    BY <1>1, <1>3, <2>1
<1> QED
  BY <1>2, <1>3

(* The options stay as they are.                                           *)
LEMMA CallKept ==
  ASSUME ToolTypes, T!Next
  PROVE  t'.call = t.call
<1>1. t \in ToolMembers
  BY DEF ToolTypes
<1>2. CASE T!runCmdParser
  BY <1>1, <1>2 DEF T!runCmdParser, T!connectNetwork, T!Fired, ToolMembers
<1>3. CASE T!ServerChanges
  BY <1>1, <1>3 DEF T!ServerChanges, ToolMembers
<1>4. CASE T!NetworkChanges
  BY <1>1, <1>4 DEF T!NetworkChanges, ToolMembers
<1>5. CASE T!ConnectionFails
  BY <1>1, <1>5 DEF T!ConnectionFails, ToolMembers
<1>6. CASE T!OtherAttaches
  BY <1>1, <1>6 DEF T!OtherAttaches, ToolMembers
<1>7. CASE T!ServerConnected
  BY <1>1, <1>7 DEF T!ServerConnected, ToolMembers
<1>8. CASE T!onServerStateChanged
  BY <1>1, <1>8 DEF T!onServerStateChanged, T!quit, ToolMembers
<1>9. CASE T!onServerObjectReceived
  BY <1>1, <1>9 DEF T!onServerObjectReceived, T!quit, ToolMembers
<1>10. CASE T!SettingsConnected
  BY <1>1, <1>10 DEF T!SettingsConnected, ToolMembers
<1>11. CASE T!SettingsGone
  BY <1>1, <1>11 DEF T!SettingsGone, ToolMembers
<1>12. CASE T!AttachSocket
  BY <1>1, <1>12 DEF T!AttachSocket, T!Object, T!connectNetwork, ToolMembers
<1>13. CASE T!ExecCommand
  BY <1>1, <1>13 DEF T!ExecCommand, T!Object, ToolMembers
<1>14. CASE T!ShowSettings
  BY <1>1, <1>14 DEF T!ShowSettings, T!quit, ToolMembers
<1>15. CASE T!onSocketConnected
  BY <1>1, <1>15 DEF T!onSocketConnected, ToolMembers
<1>16. CASE T!onSocketError
  BY <1>1, <1>16 DEF T!onSocketError, T!quit, ToolMembers
<1>17. CASE T!StartSending
  BY <1>1, <1>17 DEF T!StartSending, T!Fired, ToolMembers
<1>18. CASE T!SendNext
  BY <1>1, <1>18 DEF T!SendNext, ToolMembers
<1>19. CASE T!SendingDone
  BY <1>1, <1>19 DEF T!SendingDone, ToolMembers
<1>20. CASE T!WriteFails
  BY <1>1, <1>20 DEF T!WriteFails, T!quit, ToolMembers
<1>21. CASE T!sendErrorFrame
  BY <1>1, <1>21 DEF T!sendErrorFrame, T!Fired, ToolMembers
<1>22. CASE T!onSocketReceive
  BY <1>1, <1>22 DEF T!onSocketReceive, T!quit, ToolMembers
<1>23. CASE T!TimeToQuit
  BY <1>1, <1>23 DEF T!TimeToQuit, T!quit, ToolMembers
<1>24. ASSUME NEW orderly \in BOOLEAN, T!SocketLost(orderly)
       PROVE  t'.call = t.call
  BY <1>1, <1>24 DEF T!SocketLost, T!quit, ToolMembers
<1>25. ASSUME NEW passes \in BOOLEAN, T!NetworkSends(passes)
       PROVE  t'.call = t.call
  BY <1>1, <1>25 DEF T!NetworkSends, ToolMembers
<1> QED
  BY <1>2, <1>3, <1>4, <1>5, <1>6, <1>7, <1>8, <1>9, <1>10, <1>11, <1>12, <1>13, <1>14, <1>15, <1>16, <1>17, <1>18, <1>19, <1>20, <1>21, <1>22, <1>23, <1>24, <1>25 DEF T!Next, T!ToolStep

LEMMA SendsStep ==
  ASSUME ToolTypes, Course, Sends, T!Next
  PROVE  Sends'
<1>0. t \in ToolMembers /\ t.call \in CallType
  BY CallIs DEF ToolTypes, ToolMembers
<1>1. t'.call = t.call
  BY CallKept
<1> SUFFICES ASSUME Sender PROVE Sends'
  BY <1>1 DEF Sends, Sender
<1>2. Sending /\ t.call.tool \in {"send", "error"} /\ (t.sock = "up" => t.reached = T!Named(t.call))
      /\ Wanted \in Nat \ {0} /\ t.in = <<>> /\ "activity" \notin t.timers
  <2>1. Sending /\ t.call.tool \in {"send", "error"} /\ t.in = <<>> /\ "activity" \notin t.timers
    BY DEF Sends, Sender, Sending
  <2>2. t.sock = "up" => t.reached = T!Named(t.call)
    BY DEF Course
  <2>3. Wanted \in Nat \ {0}
    BY <1>0, NthIs
  <2> QED
    BY <2>1, <2>2, <2>3
<1>3. Healthy /\ ("quit" \in t.timers \/ ~t.running) => Len(onBus) = Wanted
  BY <1>2 DEF Sending
<1>4. ASSUME UNCHANGED <<onBus, trouble>>, t' = T!quit(t), ~Healthy \/ "quit" \in t.timers \/ ~t.running
      PROVE  Sends'
  <2>1. /\ t'.in = t.in /\ t'.id = t.id /\ t'.dlc = t.dlc /\ t'.loop = FALSE /\ t'.timers = t.timers
        /\ t'.sock = "down" /\ Healthy' = Healthy
    BY <1>0, <1>4 DEF T!quit, ToolMembers, Healthy
  <2> QED
    BY <1>1, <1>2, <1>3, <1>4, <2>1, SendsKept DEF Unconnected
<1>5. CASE T!runCmdParser
  <2>1. t.running /\ t.sock = "none"
    BY <1>5 DEF T!runCmdParser, T!Fires, T!App, Course
  <2>2. /\ t'.in = t.in /\ t'.id = t.id /\ t'.dlc = t.dlc /\ t'.loop = t.loop /\ t'.timers = t.timers \ {"parse"}
        /\ t'.sock \in {"pending", t.sock} /\ t'.count = t.count /\ t'.running = t.running
    BY <1>0, <1>5 DEF T!runCmdParser, T!connectNetwork, T!Fired, ToolMembers
  <2>3. onBus' = onBus /\ trouble' = trouble
    BY <1>5 DEF T!runCmdParser, T!history, T!outside
  <2>4. Healthy' = Healthy
    BY <1>1, <2>3 DEF Healthy
  <2> QED
    BY <1>1, <1>2, <1>3, <2>1, <2>2, <2>3, <2>4, SendsKept DEF Unconnected
<1>6. CASE T!ServerChanges \/ T!NetworkChanges \/ T!ConnectionFails
  <2>1. /\ t'.in = t.in /\ t'.id = t.id /\ t'.dlc = t.dlc /\ t'.loop = t.loop /\ t'.timers = t.timers
        /\ t'.sock = t.sock \/ (t.sock = "up" /\ t'.sock = "broken")
        /\ t'.count = t.count /\ t'.running = t.running
    <3>1. CASE T!ServerChanges
      BY <1>0, <3>1 DEF T!ServerChanges, T!Broken, ToolMembers
    <3>2. CASE T!NetworkChanges
      BY <3>2 DEF T!NetworkChanges
    <3>3. CASE T!ConnectionFails
      BY <1>0, <3>3 DEF T!ConnectionFails, ToolMembers
    <3> QED
      BY <1>6, <3>1, <3>2, <3>3
  <2>2. onBus' = onBus /\ trouble' = TRUE
    BY <1>6 DEF T!ServerChanges, T!NetworkChanges, T!ConnectionFails, T!history
  <2>3. ~Healthy'
    BY <2>2 DEF Healthy
  <2> QED
    BY <1>1, <1>2, <2>1, <2>2, <2>3, SendsKept DEF Unconnected
<1>7. ASSUME NEW passes \in BOOLEAN, T!NetworkSends(passes)
      PROVE  Sends'
  BY <1>2, <1>7 DEF T!NetworkSends, T!Tool
(* Settings come and go.                                                   *)
<1>8. ASSUME UNCHANGED <<onBus, trouble>>, t'.in = t.in, t'.id = t.id, t'.dlc = t.dlc, t'.loop = t.loop,
             t'.timers = t.timers, t'.sock = t.sock, t'.count = t.count, t'.running = t.running
      PROVE  Sends'
  <2>1. Healthy' = Healthy
    BY <1>1, <1>8 DEF Healthy
  <2> QED
    BY <1>1, <1>2, <1>3, <1>8, <2>1, SendsKept
<1>9. CASE T!OtherAttaches
  BY <1>0, <1>8, <1>9 DEF T!OtherAttaches, T!outside, T!history, ToolMembers
<1>10. CASE T!ServerConnected
  BY <1>0, <1>8, <1>10 DEF T!ServerConnected, T!outside, T!history, ToolMembers
<1>11. CASE T!SettingsConnected
  BY <1>0, <1>8, <1>11 DEF T!SettingsConnected, T!outside, T!history, ToolMembers
<1>12. CASE T!SettingsGone
  BY <1>0, <1>8, <1>12 DEF T!SettingsGone, T!outside, T!history, ToolMembers
<1>13. CASE T!onServerStateChanged
  <2>1. ~Healthy
    BY <1>13 DEF T!onServerStateChanged, Course, Healthy
  <2> QED
    BY <1>4, <1>13, <2>1 DEF T!onServerStateChanged, T!outside, T!history
<1>14. CASE T!onServerObjectReceived
  <2>1. ~t.call.all
    BY <1>0, <1>2, CallIs DEF ToolMembers
  <2>2. t.channel = t.call.channel
    BY <2>1 DEF Course
  <2>3. CASE t.channel <= NetworkCount
    BY <1>0, <1>8, <1>14, <2>3 DEF T!onServerObjectReceived, T!outside, T!history, ToolMembers
  <2>4. CASE ~(t.channel <= NetworkCount)
    <3>1. ~Healthy
      BY <1>14, <2>2, <2>4 DEF T!onServerObjectReceived, Course, Healthy, T!Named
    <3>2. /\ t'.in = t.in /\ t'.id = t.id /\ t'.dlc = t.dlc /\ t'.loop = FALSE /\ t'.timers = t.timers
          /\ t'.sock = "down" /\ UNCHANGED <<onBus, trouble>>
      BY <1>0, <1>14, <2>4 DEF T!onServerObjectReceived, T!quit, T!outside, T!history, ToolMembers
    <3>3. ~Healthy'
      BY <1>1, <3>1, <3>2 DEF Healthy
    <3> QED
      BY <1>1, <1>2, <3>2, <3>3, SendsKept DEF Unconnected
  <2> QED
    BY <2>3, <2>4
<1>15. CASE T!AttachSocket
  <2>1. t.listens => t.sock = "none"
    BY <1>2, <1>15 DEF T!AttachSocket, T!App, T!Tool, Course
  <2>2. /\ t'.in = t.in /\ t'.id = t.id /\ t'.dlc = t.dlc /\ t'.loop = t.loop /\ t'.timers = t.timers
        /\ (t'.sock = t.sock \/ (t'.sock = "pending" /\ t.listens)) /\ t'.count = t.count /\ t'.running = t.running
    BY <1>0, <1>15 DEF T!AttachSocket, T!Object, T!connectNetwork, ToolMembers
  <2>3. onBus' = onBus /\ trouble' = trouble
    BY <1>15 DEF T!AttachSocket, T!outside, T!history
  <2>4. Healthy' = Healthy
    BY <1>1, <2>3 DEF Healthy
  <2> QED
    BY <1>1, <1>2, <1>3, <2>1, <2>2, <2>3, <2>4, SendsKept DEF Unconnected
<1>16. CASE T!ExecCommand \/ T!ShowSettings
  BY <1>2, <1>16 DEF T!ExecCommand, T!ShowSettings, T!Tool
<1>17. CASE T!onSocketConnected
  <2>1. t.sock = "pending" /\ t.running /\ ~t.loop /\ onBus = <<>> /\ Len(onBus) = 0 /\ t.id = t.call.id
        /\ t.dlc = t.call.dlc /\ t.count = t.call.count
    BY <1>2, <1>17 DEF T!onSocketConnected, T!App, Sending, Unconnected
  <2>2. /\ t'.in = t.in /\ t'.id = t.id /\ t'.dlc = t.dlc /\ t'.loop = t.loop /\ t'.timers = t.timers \cup {"send"}
        /\ t'.sock \in {"up", "broken"} /\ t'.count = t.count /\ t'.running = t.running
    BY <1>0, <1>2, <1>17 DEF T!onSocketConnected, T!Tool, ToolMembers
  <2>3. onBus' = onBus /\ trouble' = trouble
    BY <1>17 DEF T!onSocketConnected, T!outside, T!history
  <2>4. Healthy' = Healthy
    BY <1>1, <2>3 DEF Healthy
  <2>5. ~(Healthy /\ "quit" \in t.timers)
    BY <1>2, <1>3, <2>1
  <2>6. t.call.count \in Nat
    BY <1>0, ToolsAssumption DEF CallType
  <2>7. onBus' \in Seq(Message) /\ Len(onBus') = 0
    BY <2>1, <2>3
  <2>8. Wanted' = Wanted
    BY <1>1 DEF Wanted
  <2>9. Sending'
    BY <1>1, <1>2, <2>1, <2>2, <2>3, <2>4, <2>5, <2>6, <2>7, <2>8 DEF Sending, Unconnected
  <2> QED
    BY <2>9 DEF Sends
<1>18. CASE T!onSocketError
  <2>1. ~t.call.all
    BY <1>0, <1>2, CallIs DEF ToolMembers
  <2>2. t.channel = t.call.channel
    BY <2>1 DEF Course
  <2>3. ~Healthy
    BY <1>18, <2>2 DEF T!onSocketError, T!Reachable, Course, Healthy, T!Named
  <2>4. UNCHANGED <<onBus, trouble>>
    BY <1>18 DEF T!onSocketError, T!outside, T!history
  <2>5. CASE t' = T!quit(t)
    BY <1>4, <2>3, <2>4, <2>5
  <2>6. CASE t' = [t EXCEPT !.sock = "down"]
    <3>1. /\ t'.in = t.in /\ t'.id = t.id /\ t'.dlc = t.dlc /\ t'.loop = t.loop /\ t'.timers = t.timers
          /\ t'.sock = "down" /\ ~Healthy'
      BY <1>0, <1>1, <2>3, <2>4, <2>6 DEF ToolMembers, Healthy
    <3> QED
      BY <1>1, <1>2, <2>4, <3>1, SendsKept DEF Unconnected
  <2> QED
    BY <1>18, <2>5, <2>6 DEF T!onSocketError
<1>19. ASSUME NEW orderly \in BOOLEAN, T!SocketLost(orderly)
       PROVE  Sends'
  <2>1. ~Healthy /\ UNCHANGED <<onBus, trouble>>
    BY <1>19 DEF T!SocketLost, Course, T!outside, T!history
  <2>2. CASE t' = T!quit(t)
    BY <1>4, <2>1, <2>2
  <2>3. CASE t' = [t EXCEPT !.sock = "down", !.count = IF T!Tool = "send" THEN 0 ELSE @]
    <3>1. /\ t'.in = t.in /\ t'.id = t.id /\ t'.dlc = t.dlc /\ t'.loop = t.loop /\ t'.timers = t.timers
          /\ t'.sock = "down" /\ ~Healthy'
      BY <1>0, <1>1, <2>1, <2>3 DEF ToolMembers, Healthy
    <3> QED
      BY <1>1, <1>2, <2>1, <3>1, SendsKept DEF Unconnected
  <2> QED
    BY <1>19, <2>2, <2>3 DEF T!SocketLost
<1>20. CASE T!StartSending
  <2>1. /\ t.call.tool = "send" /\ "send" \in t.timers /\ t.running /\ onBus' = T!Written(t.id, t.dlc)
        /\ t' = [t EXCEPT !.timers = t.timers \ {"send"}, !.loop = TRUE] /\ trouble' = trouble
    BY <1>0, <1>20 DEF T!StartSending, T!Fires, T!Fired, T!App, T!Tool, T!outside, ToolMembers
  <2>2. onBus = <<>> /\ Len(onBus) = 0 /\ t.id = t.call.id /\ t.dlc = t.call.dlc
        /\ (t.sock = "up" => t.count = t.call.count)
    BY <1>2, <2>1 DEF Sending
  <2>3. t.id = Nth(1).id /\ t.dlc = Nth(1).dlc /\ t.call.count \in Nat
    BY <1>0, <2>2, FirstIs, ToolsAssumption DEF CallType
  <2>4. /\ onBus' \in Seq(Message) /\ Len(onBus') = (IF t.sock = "up" THEN 1 ELSE 0)
        /\ Len(onBus') <= Wanted /\ \A k \in 1 .. Len(onBus') : onBus'[k] = Nth(k)
    <3>1. Len(onBus) + 1 = 1
      BY <2>2
    <3>2. t.sock = "up" => Len(onBus) < Wanted /\ t.id = Nth(Len(onBus) + 1).id /\ t.dlc = Nth(Len(onBus) + 1).dlc
      BY <1>2, <2>2, <2>3, <3>1
    <3> QED
      BY <1>0, <1>2, <2>1, <2>2, <3>2, OneMoreSent
  <2>5. /\ t'.in = t.in /\ t'.id = t.id /\ t'.dlc = t.dlc /\ t'.loop = TRUE /\ t'.timers = t.timers \ {"send"}
        /\ t'.sock = t.sock /\ t'.count = t.count /\ t'.running = t.running
    BY <1>0, <2>1 DEF ToolMembers
  <2>6. Wanted' = Wanted /\ Healthy' = Healthy /\ \A k : Nth(k)' = Nth(k)
    BY <1>1, <2>1 DEF Wanted, Healthy, Nth
  <2>7. t.sock \notin Unconnected
    BY <2>1 DEF Course
  <2>8. ~(Healthy /\ "quit" \in t.timers)
    BY <1>2, <1>3, <2>2
  <2>9. Sending'
    <3>1. /\ onBus' \in Seq(Message) /\ Len(onBus') <= Wanted'
          /\ \A k \in 1 .. Len(onBus') : onBus'[k] = Nth(k)'
          /\ t'.in = <<>> /\ "activity" \notin t'.timers
      BY <1>2, <2>4, <2>5, <2>6
    <3>2. ~(t'.sock \in Unconnected \/ (t'.call.tool = "send" /\ "send" \in t'.timers))
      BY <2>5, <2>7
    <3>3. t'.loop /\ t'.sock = "up" =>
            /\ Len(onBus') = IF t'.call.count = 0 THEN 1 ELSE t'.call.count - t'.count + 1
            /\ Len(onBus') \in 1 .. Wanted' /\ (t'.call.count = 0 => t'.count = 0)
            /\ t'.id = Nth(1)'.id /\ t'.dlc = Nth(1)'.dlc
      BY <1>1, <1>2, <2>2, <2>3, <2>4, <2>5, <2>6
    <3>4. t'.loop /\ t'.sock = "up" => Len(onBus') = 1
      BY <2>4, <2>5
    <3>5. t'.call.tool # "error" /\ ~(Healthy' /\ ("quit" \in t'.timers \/ ~t'.running))
      BY <1>1, <2>1, <2>5, <2>6, <2>8
    <3> QED
      BY <3>1, <3>2, <3>3, <3>4, <3>5 DEF Sending
  <2> QED
    BY <2>9 DEF Sends
<1>21. CASE T!SendNext
  <2>1. PICK id, dlc :
          /\ id = IF "I" \in t.call.inc THEN T!Incremented(t.id, IdLimit) ELSE t.id
          /\ dlc = IF "D" \in t.call.inc THEN T!Incremented(t.dlc, DlcLimit) ELSE t.dlc
    OBVIOUS
  <2>2. /\ t.loop /\ t.count > 1 /\ onBus' = T!Written(id, dlc) /\ trouble' = trouble
        /\ t' = [t EXCEPT !.count = @ - 1, !.id = id, !.dlc = dlc]
    BY <1>21, <2>1 DEF T!SendNext, T!outside
  <2>3. t.running /\ t.call.tool = "send" /\ t.sock \notin Unconnected /\ "send" \notin t.timers
    BY <1>2, <2>2 DEF Course, Sending
  <2>4. t.count \in Nat /\ t.call.count \in Nat
    BY <1>0, ToolsAssumption DEF ToolMembers, CallType
  <2>5. t.sock = "up" =>
          /\ Len(onBus) = t.call.count - t.count + 1 /\ Len(onBus) \in 1 .. Wanted /\ Len(onBus) + 1 \in 1 .. Wanted
          /\ t.call.count > 0 /\ t.id = Nth(Len(onBus)).id /\ t.dlc = Nth(Len(onBus)).dlc
    <3>1. Wanted = IF t.call.count = 0 THEN 1 ELSE t.call.count
      BY DEF Wanted, T!Least
    <3> QED
      BY <1>2, <2>2, <2>4, <3>1 DEF Sending
  <2>6. t.sock = "up" => id = Nth(Len(onBus) + 1).id /\ dlc = Nth(Len(onBus) + 1).dlc
    <3>1. PICK k : k = Len(onBus)
      OBVIOUS
    <3>2. t.sock = "up" => k \in Nat /\ k \in 1 .. Wanted /\ k + 1 \in 1 .. Wanted
      BY <2>5, <3>1
    <3> QED
      BY <1>0, <2>1, <2>5, <3>1, <3>2, NextIs
  <2>7. /\ onBus' \in Seq(Message) /\ Len(onBus') = Len(onBus) + (IF t.sock = "up" THEN 1 ELSE 0)
        /\ Len(onBus') <= Wanted /\ \A k \in 1 .. Len(onBus') : onBus'[k] = Nth(k)
    <3>1. t.sock = "up" => Len(onBus) < Wanted
      BY <1>2, <2>5
    <3> QED
      BY <1>0, <1>2, <2>2, <2>6, <3>1, OneMoreSent
  <2>8. /\ t'.in = t.in /\ t'.id = id /\ t'.dlc = dlc /\ t'.loop = TRUE /\ t'.timers = t.timers
        /\ t'.sock = t.sock /\ t'.count = t.count - 1 /\ t'.running = TRUE
    BY <1>0, <2>2, <2>3 DEF ToolMembers
  <2>9. Wanted' = Wanted /\ Healthy' = Healthy /\ \A k : Nth(k)' = Nth(k)
    BY <1>1, <2>2 DEF Wanted, Healthy, Nth
  <2>10. ~(Healthy /\ "quit" \in t.timers)
    <3>1. Healthy => t.sock = "up"
      BY <1>0, <2>3 DEF Course, Unconnected, ToolMembers
    <3> QED
      BY <1>2, <1>3, <2>5, <3>1
  <2>11. Sending'
    <3>1. /\ onBus' \in Seq(Message) /\ Len(onBus') <= Wanted'
          /\ \A k \in 1 .. Len(onBus') : onBus'[k] = Nth(k)'
          /\ t'.in = <<>> /\ "activity" \notin t'.timers
      BY <1>2, <2>7, <2>8, <2>9
    <3>2. ~(t'.sock \in Unconnected \/ (t'.call.tool = "send" /\ "send" \in t'.timers))
      BY <2>3, <2>8
    <3>3. t'.loop /\ t'.sock = "up" =>
            /\ Len(onBus') = IF t'.call.count = 0 THEN 1 ELSE t'.call.count - t'.count + 1
            /\ Len(onBus') \in 1 .. Wanted' /\ (t'.call.count = 0 => t'.count = 0)
      BY <1>1, <1>2, <2>4, <2>5, <2>7, <2>8, <2>9
    <3>4. t'.loop /\ t'.sock = "up" => t'.id = Nth(Len(onBus))'.id /\ t'.dlc = Nth(Len(onBus))'.dlc
      <4>1. t'.sock = "up" => Len(onBus') = Len(onBus) + 1
        BY <2>7, <2>8
      <4> QED
        BY <2>6, <2>8, <2>9, <4>1
    <3>5. t'.call.tool # "error" /\ ~(Healthy' /\ ("quit" \in t'.timers \/ ~t'.running))
      BY <1>1, <2>3, <2>8, <2>9, <2>10
    <3> QED
      BY <3>1, <3>2, <3>3, <3>4, <3>5 DEF Sending
  <2> QED
    BY <2>11 DEF Sends
<1>22. CASE T!SendingDone
  <2>1. /\ t.loop /\ t.count <= 1 /\ UNCHANGED <<onBus, trouble>>
        /\ t' = [t EXCEPT !.loop = FALSE, !.timers = @ \cup {"quit"}]
    BY <1>22 DEF T!SendingDone, T!outside, T!history
  <2>2. t.running /\ t.sock \notin Unconnected /\ (Healthy => t.sock = "up")
    BY <1>0, <2>1 DEF Course, Unconnected, ToolMembers
  <2>3. t.count \in Nat /\ t.call.count \in Nat /\ Wanted = IF t.call.count = 0 THEN 1 ELSE t.call.count
    BY <1>0, ToolsAssumption DEF ToolMembers, CallType, Wanted, T!Least
  <2>4. Healthy => Len(onBus) = Wanted
    BY <1>2, <2>1, <2>2, <2>3 DEF Sending
  <2>5. /\ t'.in = t.in /\ t'.id = t.id /\ t'.dlc = t.dlc /\ t'.loop = FALSE
        /\ t'.timers = t.timers \cup {"quit"} /\ t'.sock = t.sock /\ t'.count = t.count
    BY <1>0, <2>1 DEF ToolMembers
  <2>6. Healthy' = Healthy
    BY <1>1, <2>1 DEF Healthy
  <2> QED
    BY <1>1, <1>2, <2>1, <2>4, <2>5, <2>6, SendsKept
<1>23. CASE T!WriteFails
  <2>1. ~Healthy
    BY <1>23 DEF T!WriteFails, Course
  <2> QED
    BY <1>4, <1>23, <2>1 DEF T!WriteFails, T!outside, T!history
<1>24. CASE T!sendErrorFrame
  <2>1. /\ t.call.tool = "error" /\ "send" \in t.timers /\ t.running /\ ~t.loop /\ trouble' = trouble
        /\ onBus' = T!Written(t.id, t.dlc)
    BY <1>24 DEF T!sendErrorFrame, T!Fires, T!App, T!Tool, T!outside
  <2>2. /\ t.count \in Nat /\ t.call.count \in Nat /\ Wanted = IF t.call.count = 0 THEN 1 ELSE t.call.count
        /\ Len(onBus) \in Nat
    BY <1>0, <1>2, ToolsAssumption DEF ToolMembers, CallType, Wanted, T!Least, Sending
  <2>3. /\ t.id = t.call.id /\ t.dlc = t.call.dlc
        /\ t.sock = "up" => Len(onBus) + t.count = t.call.count /\ (t.call.count > 0 => t.count > 0)
    BY <1>2, <2>1 DEF Sending
  <2>4. t.sock \notin Unconnected /\ (Healthy => t.sock = "up")
    BY <1>0, <2>1 DEF Course, Unconnected, ToolMembers
  <2>5. t.sock = "up" => Len(onBus) < Wanted
    BY <2>2, <2>3
  <2>6. ~(Healthy /\ "quit" \in t.timers)
    <3> SUFFICES ASSUME Healthy, "quit" \in t.timers PROVE FALSE
      OBVIOUS
    <3>1. Len(onBus) = Wanted /\ Len(onBus) < Wanted
      BY <1>3, <2>4, <2>5
    <3> QED
      BY <1>2, <3>1
  <2>7. t.sock = "up" => t.id = Nth(Len(onBus) + 1).id /\ t.dlc = Nth(Len(onBus) + 1).dlc
    <3>1. t.call.inc = {}
      BY <1>0, <2>1, CallIs DEF ToolMembers
    <3>2. t.sock = "up" => Len(onBus) + 1 \in 1 .. Wanted
      BY <1>2, <2>2, <2>5
    <3> QED
      BY <1>0, <2>3, <3>1, <3>2, NthIs
  <2>8. /\ onBus' \in Seq(Message) /\ Len(onBus') = Len(onBus) + (IF t.sock = "up" THEN 1 ELSE 0)
        /\ Len(onBus') <= Wanted /\ \A k \in 1 .. Len(onBus') : onBus'[k] = Nth(k)
    BY <1>0, <1>2, <2>1, <2>5, <2>7, OneMoreSent
  <2>9. Wanted' = Wanted /\ Healthy' = Healthy /\ \A k : Nth(k)' = Nth(k)
    BY <1>1, <2>1 DEF Wanted, Healthy, Nth
  <2>10. /\ t'.in = t.in /\ t'.id = t.id /\ t'.dlc = t.dlc /\ t'.loop = FALSE /\ t'.sock = t.sock
         /\ t'.running = TRUE
         /\ \/ t.count > 1 /\ t'.timers = t.timers /\ t'.count = t.count - 1
            \/ ~(t.count > 1) /\ t'.timers = (t.timers \ {"send"}) \cup {"quit"} /\ t'.count = t.count
    <3>1. CASE t.count > 1
      BY <1>0, <1>24, <2>1, <3>1 DEF T!sendErrorFrame, ToolMembers
    <3>2. CASE ~(t.count > 1)
      BY <1>0, <1>24, <2>1, <3>2 DEF T!sendErrorFrame, T!Fired, ToolMembers
    <3> QED
      BY <3>1, <3>2
  <2>11. Sending'
    <3>1. /\ onBus' \in Seq(Message) /\ Len(onBus') <= Wanted'
          /\ \A k \in 1 .. Len(onBus') : onBus'[k] = Nth(k)'
          /\ t'.in = <<>> /\ "activity" \notin t'.timers
      BY <1>2, <2>8, <2>9, <2>10
    <3>2. ~(t'.sock \in Unconnected \/ (t'.call.tool = "send" /\ "send" \in t'.timers)) /\ ~t'.loop
      BY <1>1, <2>1, <2>4, <2>10
    <3>3. /\ t'.id = t'.call.id /\ t'.dlc = t'.call.dlc
          /\ "send" \in t'.timers /\ t'.sock = "up" =>
               Len(onBus') + t'.count = t'.call.count /\ (t'.call.count > 0 => t'.count > 0)
      <4>1. CASE t.count > 1
        <5>1. t.sock = "up" => Len(onBus') = Len(onBus) + 1 /\ t'.count = t.count - 1 /\ t'.count > 0
          BY <2>2, <2>8, <2>10, <4>1
        <5>2. t.sock = "up" => Len(onBus') + t'.count = t.call.count
          <6> SUFFICES ASSUME t.sock = "up" PROVE Len(onBus') + t'.count = t.call.count
            OBVIOUS
          <6>1. PICK a, b : a = Len(onBus') /\ b = t'.count
            OBVIOUS
          <6>2. a = Len(onBus) + 1 /\ b = t.count - 1 /\ Len(onBus) + t.count = t.call.count
            BY <2>3, <5>1, <6>1
          <6>3. a + b = t.call.count
            BY <2>2, <6>2
          <6> QED
            BY <6>1, <6>3
        <5> QED
          BY <1>1, <2>3, <2>10, <5>1, <5>2
      <4>2. CASE ~(t.count > 1)
        BY <1>1, <2>3, <2>10, <4>2
      <4> QED
        BY <4>1, <4>2
    <3>4. Healthy' /\ ("quit" \in t'.timers \/ ~t'.running) => Len(onBus') = Wanted'
      BY <2>2, <2>3, <2>4, <2>6, <2>8, <2>9, <2>10
    <3> QED
      BY <3>1, <3>2, <3>3, <3>4 DEF Sending
  <2> QED
    BY <2>11 DEF Sends
<1>25. CASE T!onSocketReceive
  BY <1>2, <1>25 DEF T!onSocketReceive
<1>26. CASE T!TimeToQuit
  <2>1. "quit" \in t.timers \/ "activity" \in t.timers
    BY <1>26 DEF T!TimeToQuit, T!Fires
  <2> QED
    BY <1>2, <1>4, <1>26, <2>1 DEF T!TimeToQuit, T!outside, T!history
<1> QED
  BY <1>5, <1>6, <1>7, <1>9, <1>10, <1>11, <1>12, <1>13, <1>14, <1>15, <1>16, <1>17, <1>18,
     <1>19, <1>20, <1>21, <1>22, <1>23, <1>24, <1>25, <1>26 DEF T!Next, T!ToolStep

------------------------------------------------------------------------------
(* can-dump: what has been printed, and what waits.                        *)
(* ulQuitCountP, after so many frames have been printed.                   *)
LeftToPrint(count, asked, printed) ==
  /\ asked > 0 => printed < asked /\ count = asked - printed
  /\ asked = 0 => count = IF printed = 0 THEN 0 ELSE CountWidth - printed

(* What can-dump has printed, and what has arrived for it.                 *)
Dumping ==
  /\ shown \in Seq(Frames) /\ shown \o T!Passed(t.in) = T!Passed(due)
  /\ t.timers \subseteq {"parse", "activity"} /\ ("activity" \in t.timers => t.call.time)
  /\ t.running => LeftToPrint(t.count, t.call.count, Len(shown))
  /\ Healthy /\ ~t.running /\ ~t.call.time => t.call.count \in 1 .. Len(shown)
Dumps == t.call.tool = "dump" => Dumping

LEMMA SplitAt ==
  ASSUME NEW A, NEW s \in Seq(A), NEW n \in 1 .. Len(s)
  PROVE  /\ SubSeq(s, 1, n) \in Seq(A) /\ SubSeq(s, n + 1, Len(s)) \in Seq(A)
         /\ s = Joined(SubSeq(s, 1, n), SubSeq(s, n + 1, Len(s)))
<1>1. SubSeq(s, 1, n) \in Seq(A) /\ SubSeq(s, n + 1, Len(s)) \in Seq(A)
  OBVIOUS
<1>2. PICK a \in Seq(A) : a = SubSeq(s, 1, n)
  BY <1>1
<1>3. PICK b \in Seq(A) : b = SubSeq(s, n + 1, Len(s))
  BY <1>1
<1>4. Len(a) = n /\ \A k \in 1 .. n : a[k] = s[k]
  BY <1>2
<1>5. Len(b) = Len(s) - n /\ \A k \in 1 .. Len(s) - n : b[k] = s[n + k]
  BY <1>3
<1>6. PICK x \in Seq(A) : x = a \o b
  <2>1. a \o b \in Seq(A)
    OBVIOUS
  <2> QED
    BY <2>1
<1>7. Len(x) = Len(s)
  <2>1. Len(x) = Len(a) + Len(b)
    BY <1>6
  <2>2. Len(a) = n /\ Len(b) = Len(s) - n /\ Len(s) \in Nat /\ n \in Nat
    BY <1>4, <1>5
  <2> QED
    BY <2>1, <2>2
<1>8. ASSUME NEW k \in 1 .. Len(s) PROVE x[k] = s[k]
  <2>1. CASE k <= n
    BY <1>4, <1>6, <2>1
  <2>2. CASE ~(k <= n)
    <3>1. k - n \in 1 .. Len(s) - n /\ n + (k - n) = k
      BY <2>2
    <3>2. x[k] = b[k - n]
      BY <1>4, <1>5, <1>6, <2>2
    <3>3. b[k - n] = s[n + (k - n)]
      BY <1>5, <3>1
    <3> QED
      BY <3>1, <3>2, <3>3
  <2> QED
    BY <2>1, <2>2
<1>9. x = s
  BY <1>7, <1>8, SameSequence
<1> QED
  BY <1>1, <1>2, <1>3, <1>6, <1>9 DEF Joined

LEMMA JoinedType ==
  ASSUME NEW A, NEW s \in Seq(A), NEW x \in Seq(A)
  PROVE  Joined(s, x) \in Seq(A) /\ Len(Joined(s, x)) = Len(s) + Len(x)
BY DEF Joined

LEMMA JoinedThrice ==
  ASSUME NEW A, NEW s \in Seq(A), NEW x \in Seq(A), NEW y \in Seq(A)
  PROVE  Joined(Joined(s, x), y) = Joined(s, Joined(x, y))
<1>0. s \o x \in Seq(A) /\ x \o y \in Seq(A)
  OBVIOUS
<1>9. (s \o x) \o y \in Seq(A) /\ s \o (x \o y) \in Seq(A)
  BY <1>0
<1>1. PICK l \in Seq(A) : l = (s \o x) \o y
  BY <1>9
<1>2. PICK r \in Seq(A) : r = s \o (x \o y)
  BY <1>9
<1>3. Len(l) = Len(s) + Len(x) + Len(y) /\ Len(r) = Len(l)
  BY <1>1, <1>2
<1>4. ASSUME NEW k \in 1 .. Len(l) PROVE l[k] = r[k]
  <2>1. CASE k <= Len(s)
    BY <1>1, <1>2, <1>3, <2>1
  <2>2. CASE k > Len(s) /\ k <= Len(s) + Len(x)
    BY <1>1, <1>2, <1>3, <2>2
  <2>3. CASE k > Len(s) + Len(x)
    BY <1>1, <1>2, <1>3, <2>3
  <2> QED
    BY <1>3, <2>1, <2>2, <2>3
<1>5. l = r
  BY <1>3, <1>4, SameSequence
<1> QED
  BY <1>1, <1>2, <1>5 DEF Joined

LEMMA CountsDown ==
  ASSUME NEW asked \in 0 .. CountWidth - 1, NEW before \in Nat, NEW p \in Nat,
         before + p < CountWidth, NEW count \in Nat, LeftToPrint(count, asked, before)
  PROVE  IF count \in 1 .. p THEN asked \in 1 .. before + p
         ELSE LeftToPrint((count - p) % CountWidth, asked, before + p)
<1>0. CountWidth \in Nat \ {0}
  BY ToolsAssumption
<1> USE DEF LeftToPrint
<1>1. ASSUME NEW a \in 0 .. CountWidth - 1 PROVE a % CountWidth = a
  BY <1>0
<1>2. ASSUME NEW a \in 1 .. CountWidth - 1 PROVE (-a) % CountWidth = CountWidth - a
  <2>1. -a = CountWidth * (-1) + (CountWidth - a)
    BY <1>0
  <2> QED
    BY <1>0, <2>1
<1>3. CASE asked > 0
  <2>1. count = asked - before /\ count > 0
    BY <1>3
  <2>2. count \notin 1 .. p => count - p \in 0 .. CountWidth - 1 /\ before + p < asked /\ count - p = asked - (before + p)
    BY <1>0, <1>3, <2>1
  <2>3. count \notin 1 .. p => (count - p) % CountWidth = count - p
    BY <1>1, <2>2
  <2> QED
    BY <1>0, <1>3, <2>1, <2>2, <2>3
<1>4. CASE asked = 0
  <2>1. count \notin 1 .. p
    BY <1>0, <1>4
  <2>2. (count - p) % CountWidth = IF before + p = 0 THEN 0 ELSE CountWidth - (before + p)
    <3>1. CASE before = 0 /\ p = 0
      <4>1. count - p = 0 /\ 0 \in 0 .. CountWidth - 1
        BY <1>0, <1>4, <3>1
      <4> QED
        BY <1>1, <3>1, <4>1
    <3>2. CASE before = 0 /\ p > 0
      <4>1. count - p = -p /\ p \in 1 .. CountWidth - 1
        BY <1>0, <1>4, <3>2
      <4> QED
        BY <1>2, <3>2, <4>1
    <3>3. CASE before > 0
      <4>1. count - p = CountWidth - (before + p) /\ count - p \in 0 .. CountWidth - 1
        BY <1>0, <1>4, <3>3
      <4> QED
        BY <1>1, <3>3, <4>1
    <3> QED
      BY <3>1, <3>2, <3>3
  <2> QED
    BY <1>4, <2>1, <2>2
<1> QED
  BY <1>3, <1>4

LEMMA DumpsStart ==
  ASSUME T!Init
  PROVE  Dumps
<1>1. PICK call \in MCCalls : t = T!New(call)
  BY DEF T!Init
<1>2. /\ t.call = call /\ t.running = TRUE /\ t.timers = {"parse"} /\ t.in = <<>>
      /\ t.count = call.count /\ due = <<>> /\ shown = <<>>
  BY <1>1 DEF T!New, T!Init
<1>3. call \in CallType
  BY CallIs
<1>4. call.count \in Nat
  BY <1>3, ToolsAssumption DEF CallType
<1>5. T!Passed(<<>>) = <<>>
  BY OnlyIs, OnlyNone
<1>6. shown \in Seq(Frames) /\ Len(shown) = 0 /\ shown \o <<>> = <<>>
  BY <1>2
<1> QED
  BY <1>2, <1>4, <1>5, <1>6 DEF Dumps, Dumping, LeftToPrint

LEMMA DumpsKept ==
  ASSUME Dumping, due' = due, shown' = shown, t'.call = t.call, t'.in = t.in, t'.count = t.count,
         t'.timers \subseteq {"parse", "activity"}, "activity" \in t'.timers => t.call.time,
         t'.running => t.running,
         Healthy' /\ ~t'.running /\ ~t.call.time => t.call.count \in 1 .. Len(shown)
  PROVE  Dumps'
BY DEF Dumps, Dumping

LEMMA DumpsReceive ==
  ASSUME ToolTypes, Dumping, T!onSocketReceive, Healthy' = Healthy, t'.call = t.call
  PROVE  Dumps'
<1>0. t \in ToolMembers /\ t.call \in CallType /\ t.running
  BY CallIs DEF ToolTypes, ToolMembers, T!onSocketReceive, T!App
<1>1. t.in \in Seq(Frames) /\ due \in Seq(Frames) /\ shown \in Seq(Frames) /\ Taken \in 1 .. Len(t.in)
  BY <1>0, TakenIs DEF ToolTypes, T!onSocketReceive, ToolMembers, Dumping
<1>2. PICK first \in Seq(Frames), left \in Seq(Frames) :
        /\ first = SubSeq(t.in, 1, Taken) /\ left = SubSeq(t.in, Taken + 1, Len(t.in))
        /\ t.in = Joined(first, left)
  <2>1. PICK s \in Seq(Frames), n \in 1 .. Len(t.in) : s = t.in /\ n = Taken
    BY <1>1
  <2>2. n \in 1 .. Len(s)
    BY <2>1
  <2>3. /\ SubSeq(s, 1, n) \in Seq(Frames) /\ SubSeq(s, n + 1, Len(s)) \in Seq(Frames)
        /\ s = Joined(SubSeq(s, 1, n), SubSeq(s, n + 1, Len(s)))
    BY <2>2, SplitAt
  <2> QED
    BY <2>1, <2>3
<1>3. PICK printed \in Seq(Frames), rest \in Seq(Frames), all \in Seq(Frames) :
        /\ printed = Only(first, T!Passing) /\ rest = Only(left, T!Passing) /\ all = Only(due, T!Passing)
  BY <1>1, <1>2, OnlyType
<1>4. PICK count : count = (t.count - Len(printed)) % CountWidth
  OBVIOUS
<1>5. PICK d : /\ d = [t EXCEPT !.in = left, !.count = count]
               /\ t' = IF t.count \in 1 .. Len(printed) THEN T!quit(d) ELSE d
               /\ shown' = shown \o printed /\ due' = due
  <2>1. printed = T!Passed(SubSeq(t.in, 1, Taken))
    BY <1>2, <1>3, OnlyIs
  <2> QED
    BY <1>2, <1>4, <2>1 DEF T!onSocketReceive, Taken
<1>6. Joined(shown, Joined(printed, rest)) = all
  <2>1. shown \o T!Passed(t.in) = T!Passed(due)
    BY DEF Dumping
  <2>2. Only(Joined(first, left), T!Passing) = Joined(printed, rest)
    <3>1. Only(Joined(first, left), T!Passing) = Joined(Only(first, T!Passing), Only(left, T!Passing))
      BY OnlyBoth
    <3> QED
      BY <1>3, <3>1
  <2>3. T!Passed(t.in) = Joined(printed, rest) /\ T!Passed(due) = all
    BY <1>2, <1>3, <2>2, OnlyIs
  <2> QED
    BY <2>1, <2>3 DEF Joined
<1>7. shown' = Joined(shown, printed)
  BY <1>5 DEF Joined
<1>8. Joined(shown', rest) = all
  <2>1. Joined(Joined(shown, printed), rest) = Joined(shown, Joined(printed, rest))
    BY <1>1, <1>3, JoinedThrice
  <2> QED
    BY <1>6, <1>7, <2>1
<1>9. shown' \in Seq(Frames) /\ Len(shown') = Len(shown) + Len(printed)
  BY <1>1, <1>3, <1>7, JoinedType
<1>10. /\ Len(shown) \in Nat /\ Len(printed) \in Nat /\ CountWidth \in Nat /\ t.count \in Nat
       /\ t.call.count \in 0 .. CountWidth - 1
  <2>1. Len(shown) \in Nat /\ Len(printed) \in Nat
    BY <1>1, <1>3
  <2>2. CountWidth \in Nat /\ t.count \in Nat /\ t.call.count \in 0 .. CountWidth - 1
    BY <1>0, ToolsAssumption DEF ToolMembers, CallType
  <2> QED
    BY <2>1, <2>2
<1>11. Len(shown) + Len(printed) < CountWidth
  <2>1. Len(shown') + Len(rest) = Len(all)
    <3>1. Len(Joined(shown', rest)) = Len(shown') + Len(rest)
      BY <1>3, <1>9, JoinedType
    <3> QED
      BY <1>8, <3>1
  <2>2. Len(all) <= Len(due)
    BY <1>1, <1>3, OnlyLength
  <2>3. Len(due) <= MaxFrames /\ MaxFrames < CountWidth /\ MaxFrames \in Nat
    BY ToolsAssumption DEF ToolTypes
  <2>4. Len(rest) \in Nat /\ Len(all) \in Nat /\ Len(due) \in Nat
    BY <1>1, <1>3
  <2> QED
    BY <1>9, <1>10, <2>1, <2>2, <2>3, <2>4
<1>12. LeftToPrint(t.count, t.call.count, Len(shown))
  BY <1>0 DEF Dumping
<1>13. IF t.count \in 1 .. Len(printed) THEN t.call.count \in 1 .. Len(shown')
       ELSE LeftToPrint(count, t.call.count, Len(shown'))
  BY <1>4, <1>9, <1>10, <1>11, <1>12, CountsDown
<1>14. /\ t'.in = left /\ t'.timers = t.timers /\ t'.call = t.call
       /\ IF t.count \in 1 .. Len(printed) THEN ~t'.running ELSE t'.running /\ t'.count = count
  <2>1. CASE t.count \in 1 .. Len(printed)
    BY <1>0, <1>5, <2>1 DEF T!quit, ToolMembers
  <2>2. CASE ~(t.count \in 1 .. Len(printed))
    BY <1>0, <1>5, <2>2 DEF ToolMembers
  <2> QED
    BY <2>1, <2>2
<1>15. shown' \o T!Passed(t.in)' = T!Passed(due)'
  <2>1. T!Passed(t'.in) = rest /\ T!Passed(due') = all
    BY <1>3, <1>5, <1>14, OnlyIs
  <2> QED
    BY <1>8, <2>1 DEF Joined
<1>16. Dumping'
  BY <1>9, <1>13, <1>14, <1>15 DEF Dumping
<1> QED
  BY <1>16 DEF Dumps

LEMMA DumpsStep ==
  ASSUME ToolTypes, Course, Dumps, T!Next
  PROVE  Dumps'
<1>0. t \in ToolMembers /\ t.call \in CallType
  BY CallIs DEF ToolTypes, ToolMembers
<1>1. t'.call = t.call
  BY CallKept
<1> SUFFICES ASSUME t.call.tool = "dump" PROVE Dumps'
  BY <1>1 DEF Dumps
<1>2. /\ Dumping /\ t.timers \subseteq {"parse", "activity"} /\ ("activity" \in t.timers => t.call.time)
      /\ ~t.loop /\ ~t.call.all
  <2>1. ~t.call.all
    BY <1>0, CallIs DEF ToolMembers
  <2> QED
    BY <2>1 DEF Dumps, Dumping, Course
<1>3. Healthy /\ ~t.running /\ ~t.call.time => t.call.count \in 1 .. Len(shown)
  BY <1>2 DEF Dumping
<1>4. ASSUME UNCHANGED <<due, shown, trouble>>, t'.in = t.in, t'.count = t.count, t'.timers = t.timers,
             t'.running => t.running, ~t'.running => ~Healthy \/ t.call.time \/ ~t.running
      PROVE  Dumps'
  <2>1. Healthy' = Healthy
    BY <1>1, <1>4 DEF Healthy
  <2> QED
    BY <1>1, <1>2, <1>3, <1>4, <2>1, DumpsKept
<1>5. ASSUME UNCHANGED <<due, shown, trouble>>, t' = T!quit(t), ~Healthy \/ t.call.time \/ ~t.running
      PROVE  Dumps'
  <2>1. t'.in = t.in /\ t'.count = t.count /\ t'.timers = t.timers /\ ~t'.running
    BY <1>0, <1>5 DEF T!quit, ToolMembers
  <2> QED
    BY <1>4, <1>5, <2>1
<1>6. CASE T!runCmdParser
  <2>1. t'.in = t.in /\ t'.count = t.count /\ t'.timers = t.timers \ {"parse"} /\ t'.running = t.running
    BY <1>0, <1>6 DEF T!runCmdParser, T!connectNetwork, T!Fired, ToolMembers
  <2>2. UNCHANGED <<due, shown, trouble>>
    BY <1>6 DEF T!runCmdParser, T!history, T!outside
  <2>3. Healthy' = Healthy
    BY <1>1, <2>2 DEF Healthy
  <2> QED
    BY <1>1, <1>2, <1>3, <2>1, <2>2, <2>3, DumpsKept
<1>7. CASE T!ServerChanges \/ T!NetworkChanges \/ T!ConnectionFails
  <2>1. t'.in = t.in /\ t'.count = t.count /\ t'.timers = t.timers /\ t'.running = t.running
    <3>1. CASE T!ServerChanges
      BY <1>0, <3>1 DEF T!ServerChanges, T!Broken, ToolMembers
    <3>2. CASE T!NetworkChanges
      BY <3>2 DEF T!NetworkChanges
    <3>3. CASE T!ConnectionFails
      BY <1>0, <3>3 DEF T!ConnectionFails, ToolMembers
    <3> QED
      BY <1>7, <3>1, <3>2, <3>3
  <2>2. UNCHANGED <<due, shown>> /\ trouble' = TRUE
    BY <1>7 DEF T!ServerChanges, T!NetworkChanges, T!ConnectionFails, T!history
  <2>3. ~Healthy'
    BY <2>2 DEF Healthy
  <2> QED
    BY <1>1, <1>2, <2>1, <2>2, <2>3, DumpsKept
<1>8. ASSUME NEW passes \in BOOLEAN, T!NetworkSends(passes)
      PROVE  Dumps'
  <2>1. due \in Seq(Frames) /\ t.in \in Seq(Frames) /\ shown \in Seq(Frames)
    BY <1>0, <1>2 DEF ToolTypes, ToolMembers, Dumping
  <2>2. PICK f \in Frames : f = [number |-> Len(due) + 1, passes |-> passes]
    <3>1. Len(due) + 1 \in Nat
      BY <2>1
    <3> QED
      BY <3>1 DEF Frames
  <2>3. /\ due' = Longer(due, f) /\ t' = [t EXCEPT !.in = Longer(@, f)] /\ t.running
        /\ UNCHANGED <<shown, trouble>>
    BY <1>8, <2>2 DEF T!NetworkSends, T!outside, Longer
  <2>4. t'.in = Longer(t.in, f) /\ t'.count = t.count /\ t'.timers = t.timers /\ t'.running
    BY <1>0, <2>3 DEF ToolMembers
  <2>5. PICK waits \in Seq(Frames), all \in Seq(Frames) :
          waits = Only(t.in, T!Passing) /\ all = Only(due, T!Passing)
    BY <2>1, OnlyType
  <2>6. Joined(shown, waits) = all
    <3>1. shown \o T!Passed(t.in) = T!Passed(due)
      BY <1>2 DEF Dumping
    <3> QED
      BY <2>5, <3>1, OnlyIs DEF Joined
  <2>7. /\ T!Passed(t'.in) = IF f \in T!Passing THEN Longer(waits, f) ELSE waits
        /\ T!Passed(due') = IF f \in T!Passing THEN Longer(all, f) ELSE all
    <3>1. Only(Longer(t.in, f), T!Passing) = IF f \in T!Passing THEN Longer(Only(t.in, T!Passing), f)
                                             ELSE Only(t.in, T!Passing)
      BY <2>1, OnlyOneMore
    <3>2. Only(Longer(due, f), T!Passing) = IF f \in T!Passing THEN Longer(Only(due, T!Passing), f)
                                            ELSE Only(due, T!Passing)
      BY <2>1, OnlyOneMore
    <3> QED
      BY <2>3, <2>4, <2>5, <3>1, <3>2, OnlyIs
  <2>8. Longer(Joined(shown, waits), f) = Joined(shown, Longer(waits, f))
    BY <2>1, <2>5, AppendBoth
  <2>9. shown' \o T!Passed(t'.in) = T!Passed(due')
    BY <2>3, <2>6, <2>7, <2>8 DEF Joined
  <2>10. Dumping'
    BY <1>1, <1>2, <2>3, <2>4, <2>9 DEF Dumping
  <2> QED
    BY <2>10 DEF Dumps
<1>9. CASE T!OtherAttaches
  BY <1>0, <1>4, <1>9 DEF T!OtherAttaches, T!outside, T!history, ToolMembers
<1>10. CASE T!ServerConnected
  BY <1>0, <1>4, <1>10 DEF T!ServerConnected, T!outside, T!history, ToolMembers
<1>11. CASE T!SettingsConnected
  BY <1>0, <1>4, <1>11 DEF T!SettingsConnected, T!outside, T!history, ToolMembers
<1>12. CASE T!SettingsGone
  BY <1>0, <1>4, <1>12 DEF T!SettingsGone, T!outside, T!history, ToolMembers
<1>13. CASE T!onServerStateChanged
  <2>1. ~Healthy
    BY <1>13 DEF T!onServerStateChanged, Course, Healthy
  <2> QED
    BY <1>5, <1>13, <2>1 DEF T!onServerStateChanged, T!outside, T!history
<1>14. CASE T!onServerObjectReceived
  <2>1. t.channel = t.call.channel
    BY <1>2 DEF Course
  <2>2. /\ t'.in = t.in /\ t'.count = t.count /\ t'.timers = t.timers
        /\ t'.running = (t.running /\ t.channel <= NetworkCount)
    <3>1. CASE t.channel <= NetworkCount
      BY <1>0, <1>14, <3>1 DEF T!onServerObjectReceived, T!App, ToolMembers
    <3>2. CASE ~(t.channel <= NetworkCount)
      BY <1>0, <1>14, <3>2 DEF T!onServerObjectReceived, T!quit, ToolMembers
    <3> QED
      BY <3>1, <3>2
  <2>3. UNCHANGED <<due, shown, trouble>>
    BY <1>14 DEF T!onServerObjectReceived, T!outside, T!history
  <2> QED
    BY <1>2, <1>4, <2>1, <2>2, <2>3 DEF Healthy, T!Named
<1>15. CASE T!AttachSocket
  BY <1>0, <1>4, <1>15 DEF T!AttachSocket, T!Object, T!connectNetwork, T!outside, T!history, ToolMembers
<1>16. CASE T!ExecCommand \/ T!ShowSettings \/ T!StartSending \/ T!sendErrorFrame
  BY <1>16 DEF T!ExecCommand, T!ShowSettings, T!StartSending, T!sendErrorFrame, T!Tool
<1>17. CASE T!SendNext \/ T!SendingDone \/ T!WriteFails
  BY <1>2, <1>17 DEF T!SendNext, T!SendingDone, T!WriteFails
<1>18. CASE T!onSocketConnected
  <2>1. t'.in = t.in /\ t'.count = t.count /\ t'.running = t.running
        /\ t'.timers = t.timers \cup (IF t.call.time THEN {"activity"} ELSE {})
    BY <1>0, <1>18 DEF T!onSocketConnected, T!Tool, ToolMembers
  <2>2. UNCHANGED <<due, shown, trouble>>
    BY <1>18 DEF T!onSocketConnected, T!history, T!outside
  <2>3. Healthy' = Healthy
    BY <1>1, <2>2 DEF Healthy
  <2>4. t'.timers \subseteq {"parse", "activity"} /\ ("activity" \in t'.timers => t.call.time)
    BY <1>2, <2>1
  <2> QED
    BY <1>1, <1>2, <1>3, <2>1, <2>2, <2>3, <2>4, DumpsKept
<1>19. CASE T!onSocketError
  <2>1. t.channel = t.call.channel
    BY <1>2 DEF Course
  <2>2. ~Healthy
    BY <1>19, <2>1 DEF T!onSocketError, T!Reachable, Course, Healthy
  <2>3. t' = T!quit(t) /\ UNCHANGED <<due, shown, trouble>>
    BY <1>19 DEF T!onSocketError, T!Tool, T!outside, T!history
  <2> QED
    BY <1>5, <2>2, <2>3
<1>20. ASSUME NEW orderly \in BOOLEAN, T!SocketLost(orderly)
       PROVE  Dumps'
  <2>1. ~Healthy /\ UNCHANGED <<due, shown, trouble>>
    BY <1>20 DEF T!SocketLost, Course, T!outside, T!history
  <2>2. CASE t' = T!quit(t)
    BY <1>5, <2>1, <2>2
  <2>3. CASE t' = [t EXCEPT !.sock = "down", !.count = IF T!Tool = "send" THEN 0 ELSE @]
    <3>1. t'.in = t.in /\ t'.count = t.count /\ t'.timers = t.timers /\ t'.running = t.running
      BY <1>0, <2>3 DEF T!Tool, ToolMembers
    <3> QED
      BY <1>4, <2>1, <3>1
  <2> QED
    BY <1>20, <2>2, <2>3 DEF T!SocketLost
<1>21. CASE T!onSocketReceive
  <2>1. Healthy' = Healthy
    BY <1>1, <1>21 DEF Healthy, T!onSocketReceive, T!outside
  <2> QED
    BY <1>1, <1>2, <1>21, <2>1, DumpsReceive
<1>22. CASE T!TimeToQuit
  <2>1. t.call.time
    BY <1>2, <1>22 DEF T!TimeToQuit, T!Fires
  <2> QED
    BY <1>5, <1>22, <2>1 DEF T!TimeToQuit, T!outside, T!history
<1> QED
  BY <1>6, <1>7, <1>8, <1>9, <1>10, <1>11, <1>12, <1>13, <1>14, <1>15, <1>16, <1>17, <1>18,
     <1>19, <1>20, <1>21, <1>22 DEF T!Next, T!ToolStep

(* What can-config has sent, and which networks it has shown.              *)
Configuring ==
  /\ onBus \in Seq(Nat) /\ \A k \in 1 .. Len(onBus) : onBus[k] = t.call.channel
  /\ shown \in Seq(Nat) /\ t.in = <<>> /\ t.timers \subseteq {"parse", "quit"}
  /\ t.call.all =>
       /\ \A k \in 1 .. Len(shown) : shown[k] = k
       /\ "quit" \notin t.timers
       /\ t.running => t.channel = Len(shown) + 1 /\ t.channel <= NetworkCount
       /\ Healthy /\ ~t.running => Len(shown) = NetworkCount
  /\ Healthy /\ ~t.call.all /\ ("quit" \in t.timers \/ ~t.running) => Len(onBus) + Len(shown) > 0
Configures == t.call.tool = "config" => Configuring

LEMMA ConfiguresStart ==
  ASSUME T!Init
  PROVE  Configures
<1>1. PICK call \in MCCalls : t = T!New(call)
  BY DEF T!Init
<1>2. /\ t.call = call /\ t.running = TRUE /\ t.timers = {"parse"} /\ t.in = <<>>
      /\ t.channel = (IF call.all THEN 1 ELSE call.channel) /\ onBus = <<>> /\ shown = <<>>
  BY <1>1 DEF T!New, T!Init
<1>3. onBus \in Seq(Nat) /\ shown \in Seq(Nat) /\ Len(onBus) = 0 /\ Len(shown) = 0
  BY <1>2
<1>4. 1 <= NetworkCount
  BY ToolsAssumption
<1> QED
  BY <1>2, <1>3, <1>4 DEF Configures, Configuring

LEMMA ConfiguresKept ==
  ASSUME Configuring, onBus' = onBus, shown' = shown, t'.call = t.call, t'.in = t.in, t'.channel = t.channel,
         t'.timers \subseteq t.timers, t'.running => t.running,
         Healthy' => Healthy, Healthy' /\ ~t'.running => ~t.running \/ "quit" \in t.timers
  PROVE  Configures'
BY DEF Configures, Configuring

LEMMA ConfiguresStep ==
  ASSUME ToolTypes, Course, Configures, T!Next
  PROVE  Configures'
<1>0. t \in ToolMembers /\ t.call \in CallType
  BY CallIs DEF ToolTypes, ToolMembers
<1>1. t'.call = t.call
  BY CallKept
<1> SUFFICES ASSUME t.call.tool = "config" PROVE Configures'
  BY <1>1 DEF Configures
<1>2. /\ Configuring /\ t.timers \subseteq {"parse", "quit"} /\ t.in = <<>> /\ ~t.loop
      /\ (t.running => t.sock = "none")
  BY DEF Configures, Configuring, Course
<1>3. ASSUME UNCHANGED <<onBus, shown, trouble>>, t'.in = t.in, t'.channel = t.channel, t'.timers \subseteq t.timers,
             t'.running => t.running, ~t'.running => ~Healthy \/ "quit" \in t.timers \/ ~t.running
      PROVE  Configures'
  <2>1. Healthy' = Healthy
    BY <1>1, <1>3 DEF Healthy
  <2> QED
    BY <1>1, <1>2, <1>3, <2>1, ConfiguresKept
<1>4. ASSUME UNCHANGED <<onBus, shown, trouble>>, t' = T!quit(t), ~Healthy \/ "quit" \in t.timers
      PROVE  Configures'
  <2>1. t'.in = t.in /\ t'.channel = t.channel /\ t'.timers = t.timers /\ ~t'.running
    BY <1>0, <1>4 DEF T!quit, ToolMembers
  <2> QED
    BY <1>3, <1>4, <2>1
<1>5. CASE T!runCmdParser
  <2>1. t'.in = t.in /\ t'.channel = t.channel /\ t'.timers = t.timers \ {"parse"} /\ t'.running = t.running
    BY <1>0, <1>5 DEF T!runCmdParser, T!connectNetwork, T!Fired, ToolMembers
  <2>2. UNCHANGED <<onBus, shown, trouble>> /\ t.running
    BY <1>5 DEF T!runCmdParser, T!history, T!outside, T!Fires, T!App
  <2> QED
    BY <1>3, <2>1, <2>2
<1>6. CASE T!ServerChanges \/ T!NetworkChanges \/ T!ConnectionFails
  <2>1. t'.in = t.in /\ t'.channel = t.channel /\ t'.timers = t.timers /\ t'.running = t.running
    <3>1. CASE T!ServerChanges
      BY <1>0, <3>1 DEF T!ServerChanges, T!Broken, ToolMembers
    <3>2. CASE T!NetworkChanges
      BY <3>2 DEF T!NetworkChanges
    <3>3. CASE T!ConnectionFails
      BY <1>0, <3>3 DEF T!ConnectionFails, ToolMembers
    <3> QED
      BY <1>6, <3>1, <3>2, <3>3
  <2>2. UNCHANGED <<onBus, shown>> /\ trouble' = TRUE
    BY <1>6 DEF T!ServerChanges, T!NetworkChanges, T!ConnectionFails, T!history
  <2>3. ~Healthy'
    BY <2>2 DEF Healthy
  <2> QED
    BY <1>1, <1>2, <2>1, <2>2, <2>3, ConfiguresKept
<1>7. ASSUME NEW passes \in BOOLEAN, T!NetworkSends(passes)
      PROVE  Configures'
  BY <1>7 DEF T!NetworkSends, T!Tool
<1>8. CASE T!OtherAttaches
  BY <1>0, <1>3, <1>8 DEF T!OtherAttaches, T!outside, T!history, ToolMembers
<1>9. CASE T!ServerConnected
  BY <1>0, <1>3, <1>9 DEF T!ServerConnected, T!outside, T!history, ToolMembers
<1>10. CASE T!SettingsConnected
  BY <1>0, <1>3, <1>10 DEF T!SettingsConnected, T!outside, T!history, ToolMembers
<1>11. CASE T!SettingsGone
  BY <1>0, <1>3, <1>11 DEF T!SettingsGone, T!outside, T!history, ToolMembers
<1>12. CASE T!onServerStateChanged
  <2>1. ~Healthy
    BY <1>12 DEF T!onServerStateChanged, Course, Healthy
  <2> QED
    BY <1>4, <1>12, <2>1 DEF T!onServerStateChanged, T!outside, T!history
<1>13. CASE T!onServerObjectReceived
  <2>1. ~t.call.all => t.channel = t.call.channel
    BY DEF Course
  <2>2. t.call.all /\ t.running => t.channel <= NetworkCount
    BY <1>2 DEF Configuring
  <2>3. /\ t'.in = t.in /\ t'.channel = t.channel /\ t'.timers = t.timers
        /\ t'.running = (t.running /\ t.channel <= NetworkCount)
    <3>1. CASE t.channel <= NetworkCount
      BY <1>0, <1>13, <3>1 DEF T!onServerObjectReceived, T!App, ToolMembers
    <3>2. CASE ~(t.channel <= NetworkCount)
      BY <1>0, <1>13, <3>2 DEF T!onServerObjectReceived, T!quit, ToolMembers
    <3> QED
      BY <3>1, <3>2
  <2>4. UNCHANGED <<onBus, shown, trouble>>
    BY <1>13 DEF T!onServerObjectReceived, T!outside, T!history
  <2> QED
    BY <1>2, <1>3, <2>1, <2>2, <2>3, <2>4 DEF Healthy, T!Named
<1>14. CASE T!AttachSocket \/ T!StartSending \/ T!sendErrorFrame
  BY <1>14 DEF T!AttachSocket, T!StartSending, T!sendErrorFrame, T!Tool
<1>15. CASE T!SendNext \/ T!SendingDone \/ T!WriteFails \/ T!onSocketReceive
  BY <1>2, <1>15 DEF T!SendNext, T!SendingDone, T!WriteFails, T!onSocketReceive
<1>16. CASE T!onSocketConnected \/ T!onSocketError \/ \E orderly \in BOOLEAN : T!SocketLost(orderly)
  BY <1>2, <1>16 DEF T!onSocketConnected, T!onSocketError, T!SocketLost, T!App
<1>17. CASE T!ExecCommand
  <2>1. /\ t.running /\ t.objects > 0 /\ ~t.call.all /\ UNCHANGED <<shown, trouble>>
        /\ onBus' = (IF t.net = "open" THEN Append(onBus, t.channel) ELSE onBus)
    BY <1>17 DEF T!ExecCommand, T!App, T!outside
  <2>2. /\ t'.in = t.in /\ t'.channel = t.channel /\ t'.timers = t.timers \cup {"quit"} /\ t'.running = t.running
    BY <1>0, <1>17 DEF T!ExecCommand, T!Object, ToolMembers
  <2>3. t.channel = t.call.channel /\ (~trouble => t.net = "open") /\ t.channel \in Nat
    BY <1>0, <2>1 DEF Course, ToolMembers
  <2>4. onBus \in Seq(Nat) /\ shown \in Seq(Nat) /\ \A k \in 1 .. Len(onBus) : onBus[k] = t.call.channel
    BY <1>2 DEF Configuring
  <2>5. Append(onBus, t.channel) \in Seq(Nat) /\ Len(Append(onBus, t.channel)) = Len(onBus) + 1
        /\ \A k \in 1 .. Len(onBus) + 1 : Append(onBus, t.channel)[k] = t.call.channel
    BY <2>3, <2>4
  <2>6. onBus' \in Seq(Nat) /\ \A k \in 1 .. Len(onBus') : onBus'[k] = t.call.channel
    BY <2>1, <2>4, <2>5
  <2>7. ~trouble => Len(onBus') + Len(shown') > 0
    <3>1. Len(onBus) \in Nat /\ Len(shown) \in Nat
      BY <2>4
    <3> QED
      BY <2>1, <2>3, <2>5, <3>1
  <2>8. Configuring'
    BY <1>1, <1>2, <2>1, <2>2, <2>4, <2>6, <2>7 DEF Configuring, Healthy
  <2> QED
    BY <2>8 DEF Configures
<1>18. CASE T!ShowSettings
  <2>1. PICK k \in Nat : k = t.channel
    BY <1>0 DEF ToolMembers
  <2>2. /\ t.running /\ (t.call.all \/ ~t.call.command) /\ UNCHANGED <<onBus, trouble>>
        /\ shown' = Append(shown, k)
    BY <1>18, <2>1 DEF T!ShowSettings, T!App, T!outside
  <2>3. /\ t'.in = t.in /\ t'.timers = t.timers
        /\ IF t.call.all /\ k < NetworkCount THEN t'.channel = k + 1 /\ t'.running ELSE ~t'.running
    <3>1. CASE t.call.all /\ t.channel < NetworkCount
      <4>1. PICK following : following = k + 1
        OBVIOUS
      <4>2. t' = [t EXCEPT !.channel = following, !.net = "opening", !.objects = 0]
        BY <1>0, <1>18, <2>1, <3>1, <4>1 DEF T!ShowSettings, ToolMembers
      <4>3. t'.in = t.in /\ t'.timers = t.timers /\ t'.channel = following /\ t'.running = t.running
        BY <1>0, <4>2 DEF ToolMembers
      <4> QED
        BY <2>1, <2>2, <3>1, <4>1, <4>3
    <3>2. CASE ~(t.call.all /\ t.channel < NetworkCount)
      BY <1>0, <1>18, <2>1, <3>2 DEF T!ShowSettings, T!quit, ToolMembers
    <3> QED
      BY <2>1, <3>1, <3>2
  <2>4. /\ onBus \in Seq(Nat) /\ shown \in Seq(Nat) /\ \A j \in 1 .. Len(onBus) : onBus[j] = t.call.channel
        /\ t.call.all => k = Len(shown) + 1 /\ k <= NetworkCount /\ "quit" \notin t.timers
                         /\ \A j \in 1 .. Len(shown) : shown[j] = j
    BY <1>2, <2>1, <2>2 DEF Configuring
  <2>5. PICK list \in Seq(Nat) : /\ list = Append(shown, k) /\ Len(list) = Len(shown) + 1
                                 /\ \A j \in 1 .. Len(shown) : list[j] = shown[j]
                                 /\ list[Len(shown) + 1] = k
    <3>1. PICK s \in Seq(Nat) : s = shown
      BY <2>4
    <3>2. /\ Append(s, k) \in Seq(Nat) /\ Len(Append(s, k)) = Len(s) + 1
          /\ \A j \in 1 .. Len(s) : Append(s, k)[j] = s[j]
          /\ Append(s, k)[Len(s) + 1] = k
      OBVIOUS
    <3> QED
      BY <3>1, <3>2
  <2>6. t.call.all => \A j \in 1 .. Len(list) : list[j] = j
    BY <2>4, <2>5
  <2>7. Len(onBus) \in Nat /\ Len(shown) \in Nat /\ NetworkCount \in Nat
    BY <2>4, ToolsAssumption
  <2>8. shown' = list
    BY <2>2, <2>5
  <2>9. t.call.all => Len(list) = k /\ (t'.running => t'.channel = Len(list) + 1 /\ t'.channel <= NetworkCount)
                      /\ (~t'.running => Len(list) = NetworkCount)
    BY <2>1, <2>3, <2>4, <2>5, <2>7
  <2>10. Len(onBus) + Len(list) > 0
    BY <2>5, <2>7
  <2>11. Configuring'
    BY <1>1, <1>2, <2>2, <2>3, <2>4, <2>6, <2>8, <2>9, <2>10 DEF Configuring
  <2> QED
    BY <2>11 DEF Configures
<1>19. CASE T!TimeToQuit
  <2>1. "quit" \in t.timers
    BY <1>2, <1>19 DEF T!TimeToQuit, T!Fires
  <2> QED
    BY <1>4, <1>19, <2>1 DEF T!TimeToQuit, T!outside, T!history
<1> QED
  BY <1>5, <1>6, <1>7, <1>8, <1>9, <1>10, <1>11, <1>12, <1>13, <1>14, <1>15, <1>16, <1>17, <1>18,
     <1>19 DEF T!Next, T!ToolStep

------------------------------------------------------------------------------
(* The inductive invariant of the tools, and what follows from it.         *)
(* What holds of a tool in every state, whatever the server does.          *)
ToolsInv == kind = "tool" => ToolTypes /\ Course /\ Sends /\ Dumps /\ Configures

LEMMA PrefixIs ==
  ASSUME NEW A, NEW s \in Seq(A), NEW x \in Seq(A), Len(s) <= Len(x), \A k \in 1 .. Len(s) : s[k] = x[k]
  PROVE  T!IsPrefix(s, x) /\ (Len(s) = Len(x) => s = x)
<1>1. SubSeq(s, 1, Len(s)) = SubSeq(x, 1, Len(s))
  <2>1. PICK a \in Seq(A) : a = SubSeq(s, 1, Len(s)) /\ Len(a) = Len(s) /\ \A k \in 1 .. Len(s) : a[k] = s[k]
    <3>1. SubSeq(s, 1, Len(s)) \in Seq(A)
      OBVIOUS
    <3> QED
      BY <3>1
  <2>2. PICK b \in Seq(A) : b = SubSeq(x, 1, Len(s)) /\ Len(b) = Len(s) /\ \A k \in 1 .. Len(s) : b[k] = x[k]
    <3>1. SubSeq(x, 1, Len(s)) \in Seq(A)
      OBVIOUS
    <3> QED
      BY <3>1
  <2>3. Len(a) = Len(b) /\ \A k \in 1 .. Len(a) : a[k] = b[k]
    BY <2>1, <2>2
  <2>4. a = b
    BY <2>3, SameSequence
  <2> QED
    BY <2>1, <2>2, <2>4
<1>2. Len(s) = Len(x) => s = x
  BY SameSequence
<1> QED
  BY <1>1, <1>2 DEF T!IsPrefix

LEMMA ToolsSafe ==
  ASSUME ToolsInv
  PROVE  AsAsked
<1> SUFFICES ASSUME kind = "tool" PROVE T!AsAsked
  BY DEF AsAsked
<1>1. ToolTypes /\ Sends /\ Dumps /\ Configures /\ t.call \in CallType
  BY CallIs DEF ToolsInv, ToolTypes, ToolMembers
<1>2. T!Undisturbed => Healthy /\ ~t.running
  BY DEF T!Undisturbed, Healthy
<1>3. T!SendsAsAsked
  <2> SUFFICES ASSUME Sender PROVE T!IsPrefix(onBus, T!Asked(t.call)) /\ (T!Undisturbed => onBus = T!Asked(t.call))
    BY DEF T!SendsAsAsked, T!Tool, Sender
  <2>1. Sending
    BY <1>1 DEF Sends
  <2>2. T!Asked(t.call) \in Seq(Message) /\ Len(T!Asked(t.call)) = Wanted
    BY <1>1, NthIs
  <2>3. PICK asked \in Seq(Message) : asked = T!Asked(t.call)
    BY <2>2
  <2>4. /\ onBus \in Seq(Message) /\ Len(onBus) <= Len(asked)
        /\ \A k \in 1 .. Len(onBus) : onBus[k] = asked[k]
    BY <2>1, <2>2, <2>3 DEF Sending, Nth
  <2>5. T!IsPrefix(onBus, asked) /\ (Len(onBus) = Len(asked) => onBus = asked)
    BY <2>4, PrefixIs
  <2>6. T!Undisturbed => Len(onBus) = Len(asked)
    BY <1>2, <2>1, <2>2, <2>3 DEF Sending
  <2> QED
    BY <2>3, <2>5, <2>6
<1>4. T!DumpsAsAsked
  <2> SUFFICES ASSUME t.call.tool = "dump"
               PROVE  /\ T!IsPrefix(shown, T!Passed(due))
                      /\ t.running /\ t.call.count > 0 => Len(shown) < t.call.count
                      /\ T!Undisturbed /\ ~t.call.time => t.call.count \in 1 .. Len(shown)
    BY DEF T!DumpsAsAsked, T!Tool
  <2>1. Dumping
    BY <1>1 DEF Dumps
  <2>2. shown \in Seq(Frames) /\ t.in \in Seq(Frames) /\ due \in Seq(Frames)
    BY <1>1, <2>1 DEF Dumping, ToolTypes, ToolMembers
  <2>3. PICK rest \in Seq(Frames), all \in Seq(Frames) : rest = T!Passed(t.in) /\ all = T!Passed(due)
    BY <2>2, OnlyIs, OnlyType
  <2>4. all = shown \o rest
    BY <2>1, <2>3 DEF Dumping
  <2>5. Len(shown) <= Len(all) /\ \A k \in 1 .. Len(shown) : shown[k] = all[k]
    <3>1. Len(all) = Len(shown) + Len(rest) /\ Len(rest) \in Nat /\ Len(shown) \in Nat
      BY <2>2, <2>3, <2>4
    <3>2. \A k \in 1 .. Len(shown) : all[k] = shown[k]
      BY <2>2, <2>3, <2>4
    <3> QED
      BY <3>1, <3>2
  <2>6. T!IsPrefix(shown, all)
    BY <2>2, <2>5, PrefixIs
  <2>7. t.running /\ t.call.count > 0 => Len(shown) < t.call.count
    BY <2>1 DEF Dumping, LeftToPrint
  <2>8. T!Undisturbed /\ ~t.call.time => t.call.count \in 1 .. Len(shown)
    BY <1>2, <2>1 DEF Dumping
  <2> QED
    BY <2>3, <2>6, <2>7, <2>8
<1>5. T!ConfiguresAsAsked
  <2> SUFFICES ASSUME t.call.tool = "config"
               PROVE  /\ \A k \in DOMAIN onBus : onBus[k] = t.call.channel
                      /\ \A k \in DOMAIN shown : t.call.all => shown[k] = k
                      /\ T!Undisturbed /\ t.call.all => Len(shown) = NetworkCount
                      /\ T!Undisturbed /\ ~t.call.all => Len(onBus) + Len(shown) > 0
    BY DEF T!ConfiguresAsAsked, T!Tool
  <2>1. Configuring
    BY <1>1 DEF Configures
  <2>2. DOMAIN onBus = 1 .. Len(onBus) /\ DOMAIN shown = 1 .. Len(shown)
    BY <2>1 DEF Configuring
  <2> QED
    BY <1>2, <2>1, <2>2 DEF Configuring
<1> QED
  BY <1>3, <1>4, <1>5 DEF T!AsAsked

(* can-send and can-error send what was asked for and in order, can-dump   *)
(* prints what passes and stops when the number asked for is reached,      *)
(* can-config reaches the network that was named and shows each one once   *)
(* (runCmdParser of each tool), for all options, networks and widths.      *)
(* can-error over a WebSocket reaches the network of the lowest byte of    *)
(* its number (Named), all others that of the number.                      *)
THEOREM ToolsDoAsAsked == MCSpec => []AsAsked
<1>1. MCInit => ToolsInv
  BY TypesStart, CourseStart, SendsStart, DumpsStart, ConfiguresStart DEF MCInit, ToolsInv
<1>2. ToolsInv /\ [MCNext]_MCvars => ToolsInv'
  <2>1. ASSUME ToolsInv, UNCHANGED <<kind, tools>>
        PROVE  ToolsInv'
    BY <2>1 DEF ToolsInv, tools, ToolTypes, Course, Sends, Sender, Sending, Dumps, Dumping, LeftToPrint,
       Configures, Configuring, Healthy, Wanted, Nth
  <2>2. ASSUME ToolsInv, MCNext
        PROVE  ToolsInv'
    <3>1. CASE kind = "tool" /\ T!Next
      <4>1. ToolTypes /\ Course /\ Sends /\ Dumps /\ Configures
        BY <2>2, <3>1 DEF ToolsInv
      <4> QED
        BY <3>1, <4>1, TypesStep, CourseStep, SendsStep, DumpsStep, ConfiguresStep DEF ToolsInv
    <3>2. CASE kind = "socket" /\ UNCHANGED kind
      BY <3>2 DEF ToolsInv
    <3> QED
      BY <2>2, <3>1, <3>2 DEF MCNext
  <2> QED
    BY <2>1, <2>2 DEF MCvars
<1> QED
  BY <1>1, <1>2, ToolsSafe, PTL DEF MCSpec
==============================================================================
