------------------------- MODULE QCanNetworkSettings --------------------------
(***************************************************************************)
(* A program that reads and changes the setup of one network over a        *)
(* WebSocket (qcan_network_settings.cpp), and the end of that connection   *)
(* in the server (QCanNetwork::attachWebSocket, onWebSocketTextData).      *)
(*                                                                         *)
(* The connection is external: messages arrive in order, and what is under *)
(* way is lost when the server ends, which the program notices later.      *)
(***************************************************************************)
EXTENDS QCanNetworkSetup

CONSTANTS
  teChannelP,  \* the network of the program
  Rates,       \* bound: the pairs of bit rates it asks for
  MaxSend,     \* bound: commands that are sent
  MaxAttach    \* bound: other programs that attach a socket for settings

ASSUME SettingsAssumption ==
  teChannelP \in Network /\ Rates \subseteq Nominal \X Data /\ MaxSend \in Nat /\ MaxAttach \in Nat

VARIABLES
  c,         \* the members of QCanNetworkSettings
  link,      \* external: the connection is there
  up, down,  \* external: the messages under way to the server and back
  sends, attaches

client == <<c, link, up, down, sends, attaches>>
allvars == <<running, s, file, left, untouched, changes, c, link, up, down, sends, attaches>>

Empty == <<>>
Mode == {"init", "operation", "listen"}
NoCommand == [rates |-> Empty, mode |-> Empty, reset |-> FALSE]

SettingsInit ==
  /\ Init
  /\ c = [teServerStateP |-> "unknown", clJsonNetworkP |-> Empty, clJsonCommandP |-> NoCommand]
  /\ link = FALSE /\ up = <<>> /\ down = <<>> /\ sends = 0 /\ attaches = 0

------------------------------------------------------------------------------
(* The program.                                                            *)

(* sendNetworkSettings(): the bit rates, which is what the program can ask. *)
Settings == <<s.net[teChannelP].nom, s.net[teChannelP].dat>>

(* connectToServer(), the accepting of the socket by the server and        *)
(* onSocketConnect().  The server sends its settings at once.              *)
connectToServer ==
  /\ running /\ ~link /\ c.teServerStateP # "active"
  /\ c' = [c EXCEPT !.teServerStateP = "active"]
  /\ link' = TRUE /\ up' = <<>> /\ down' = <<Settings>>
  /\ UNCHANGED <<vars, sends, attaches>>

setBitrateCommand ==
  /\ \E r \in Rates : c' = [c EXCEPT !.clJsonCommandP.rates = r]
  /\ sends < MaxSend /\ UNCHANGED <<vars, link, up, down, sends, attaches>>

setModeCommand ==
  /\ \E m \in Mode : c' = [c EXCEPT !.clJsonCommandP.mode = <<m>>]
  /\ sends < MaxSend /\ UNCHANGED <<vars, link, up, down, sends, attaches>>

resetCommand ==
  /\ c' = [c EXCEPT !.clJsonCommandP.reset = TRUE]
  /\ sends < MaxSend /\ UNCHANGED <<vars, link, up, down, sends, attaches>>

send ==
  /\ c.teServerStateP = "active" /\ sends < MaxSend /\ sends' = sends + 1
  /\ c' = [c EXCEPT !.clJsonCommandP = NoCommand]
  /\ up' = IF link THEN Append(up, c.clJsonCommandP) ELSE up
  /\ UNCHANGED <<vars, link, down, attaches>>

onSocketMessageReceived ==
  /\ link /\ down # <<>>
  /\ c' = [c EXCEPT !.clJsonNetworkP = Head(down)] /\ down' = Tail(down)
  /\ UNCHANGED <<vars, link, up, sends, attaches>>

(* onSocketDisconnect() and onSocketError().                               *)
onSocketDisconnect ==
  /\ ~link /\ c.teServerStateP = "active"
  /\ \E state \in {"inactive", "crashed"} : c' = [c EXCEPT !.teServerStateP = state]
  /\ UNCHANGED <<vars, link, up, down, sends, attaches>>

(* closeConnection(): what was sent before still arrives.                  *)
closeConnection ==
  /\ link /\ up = <<>> /\ link' = FALSE /\ down' = <<>>
  /\ UNCHANGED <<vars, c, up, sends, attaches>>

------------------------------------------------------------------------------
(* The server.                                                             *)

(* Another program attaches a socket: every socket gets the settings.      *)
attachWebSocket ==
  /\ running /\ link /\ attaches < MaxAttach /\ attaches' = attaches + 1
  /\ down' = Append(down, Settings)
  /\ UNCHANGED <<vars, c, link, up, sends>>

(* The keys of the JSON object in the order in which they are looked for.  *)
Command(m, opens) ==
  LET t1 == IF m.rates = Empty THEN s ELSE setBitrate(s, teChannelP, m.rates[1], m.rates[2])
      t2 == setNetworkEnabled(t1, teChannelP, m.mode # <<"init">>, opens)
      t3 == setListenOnlyEnabled(t2, teChannelP, m.mode = <<"listen">>)
      t4 == IF m.mode = Empty THEN t1 ELSE IF m.mode = <<"init">> THEN t2 ELSE t3
  IN IF m.reset THEN reset(t4, teChannelP) ELSE t4

onWebSocketTextData ==
  /\ link /\ up # <<>> /\ up' = Tail(up)
  /\ \E opens \in BOOLEAN : Becomes(Command(Head(up), opens))
  /\ UNCHANGED <<changes, c, link, down, sends, attaches>>

(* A step of the server alone, and its end, which cuts the connection.     *)
Others ==
  /\ Next
  /\ IF running' THEN UNCHANGED client
     ELSE link' = FALSE /\ up' = <<>> /\ down' = <<>> /\ UNCHANGED <<c, sends, attaches>>

SettingsNext ==
  \/ connectToServer \/ setBitrateCommand \/ setModeCommand \/ resetCommand \/ send
  \/ onSocketMessageReceived \/ onSocketDisconnect \/ closeConnection
  \/ attachWebSocket \/ onWebSocketTextData \/ Others

(* The network delivers, and the event loops of both sides run.            *)
SettingsSpec ==
  /\ SettingsInit /\ [][SettingsNext]_allvars
  /\ WF_allvars(onSocketMessageReceived) /\ WF_allvars(onWebSocketTextData)
  /\ WF_allvars(onSocketDisconnect)

------------------------------------------------------------------------------
(* nominalBitrate() and dataBitrate() of the program: once a connection is *)
(* up, "the current nominal bit-rate of the selected network", and a data  *)
(* bit rate that "is equivalent to QCanNetwork::dataBitrate()", sooner or  *)
(* later (qcan_network_settings.hpp:111 and 168).                          *)
Stale == c.teServerStateP = "active" /\ c.clJsonNetworkP # Settings
SettingsAreCurrent == Stale ~> ~Stale
===============================================================================
