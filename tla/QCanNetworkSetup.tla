--------------------------- MODULE QCanNetworkSetup ---------------------------
(***************************************************************************)
(* The setup of the networks of a server: bit rates, features and the CAN  *)
(* interface of each network (qcan_network.cpp), the operations of the     *)
(* dialog on them and the settings file that carries them from one start   *)
(* of the server to the next (qcan_server_dialog.cpp).                     *)
(*                                                                         *)
(* The interfaces behave as the template plug-in does, the pattern of the  *)
(* others (qcan_interface_template.cpp).  It refuses some bit rates and    *)
(* keeps none; taken is what an interface that keeps them has: the last    *)
(* ones it did not refuse.  Bit rates are natural numbers in units of      *)
(* 500 kBit/s.  The state of the widgets is left out: which of them are    *)
(* enabled depends on the network that was shown last, so every operation  *)
(* of the dialog may be used for every network.                            *)
(***************************************************************************)
EXTENDS Integers, Sequences

CONSTANTS
  QCAN_NETWORK_MAX,
  Interface,    \* the interfaces that the plug-ins offer
  Support,      \* per interface: what supportedFeatures() answers
  Nominal,      \* bound: the nominal bit rates that are used
  Data,         \* bound: the data bit rates that are used
  MaxChange     \* bound: changes of the setup, starts included

Network == 1 .. QCAN_NETWORK_MAX

NONE == -1              \* eCAN_BITRATE_NONE
Virtual == "Virtual CAN bus"
MaxNominal == 2         \* 1 MBit/s, the limit of setBitrate() of the template
DefaultNominal == 1     \* 500 kBit/s

Feature == {"error", "fd", "listen"}

ASSUME SetupAssumption ==
  /\ QCAN_NETWORK_MAX \in Nat \ {0} /\ Virtual \notin Interface
  /\ Support \in [Interface -> SUBSET Feature]
  /\ Nominal \subseteq Nat \ {0} /\ Data \subseteq (Nat \ {0}) \cup {NONE}
  /\ DefaultNominal \in Nominal /\ NONE \in Data /\ MaxChange \in Nat

VARIABLES
  running,      \* the process of the server is there
  s,            \* net, the members of each QCanNetwork; if, of each interface
  file,         \* the settings file
  left,         \* history: the networks as the last quit left them
  untouched,    \* history: nothing has changed the setup since the start
  changes

vars == <<running, s, file, left, untouched, changes>>

NewNetwork ==
  [nom |-> NONE, dat |-> NONE, enabled |-> FALSE, error |-> FALSE, fd |-> FALSE,
   listen |-> FALSE, iface |-> Virtual]
NewInterface == [connected |-> FALSE, mode |-> "stop", taken |-> <<NONE, NONE>>, slots |-> <<>>]
NewServer ==
  [net |-> [n \in Network |-> NewNetwork], if |-> [i \in Interface |-> NewInterface],
   widget |-> [n \in Network |-> Virtual]]

(* The default values of the calls of QSettings::value().                  *)
Defaults == [NewNetwork EXCEPT !.nom = DefaultNominal, !.enabled = TRUE]

Init ==
  /\ running = FALSE /\ s = NewServer
  /\ file = [n \in Network |-> Defaults] /\ left = file
  /\ untouched = FALSE /\ changes = 0

------------------------------------------------------------------------------
(* Methods of QCanNetwork, as operators on s.                              *)
Attached(t, n) == t.net[n].iface # Virtual

(* hasErrorFrameSupport(), hasFlexibleDataSupport(), hasListenOnlySupport() *)
Has(t, n, f) == IF Attached(t, n) THEN f \in Support[t.net[n].iface] ELSE f # "listen"

(* A method of the interface is called if there is one.                    *)
setMode(t, n, m) == IF Attached(t, n) THEN [t EXCEPT !.if[t.net[n].iface].mode = m] ELSE t

(* setBitrate() of the interface: eERROR_NONE, or else eERROR_BITRATE, and *)
(* it goes on with the bit rates it has.                                   *)
Accepts(nom, dat) == dat = NONE \/ (nom <= MaxNominal /\ dat >= nom)
TakenBy(t, i, nom, dat) == IF Accepts(nom, dat) THEN <<nom, dat>> ELSE t.if[i].taken

(* Mutant: the interface gets the data bit rate that was asked for, not    *)
(* the one that is kept.                                                   *)
GivesAskedFor(t, n, nom, dat) ==
  LET kept == IF t.net[n].fd THEN dat ELSE NONE
      t1 == [t EXCEPT !.net[n].nom = nom, !.net[n].dat = kept]
      i == t.net[n].iface
  IN IF nom = t.net[n].nom /\ dat = t.net[n].dat THEN t
     ELSE IF ~Attached(t, n) THEN t1
     ELSE [t1 EXCEPT !.if[i].mode = "start", !.if[i].taken = TakenBy(t, i, nom, dat)]

(* The answer of the interface is not looked at.                           *)
setBitrate(t, n, nom, dat) ==
  LET kept == IF t.net[n].fd THEN dat ELSE NONE
      t1 == [t EXCEPT !.net[n].nom = nom, !.net[n].dat = kept]
      i == t.net[n].iface
  IN IF nom = t.net[n].nom /\ dat = t.net[n].dat THEN t
     ELSE IF ~Attached(t, n) THEN t1
     ELSE [t1 EXCEPT !.if[i].mode = "start", !.if[i].taken = TakenBy(t, i, nom, kept)]

setErrorFrameEnabled(t, n, b) == [t EXCEPT !.net[n].error = b /\ Has(t, n, "error")]

setFlexibleDataEnabled(t, n, b) == [t EXCEPT !.net[n].fd = b /\ Has(t, n, "fd")]

(* Mutant: the interface takes the mode listen-only. *)
ListenTaken(t, n, b) ==
  LET listen == b /\ Has(t, n, "listen")
  IN setMode([t EXCEPT !.net[n].listen = listen], n, IF listen THEN "listen" ELSE "start")

(* The template refuses eCAN_MODE_LISTEN_ONLY and stays in the mode it has. *)
setListenOnlyEnabled(t, n, b) ==
  LET listen == b /\ Has(t, n, "listen")
      t1 == [t EXCEPT !.net[n].listen = listen]
  IN IF listen THEN t1 ELSE setMode(t1, n, "start")

(* opens: listen() of the local server succeeds.                           *)
setNetworkEnabled(t, n, b, opens) ==
  [t EXCEPT !.net[n].enabled = b /\ (t.net[n].enabled \/ opens)]

reset(t, n) == t    \* counters, and those of the interface

addInterface(t, n, i) ==
  IF Attached(t, n) THEN t
  ELSE [t EXCEPT !.net[n].iface = i, !.if[i].slots = Append(@, n)]

(* disconnect(pclInterfaceP, nullptr, nullptr, nullptr) takes the slots of *)
(* every network from the signals of the interface.                        *)
removeInterface(t, n) ==
  IF ~Attached(t, n) THEN t
  ELSE [t EXCEPT !.net[n].iface = Virtual, !.if[t.net[n].iface].slots = <<>>]

(* connect() answers eERROR_USED when the interface is connected already.  *)
startInterface(t, n) ==
  LET i == t.net[n].iface
      nom == t.net[n].nom
      dat == t.net[n].dat
  IN IF ~Attached(t, n) THEN t
     ELSE IF t.if[i].connected THEN t
     ELSE [t EXCEPT !.if[i].connected = TRUE, !.if[i].taken = TakenBy(t, i, nom, dat),
                    !.if[i].mode = IF Accepts(nom, dat) THEN "start" ELSE @]

(* Mutant: the interface is halted, and stays connected. *)
StopHalts(t, n) == setMode(t, n, "stop")

stopInterface(t, n) ==
  IF ~Attached(t, n) THEN t
  ELSE [t EXCEPT !.if[t.net[n].iface].mode = "stop", !.if[t.net[n].iface].connected = FALSE]

------------------------------------------------------------------------------
(* The dialog.  i is Virtual when the plug-ins have no such interface.     *)
onInterfaceChange(t, n, i) ==
  LET t1 == removeInterface(stopInterface(t, n), n)
      t2 == IF i = Virtual THEN t1 ELSE addInterface(t1, n, i)
      t3 == [t2 EXCEPT !.widget[n] = i]
  IN IF i # Virtual /\ t3.net[n].enabled THEN startInterface(t3, n) ELSE t3

(* Mutant: the bit rates are set while CAN FD is still off. *)
LoadRatesFirst(t, n, opens, found) ==
  LET t1 == setNetworkEnabled(t, n, file[n].enabled, n \in opens)
      t2 == setBitrate(t1, n, file[n].nom, file[n].dat)
      t3 == setErrorFrameEnabled(t2, n, file[n].error)
      t4 == setFlexibleDataEnabled(t3, n, file[n].fd)
      t5 == setListenOnlyEnabled(t4, n, file[n].listen)
  IN onInterfaceChange(t5, n, IF file[n].iface \in found THEN file[n].iface ELSE Virtual)

(* The constructor of the dialog for one network.  opens: the networks     *)
(* whose local server opens; found: the interfaces that the plug-ins have. *)
Load(t, n, opens, found) ==
  LET t1 == setNetworkEnabled(t, n, file[n].enabled, n \in opens)
      t2 == setErrorFrameEnabled(t1, n, file[n].error)
      t3 == setFlexibleDataEnabled(t2, n, file[n].fd)
      t4 == setListenOnlyEnabled(t3, n, file[n].listen)
      t5 == setBitrate(t4, n, file[n].nom, file[n].dat)
  IN onInterfaceChange(t5, n, IF file[n].iface \in found THEN file[n].iface ELSE Virtual)

LoadAll(opens, found) ==
  LET load[n \in 0 .. QCAN_NETWORK_MAX] ==
        IF n = 0 THEN NewServer ELSE Load(load[n - 1], n, opens, found)
  IN load[QCAN_NETWORK_MAX]

Counted == changes < MaxChange /\ changes' = changes + 1

Start(opens, found) ==
  /\ ~running /\ Counted
  /\ running' = TRUE /\ s' = LoadAll(opens, found)
  /\ untouched' = (opens = Network /\ found = Interface)
  /\ UNCHANGED <<file, left>>

(* The destructors of the dialog and of the networks: what is written, and *)
(* the end of the process.  name() of the widget connects an unconnected   *)
(* interface and disconnects it again.                                     *)
Quit ==
  /\ running /\ running' = FALSE /\ s' = NewServer
  /\ file' = [n \in Network |-> [s.net[n] EXCEPT !.iface = s.widget[n]]]
  /\ left' = s.net /\ untouched' = FALSE /\ UNCHANGED changes

(* The process dies: nothing is written.                                   *)
Kill ==
  /\ running /\ running' = FALSE /\ s' = NewServer
  /\ untouched' = FALSE /\ UNCHANGED <<file, left, changes>>

(* Every other operation changes s alone.                                  *)
Becomes(t) ==
  /\ running /\ s' = t /\ untouched' = FALSE
  /\ UNCHANGED <<running, file, left>>
User(t) == Counted /\ Becomes(t)

onNetworkConfBitrateNom(n) == \E r \in Nominal : User(setBitrate(s, n, r, s.net[n].dat))
onNetworkConfBitrateDat(n) == \E r \in Data : User(setBitrate(s, n, s.net[n].nom, r))
onNetworkConfCanFd(n) == \E b \in BOOLEAN : User(setFlexibleDataEnabled(s, n, b))
onNetworkConfErrorFrames(n) == \E b \in BOOLEAN : User(setErrorFrameEnabled(s, n, b))
onNetworkConfListenOnly(n) == \E b \in BOOLEAN : User(setListenOnlyEnabled(s, n, b))
onNetworkReset(n) == User(reset(s, n))
setInterface(n) == \E i \in Interface \cup {Virtual} : User(onInterfaceChange(s, n, i))

onServerSetDefault(opens) ==
  User([s EXCEPT !.net =
          [n \in Network |-> setNetworkEnabled(s, n, TRUE, n \in opens).net[n]]])

(* The interface reports a failure to the slots that are connected.  The   *)
(* first network takes it out, and with it the slots of the others.        *)
onInterfaceConnectionChanged(i) ==
  /\ s.if[i].connected /\ s.if[i].slots # <<>>
  /\ LET n == Head(s.if[i].slots) IN User(removeInterface(stopInterface(s, n), n))

Next ==
  \/ \E opens \in SUBSET Network, found \in SUBSET Interface : Start(opens, found)
  \/ Quit \/ Kill
  \/ \E opens \in SUBSET Network : onServerSetDefault(opens)
  \/ \E n \in Network :
       \/ onNetworkConfBitrateNom(n) \/ onNetworkConfBitrateDat(n) \/ onNetworkConfCanFd(n)
       \/ onNetworkConfErrorFrames(n) \/ onNetworkConfListenOnly(n)
       \/ onNetworkReset(n) \/ setInterface(n)
  \/ \E i \in Interface : onInterfaceConnectionChanged(i)

Spec == Init /\ [][Next]_vars

------------------------------------------------------------------------------
NetworkType ==
  [nom : Nominal \cup {NONE}, dat : Data, enabled : BOOLEAN, error : BOOLEAN, fd : BOOLEAN,
   listen : BOOLEAN, iface : Interface \cup {Virtual}]
InterfaceType ==
  [connected : BOOLEAN, mode : {"stop", "start"},
   taken : (Nominal \cup {NONE}) \X Data, slots : Seq(Network)]

(* The types of the members of networks and interfaces and of the settings *)
(* file (qcan_network.hpp, qcan_interface_template.hpp).                   *)
SetupTypeOK ==
  /\ running \in BOOLEAN /\ untouched \in BOOLEAN /\ changes \in 0 .. MaxChange
  /\ s.net \in [Network -> NetworkType] /\ s.if \in [Interface -> InterfaceType]
  /\ s.widget \in [Network -> Interface \cup {Virtual}]
  /\ file \in [Network -> NetworkType] /\ left \in [Network -> NetworkType]

(* Interface i belongs to network n and to no other one.                   *)
Owns(n, i) == \A m \in Network : s.net[m].iface = i <=> m = n

(* An interface that is connected has taken the bit rates that its network *)
(* shows, however often they, CAN FD and the interface have changed,       *)
(* unless it refuses them: then nobody notices (see RatesShown).           *)
RatesGiven ==
  \A n \in Network, i \in Interface :
    LET nom == s.net[n].nom
        dat == s.net[n].dat
    IN Owns(n, i) /\ s.if[i].connected /\ Accepts(nom, dat) => s.if[i].taken = <<nom, dat>>

(* A connected interface belongs to a network, and if it belongs to one    *)
(* only, that network gets its signals (addInterface, removeInterface).    *)
InService ==
  \A i \in Interface : s.if[i].connected =>
    /\ \E n \in Network : s.net[n].iface = i
    /\ \A n \in Network : Owns(n, i) => s.if[i].slots = <<n>>

(* What the user has left when the server quit is there again after the    *)
(* start, as long as ports open and interfaces are found: bit rates, the   *)
(* flags but for listen-only, and the interface.                           *)
SettingsSurvive ==
  running /\ untouched =>
    \A n \in Network :
      /\ s.net[n].nom = left[n].nom /\ s.net[n].enabled = left[n].enabled
      /\ s.net[n].error = left[n].error /\ s.net[n].fd = left[n].fd
      /\ left[n].fd => s.net[n].dat = left[n].dat
      /\ left[n].iface # Virtual => s.net[n].iface = left[n].iface

(* nominalBitrate() and dataBitrate() return "the nominal bit rate of the  *)
(* CAN network" and its data bit rate (qcan_network.hpp:148 and 174),      *)
(* those that its interface has.                                           *)
RatesShown ==
  \A n \in Network, i \in Interface :
    Owns(n, i) /\ s.if[i].connected => s.if[i].taken = <<s.net[n].nom, s.net[n].dat>>

(* dataBitrate(): "For Classic CAN, the return value is always             *)
(* CANpie::eCAN_BITRATE_NONE" (qcan_network.hpp:174).                      *)
ClassicHasNoDataRate == \A n \in Network : ~s.net[n].fd => s.net[n].dat = NONE
===============================================================================
