------------------------ MODULE QCanNetworkSetupProofs ------------------------
(***************************************************************************)
(* Proofs about QCanNetworkSetup and QCanNetworkSettings, for every number *)
(* of networks and every set of interfaces and features: the types, that   *)
(* an interface has taken the bit rates of its network unless it refuses   *)
(* them, that none is left running, and that the settings survive a        *)
(* restart of the server.                                                  *)
(*                                                                         *)
(* Each operation has a lemma that says what it leaves as it was (OnlyNet, *)
(* SameRates) and what it sets, and one that says that a sound server      *)
(* stays sound.  The loading of the networks one after the other is an     *)
(* induction over their number.                                            *)
(***************************************************************************)
EXTENDS QCanNetworkSettings, WellFoundedInduction, TLAPS

Server ==
  [net : [Network -> NetworkType], if : [Interface -> InterfaceType],
   widget : [Network -> Interface \cup {Virtual}]]

(* Interface i has the bit rates of network n, if it does not refuse them. *)
HasRates(t, i, n) ==
  Accepts(t.net[n].nom, t.net[n].dat) => t.if[i].taken = <<t.net[n].nom, t.net[n].dat>>

(* What relates the networks of a server with its interfaces: the widget   *)
(* shows the interface of a network, an interface of no network is down,   *)
(* and one of a single network has its bit rates, unless it refuses them,  *)
(* and its slots.                                                          *)
Sound(t) ==
  /\ \A n \in Network : t.net[n].iface # Virtual => t.widget[n] = t.net[n].iface
  /\ \A i \in Interface :
       /\ (\A n \in Network : t.net[n].iface # i) => ~t.if[i].connected /\ t.if[i].slots = <<>>
       /\ \A n \in Network :
            (\A m \in Network : t.net[m].iface = i <=> m = n) /\ t.if[i].connected =>
              /\ HasRates(t, i, n) /\ t.if[i].slots = <<n>>

(* The bit rates, the interfaces and what they have taken are the same.    *)
SameRates(t, u) ==
  /\ u.widget = t.widget
  /\ \A n \in Network :
       u.net[n].iface = t.net[n].iface /\ u.net[n].nom = t.net[n].nom /\ u.net[n].dat = t.net[n].dat
  /\ \A i \in Interface :
       /\ u.if[i].connected = t.if[i].connected /\ u.if[i].taken = t.if[i].taken
       /\ u.if[i].slots = t.if[i].slots

(* The networks but for n are as they were. *)
OnlyNet(t, u, n) ==
  \A m \in Network : m # n => u.net[m] = t.net[m] /\ u.widget[m] = t.widget[m]

LEMMA SameRatesSound ==
  ASSUME NEW t, NEW u, SameRates(t, u), Sound(t)
  PROVE  Sound(u)
BY DEF SameRates, Sound, HasRates

LEMMA SetNet ==
  ASSUME NEW t \in Server, NEW n \in Network, NEW r \in NetworkType, NEW u,
         u = [t EXCEPT !.net = [t.net EXCEPT ![n] = r]]
  PROVE  /\ u \in Server /\ u.net[n] = r
         /\ u.if = t.if /\ u.widget = t.widget /\ OnlyNet(t, u, n)
BY DEF Server, OnlyNet

LEMMA SetIf ==
  ASSUME NEW t \in Server, NEW i \in Interface, NEW r \in InterfaceType, NEW u,
         u = [t EXCEPT !.if = [t.if EXCEPT ![i] = r]]
  PROVE  /\ u \in Server /\ u.if[i] = r
         /\ \A j \in Interface : j # i => u.if[j] = t.if[j]
         /\ u.net = t.net /\ u.widget = t.widget
BY DEF Server

Shown(t, n, i) == [t EXCEPT !.widget[n] = i]

LEMMA SetWidget ==
  ASSUME NEW t \in Server, NEW n \in Network, NEW i \in Interface \cup {Virtual}, NEW u,
         u = Shown(t, n, i)
  PROVE  /\ u \in Server /\ u.widget[n] = i
         /\ \A m \in Network : m # n => u.widget[m] = t.widget[m]
         /\ u.net = t.net /\ u.if = t.if
<1>1. u = [t EXCEPT !.widget = [t.widget EXCEPT ![n] = i]]
  BY DEF Shown
<1> QED
  BY <1>1 DEF Server

(* A flag of network n is set: nothing else, and no bit rate, is changed.  *)
Flagged(t, u, n) == u \in Server /\ SameRates(t, u) /\ OnlyNet(t, u, n)

ErrorFrames(t, u, n, b) ==
  /\ Flagged(t, u, n) /\ u.net[n].error = (b /\ Has(t, n, "error"))
  /\ u.net[n].enabled = t.net[n].enabled
  /\ u.net[n].fd = t.net[n].fd
  /\ u.net[n].listen = t.net[n].listen

LEMMA ErrorFrameSet ==
  ASSUME NEW t \in Server, NEW n \in Network, NEW b \in BOOLEAN, NEW u,
         u = setErrorFrameEnabled(t, n, b)
  PROVE  ErrorFrames(t, u, n, b)
<1> DEFINE e == b /\ Has(t, n, "error")
           r == [t.net[n] EXCEPT !.error = e]
<1>1. e \in BOOLEAN
  OBVIOUS
<1>2. t.net[n] \in NetworkType
  BY DEF Server
<1>3. r \in NetworkType /\ r.iface = t.net[n].iface /\ r.nom = t.net[n].nom /\ r.dat = t.net[n].dat
  <2> HIDE DEF e
  <2> QED BY <1>1, <1>2 DEF NetworkType
<1>4. u = [t EXCEPT !.net = [t.net EXCEPT ![n] = r]]
  <2> HIDE DEF e
  <2>1. u = [t EXCEPT !.net[n].error = e]
    BY DEF setErrorFrameEnabled, e
  <2> QED BY <2>1
<1> HIDE DEF r
<1>5. /\ u \in Server /\ u.net[n] = r
      /\ u.if = t.if /\ u.widget = t.widget /\ OnlyNet(t, u, n)
  BY <1>3, <1>4, SetNet
<1>6. SameRates(t, u)
  BY <1>3, <1>5 DEF SameRates, OnlyNet
<1>7. /\ u.net[n].error = e /\ u.net[n].enabled = t.net[n].enabled
      /\ u.net[n].fd = t.net[n].fd
      /\ u.net[n].listen = t.net[n].listen
  <2> HIDE DEF e
  <2> QED BY <1>1, <1>2, <1>5 DEF NetworkType, r
<1> QED
  BY <1>1, <1>2, <1>5, <1>6, <1>7 DEF ErrorFrames, Flagged

FlexibleData(t, u, n, b) ==
  /\ Flagged(t, u, n) /\ u.net[n].fd = (b /\ Has(t, n, "fd"))
  /\ u.net[n].enabled = t.net[n].enabled
  /\ u.net[n].error = t.net[n].error
  /\ u.net[n].listen = t.net[n].listen

LEMMA FlexibleDataSet ==
  ASSUME NEW t \in Server, NEW n \in Network, NEW b \in BOOLEAN, NEW u,
         u = setFlexibleDataEnabled(t, n, b)
  PROVE  FlexibleData(t, u, n, b)
<1> DEFINE e == b /\ Has(t, n, "fd")
           r == [t.net[n] EXCEPT !.fd = e]
<1>1. t.net[n] \in NetworkType
  BY DEF Server
<1>2. e \in BOOLEAN
  OBVIOUS
<1>3. r \in NetworkType /\ r.iface = t.net[n].iface /\ r.nom = t.net[n].nom /\ r.dat = t.net[n].dat
  <2> HIDE DEF e
  <2> QED BY <1>1, <1>2 DEF NetworkType
<1>4. u = [t EXCEPT !.net = [t.net EXCEPT ![n] = r]]
  <2> HIDE DEF e
  <2>1. u = [t EXCEPT !.net[n].fd = e]
    BY DEF setFlexibleDataEnabled, e
  <2> QED BY <2>1
<1> HIDE DEF r
<1>5. /\ u \in Server /\ u.net[n] = r
      /\ u.if = t.if /\ u.widget = t.widget /\ OnlyNet(t, u, n)
  BY <1>3, <1>4, SetNet
<1>6. SameRates(t, u)
  BY <1>3, <1>5 DEF SameRates, OnlyNet
<1>7. /\ u.net[n].fd = e /\ u.net[n].enabled = t.net[n].enabled
      /\ u.net[n].error = t.net[n].error
      /\ u.net[n].listen = t.net[n].listen
  <2> HIDE DEF e
  <2> QED BY <1>1, <1>2, <1>5 DEF NetworkType, r
<1> QED
  BY <1>1, <1>2, <1>5, <1>6, <1>7 DEF FlexibleData, Flagged

Enabled(t, u, n, b, opens) ==
  /\ Flagged(t, u, n) /\ u.net[n].enabled = (b /\ (t.net[n].enabled \/ opens))
  /\ u.net[n].error = t.net[n].error
  /\ u.net[n].fd = t.net[n].fd
  /\ u.net[n].listen = t.net[n].listen

LEMMA EnabledSet ==
  ASSUME NEW t \in Server, NEW n \in Network, NEW b \in BOOLEAN, NEW opens \in BOOLEAN, NEW u,
         u = setNetworkEnabled(t, n, b, opens)
  PROVE  Enabled(t, u, n, b, opens)
<1> DEFINE e == b /\ (t.net[n].enabled \/ opens)
           r == [t.net[n] EXCEPT !.enabled = e]
<1>1. t.net[n] \in NetworkType
  BY DEF Server
<1>2. e \in BOOLEAN
  OBVIOUS
<1>3. r \in NetworkType /\ r.iface = t.net[n].iface /\ r.nom = t.net[n].nom /\ r.dat = t.net[n].dat
  <2> HIDE DEF e
  <2> QED BY <1>1, <1>2 DEF NetworkType
<1>4. u = [t EXCEPT !.net = [t.net EXCEPT ![n] = r]]
  <2> HIDE DEF e
  <2>1. u = [t EXCEPT !.net[n].enabled = e]
    BY DEF setNetworkEnabled, e
  <2> QED BY <2>1
<1> HIDE DEF r
<1>5. /\ u \in Server /\ u.net[n] = r
      /\ u.if = t.if /\ u.widget = t.widget /\ OnlyNet(t, u, n)
  BY <1>3, <1>4, SetNet
<1>6. SameRates(t, u)
  BY <1>3, <1>5 DEF SameRates, OnlyNet
<1>7. /\ u.net[n].enabled = e /\ u.net[n].error = t.net[n].error
      /\ u.net[n].fd = t.net[n].fd
      /\ u.net[n].listen = t.net[n].listen
  <2> HIDE DEF e
  <2> QED BY <1>1, <1>2, <1>5 DEF NetworkType, r
<1> QED
  BY <1>1, <1>2, <1>5, <1>6, <1>7 DEF Enabled, Flagged

ListenOnly(t, u, n) ==
  /\ Flagged(t, u, n) /\ u.net[n].enabled = t.net[n].enabled
  /\ u.net[n].error = t.net[n].error /\ u.net[n].fd = t.net[n].fd

(* listen-only is not among what the program keeps, and the mode is that of *)
(* the interface alone: the rest of the network is as it was.              *)
LEMMA ListenOnlySet ==
  ASSUME NEW t \in Server, NEW n \in Network, NEW b \in BOOLEAN, NEW u,
         u = setListenOnlyEnabled(t, n, b)
  PROVE  ListenOnly(t, u, n)
<1> DEFINE e == b /\ Has(t, n, "listen")
           r == [t.net[n] EXCEPT !.listen = e]
           t1 == [t EXCEPT !.net = [t.net EXCEPT ![n] = r]]
<1>1. t.net[n] \in NetworkType
  BY DEF Server
<1>2. e \in BOOLEAN
  OBVIOUS
<1>3. /\ r \in NetworkType /\ r.iface = t.net[n].iface /\ r.nom = t.net[n].nom
      /\ r.dat = t.net[n].dat /\ r.enabled = t.net[n].enabled /\ r.error = t.net[n].error
      /\ r.fd = t.net[n].fd
  <2> HIDE DEF e
  <2> QED BY <1>1, <1>2 DEF NetworkType
<1>4. u = IF e THEN t1 ELSE setMode(t1, n, "start")
  <2> HIDE DEF e
  <2>1. t1 = [t EXCEPT !.net[n].listen = e]
    OBVIOUS
  <2>2. u = IF e THEN [t EXCEPT !.net[n].listen = e]
            ELSE setMode([t EXCEPT !.net[n].listen = e], n, "start")
    BY DEF setListenOnlyEnabled, e
  <2> HIDE DEF t1
  <2> QED BY <2>1, <2>2
<1> HIDE DEF r
<1>5. /\ t1 \in Server /\ t1.net[n] = r
      /\ t1.if = t.if /\ t1.widget = t.widget /\ OnlyNet(t, t1, n)
  BY <1>3, SetNet
<1>6. SameRates(t, t1)
  BY <1>3, <1>5 DEF SameRates, OnlyNet
<1> HIDE DEF t1
<1>7. CASE ~e /\ Attached(t1, n)
  <2> DEFINE i == t1.net[n].iface
             q == [t1.if[i] EXCEPT !.mode = "start"]
  <2>1. i \in Interface
    BY <1>5, <1>7 DEF Server, NetworkType, Attached
  <2>2. t1.if[i] \in InterfaceType
    BY <1>5, <2>1 DEF Server
  <2>3. /\ q \in InterfaceType /\ q.connected = t1.if[i].connected
        /\ q.taken = t1.if[i].taken /\ q.slots = t1.if[i].slots
    BY <2>2 DEF InterfaceType
  <2>4. u = [t1 EXCEPT !.if = [t1.if EXCEPT ![i] = q]]
    <3> HIDE DEF e
    <3>1. u = [t1 EXCEPT !.if[i].mode = "start"]
      BY <1>4, <1>7 DEF setMode
    <3> QED BY <3>1
  <2> HIDE DEF i, q
  <2>5. /\ u \in Server /\ u.if[i] = q
        /\ \A j \in Interface : j # i => u.if[j] = t1.if[j]
        /\ u.net = t1.net /\ u.widget = t1.widget
    BY <1>5, <2>1, <2>3, <2>4 DEF Server
  <2>6. SameRates(t, u)
    BY <1>6, <2>3, <2>5 DEF SameRates
  <2>7. OnlyNet(t, u, n) /\ u.net[n] = r
    BY <1>5, <2>5 DEF OnlyNet
  <2> QED
    BY <1>3, <2>5, <2>6, <2>7 DEF ListenOnly, Flagged
<1>8. CASE ~(~e /\ Attached(t1, n))
  <2>1. u = t1
    <3> HIDE DEF e
    <3> QED BY <1>4, <1>8 DEF setMode
  <2> QED
    BY <1>3, <1>5, <1>6, <2>1 DEF ListenOnly, Flagged
<1> QED
  BY <1>7, <1>8

(* Network n has the bit rates nom and kept; if that is a change, they     *)
(* were handed to the interface of n.                                      *)
Rated(t, u, n, nom, kept) ==
  /\ OnlyNet(t, u, n) /\ u.widget = t.widget
  /\ u.net[n] = [t.net[n] EXCEPT !.nom = nom, !.dat = kept]
  /\ u # t => \A i \in Interface : i = t.net[n].iface =>
       /\ u.if[i].connected = t.if[i].connected /\ u.if[i].slots = t.if[i].slots
       /\ u.if[i].taken = TakenBy(t, i, nom, kept)
  /\ \A i \in Interface : i # t.net[n].iface => u.if[i] = t.if[i]

Rerated(t, u, n, nom, dat) ==
  /\ u \in Server
  /\ \E kept \in Data : (t.net[n].fd => kept = dat) /\ Rated(t, u, n, nom, kept)

(* What setBitrate() keeps, and what it gives to an interface.             *)
LEMMA BitrateSet ==
  ASSUME SetupAssumption, NEW t \in Server, NEW n \in Network,
         NEW nom \in Nominal \cup {NONE}, NEW dat \in Data, NEW u,
         u = setBitrate(t, n, nom, dat)
  PROVE  Rerated(t, u, n, nom, dat)
<1>1. t.net[n] \in NetworkType
  BY DEF Server
<1>2. CASE nom = t.net[n].nom /\ dat = t.net[n].dat
  <2>1. u = t
    BY <1>2 DEF setBitrate
  <2>2. t.net[n] = [t.net[n] EXCEPT !.nom = nom, !.dat = dat]
    BY <1>1, <1>2 DEF NetworkType
  <2> QED
    BY <2>1, <2>2 DEF OnlyNet, Rated, Rerated
<1>3. CASE ~(nom = t.net[n].nom /\ dat = t.net[n].dat)
  <2> DEFINE kept == IF t.net[n].fd THEN dat ELSE NONE
             r == [t.net[n] EXCEPT !.nom = nom, !.dat = kept]
             t1 == [t EXCEPT !.net = [t.net EXCEPT ![n] = r]]
  <2>1. kept \in Data /\ (t.net[n].fd => kept = dat)
    BY DEF SetupAssumption
  <2>2. r \in NetworkType /\ r.iface = t.net[n].iface
    <3> HIDE DEF kept
    <3> QED BY <1>1, <2>1 DEF NetworkType
  <2>3. t1 = [t EXCEPT !.net[n].nom = nom, !.net[n].dat = kept]
    <3> HIDE DEF kept
    <3> QED BY <1>1 DEF Server, NetworkType
  <2>4. u = IF ~Attached(t, n) THEN t1
            ELSE [t1 EXCEPT !.if[t.net[n].iface].mode = "start",
                            !.if[t.net[n].iface].taken = TakenBy(t, t.net[n].iface, nom, kept)]
    <3>1. u = IF ~Attached(t, n) THEN [t EXCEPT !.net[n].nom = nom, !.net[n].dat = kept]
            ELSE [[t EXCEPT !.net[n].nom = nom, !.net[n].dat = kept]
                   EXCEPT !.if[t.net[n].iface].mode = "start",
                            !.if[t.net[n].iface].taken = TakenBy(t, t.net[n].iface, nom, kept)]
      <4> HIDE <2>3
      <4> QED BY <1>3 DEF setBitrate
    <3> HIDE DEF t1, kept
    <3> QED BY <2>3, <3>1
  <2> HIDE DEF r, kept
  <2>5. /\ t1 \in Server /\ t1.net[n] = r
        /\ t1.if = t.if /\ t1.widget = t.widget /\ OnlyNet(t, t1, n)
    BY <2>2, SetNet
  <2> HIDE DEF t1
  <2>6. CASE ~Attached(t, n)
    <3>1. u = t1
      BY <2>4, <2>6
    <3>2. t.net[n].iface = Virtual
      BY <2>6 DEF Attached
    <3>3. \A i \in Interface : i # t.net[n].iface
      BY <3>2 DEF SetupAssumption
    <3> QED
      BY <2>1, <2>5, <3>1, <3>3 DEF r, Rated, Rerated
  <2>7. CASE Attached(t, n)
    <3> DEFINE i == t.net[n].iface
               new == TakenBy(t, i, nom, kept)
               q == [t.if[i] EXCEPT !.mode = "start", !.taken = new]
    <3>1. i \in Interface
      BY <1>1, <2>7 DEF NetworkType, Attached
    <3>2. t.if[i] \in InterfaceType
      BY <3>1 DEF Server
    <3>7. new \in (Nominal \cup {NONE}) \X Data
      BY <2>1, <3>2 DEF InterfaceType, TakenBy
    <3>3. /\ q \in InterfaceType /\ q.connected = t.if[i].connected
          /\ q.taken = new /\ q.slots = t.if[i].slots
      <4> HIDE DEF new, i
      <4> QED BY <3>2, <3>7 DEF InterfaceType
    <3>4. u = [t1 EXCEPT !.if = [t1.if EXCEPT ![i] = q]]
      <4>1. u = [t1 EXCEPT !.if[i].mode = "start", !.if[i].taken = new]
        BY <2>4, <2>7
      <4> HIDE DEF i, new
      <4> QED BY <2>5, <3>1, <4>1 DEF Server
    <3> HIDE DEF q
    <3>5. /\ u \in Server /\ u.if[i] = q
          /\ \A j \in Interface : j # i => u.if[j] = t1.if[j]
          /\ u.net = t1.net /\ u.widget = t1.widget
      BY <2>5, <3>1, <3>3, <3>4 DEF Server
    <3>6. OnlyNet(t, u, n)
      BY <2>5, <3>5 DEF OnlyNet
    <3> QED
      BY <2>1, <2>5, <3>3, <3>5, <3>6 DEF r, Rated, Rerated
  <2> QED
    BY <2>6, <2>7
<1> QED
  BY <1>2, <1>3

LEMMA BitrateSound ==
  ASSUME SetupAssumption, NEW t \in Server, NEW n \in Network, Sound(t),
         NEW nom \in Nominal \cup {NONE}, NEW dat \in Data, NEW u,
         u = setBitrate(t, n, nom, dat)
  PROVE  Sound(u)
<1>1. CASE u = t
  BY <1>1
<1>2. CASE u # t
  <2>0. PICK kept \in Data : Rated(t, u, n, nom, kept)
    <3>1. Rerated(t, u, n, nom, dat)
      BY BitrateSet
    <3> QED
      BY <3>1 DEF Rerated
  <2>1. /\ OnlyNet(t, u, n) /\ u.widget = t.widget
        /\ u.net[n] = [t.net[n] EXCEPT !.nom = nom, !.dat = kept]
        /\ \A i \in Interface : i = t.net[n].iface =>
             /\ u.if[i].connected = t.if[i].connected /\ u.if[i].slots = t.if[i].slots
             /\ u.if[i].taken = TakenBy(t, i, nom, kept)
        /\ \A i \in Interface : i # t.net[n].iface => u.if[i] = t.if[i]
    BY <1>2, <2>0 DEF Rated
  <2>2. u.net[n].iface = t.net[n].iface /\ u.net[n].nom = nom /\ u.net[n].dat = kept
    BY <2>1 DEF Server, NetworkType
  <2>3. \A m \in Network : u.net[m].iface = t.net[m].iface
    BY <2>1, <2>2 DEF OnlyNet
  <2>4. \A m \in Network : u.net[m].iface # Virtual => u.widget[m] = u.net[m].iface
    BY <2>1, <2>3 DEF Sound
  <2>5. ASSUME NEW i \in Interface, \A m \in Network : u.net[m].iface # i
        PROVE  ~u.if[i].connected /\ u.if[i].slots = <<>>
    BY <2>1, <2>3, <2>5 DEF Sound
  <2>6. ASSUME NEW i \in Interface, NEW m \in Network,
               \A k \in Network : u.net[k].iface = i <=> k = m, u.if[i].connected
        PROVE  HasRates(u, i, m) /\ u.if[i].slots = <<m>>
    <3>1. \A k \in Network : t.net[k].iface = i <=> k = m
      BY <2>3, <2>6
    <3>2. CASE i = t.net[n].iface
      <4>1. m = n
        BY <3>1, <3>2
      <4>2. t.if[i].connected
        BY <2>1, <2>6, <3>2
      <4>3. t.if[i].slots = <<m>>
        BY <3>1, <4>2 DEF Sound
      <4>4. HasRates(u, i, m)
        BY <2>1, <2>2, <3>2, <4>1 DEF HasRates, TakenBy
      <4> QED
        BY <4>3, <4>4, <2>1, <3>2
    <3>3. CASE i # t.net[n].iface
      <4>1. m # n
        BY <3>1, <3>3
      <4> QED
        BY <2>1, <2>6, <3>1, <3>3, <4>1 DEF Sound, OnlyNet, HasRates
    <3> QED
      BY <3>2, <3>3
  <2> QED
    BY <2>4, <2>5, <2>6 DEF Sound
<1> QED
  BY <1>1, <1>2

(* stopInterface() and removeInterface() of a network, always called so.   *)
LEMMA LeaveSet ==
  ASSUME SetupAssumption, NEW t \in Server, NEW n \in Network, NEW u,
         u = removeInterface(stopInterface(t, n), n)
  PROVE  /\ u \in Server /\ OnlyNet(t, u, n) /\ u.widget = t.widget
         /\ u.net[n] = [t.net[n] EXCEPT !.iface = Virtual]
         /\ \A i \in Interface :
              /\ i = t.net[n].iface => ~u.if[i].connected /\ u.if[i].slots = <<>>
              /\ i # t.net[n].iface => u.if[i] = t.if[i]
<1>1. t.net[n] \in NetworkType
  BY DEF Server
<1>2. CASE ~Attached(t, n)
  <2>1. u = t
    BY <1>2 DEF removeInterface, stopInterface
  <2>2. t.net[n].iface = Virtual
    BY <1>2 DEF Attached
  <2>3. t.net[n] = [t.net[n] EXCEPT !.iface = Virtual]
    BY <1>1, <2>2 DEF NetworkType
  <2>4. \A i \in Interface : i # t.net[n].iface
    BY <2>2 DEF SetupAssumption
  <2> QED
    BY <2>1, <2>3, <2>4 DEF OnlyNet
<1>3. CASE Attached(t, n)
  <2>1. PICK i \in Interface : i = t.net[n].iface
    BY <1>1, <1>3 DEF Attached, NetworkType
  <2>2. t.if[i] \in InterfaceType
    BY DEF Server
  <2> DEFINE q == [t.if[i] EXCEPT !.mode = "stop", !.connected = FALSE]
             q1 == [t.if[i] EXCEPT !.mode = "stop", !.connected = FALSE, !.slots = <<>>]
             r == [t.net[n] EXCEPT !.iface = Virtual]
             t1 == [t EXCEPT !.if = [t.if EXCEPT ![i] = q]]
             t2 == [t1 EXCEPT !.net = [t1.net EXCEPT ![n] = r]]
  <2>3. /\ q \in InterfaceType /\ q1 \in InterfaceType /\ ~q1.connected /\ q1.slots = <<>>
        /\ q1 = [q EXCEPT !.slots = <<>>]
    <3>1. <<>> \in Seq(Network)
      OBVIOUS
    <3> QED
      BY <2>2, <3>1 DEF InterfaceType
  <2>4. r \in NetworkType
    BY <1>1 DEF NetworkType
  <2>5. stopInterface(t, n) = t1
    BY <1>3, <2>1 DEF stopInterface, Server, InterfaceType
  <2> HIDE DEF q, r
  <2>6. /\ t1 \in Server /\ t1.net = t.net /\ t1.widget = t.widget /\ t1.if[i] = q
        /\ \A j \in Interface : j # i => t1.if[j] = t.if[j]
    BY <2>3 DEF Server
  <2>7. Attached(t1, n)
    BY <1>3, <2>6 DEF Attached
  <2> HIDE DEF t1
  <2>8. u = [t2 EXCEPT !.if = [t2.if EXCEPT ![i] = q1]]
    <3>1. u = [t1 EXCEPT !.net[n].iface = Virtual, !.if[i].slots = <<>>]
      BY <2>1, <2>5, <2>6, <2>7 DEF removeInterface
    <3> QED
      BY <2>3, <2>6, <3>1 DEF Server, r
  <2>9. /\ t2 \in Server /\ t2.net[n] = r /\ t2.if = t1.if /\ t2.widget = t1.widget
        /\ OnlyNet(t1, t2, n)
    BY <2>4, <2>6 DEF Server, OnlyNet
  <2> HIDE DEF t2, q1
  <2>10. /\ u \in Server /\ u.if[i] = q1 /\ u.net = t2.net /\ u.widget = t2.widget
         /\ \A j \in Interface : j # i => u.if[j] = t2.if[j]
    BY <2>3, <2>8, <2>9 DEF Server
  <2>11. OnlyNet(t, u, n)
    BY <2>6, <2>9, <2>10 DEF OnlyNet
  <2>12. u.widget = t.widget /\ u.net[n] = [t.net[n] EXCEPT !.iface = Virtual]
    BY <2>6, <2>9, <2>10 DEF r
  <2>13. \A j \in Interface :
           /\ j = t.net[n].iface => ~u.if[j].connected /\ u.if[j].slots = <<>>
           /\ j # t.net[n].iface => u.if[j] = t.if[j]
    <3>1. ~u.if[i].connected /\ u.if[i].slots = <<>>
      BY <2>3, <2>10
    <3>2. \A j \in Interface : j # i => u.if[j] = t.if[j]
      BY <2>6, <2>9, <2>10
    <3> QED
      BY <2>1, <3>1, <3>2
  <2> QED
    BY <2>10, <2>11, <2>12, <2>13
<1> QED
  BY <1>2, <1>3

(* An interface that a network has left is free.                           *)
LEMMA LeaveSound ==
  ASSUME SetupAssumption, NEW t \in Server, NEW n \in Network, Sound(t), NEW u,
         u = removeInterface(stopInterface(t, n), n)
  PROVE  Sound(u)
<1>1. /\ OnlyNet(t, u, n) /\ u.widget = t.widget
      /\ u.net[n] = [t.net[n] EXCEPT !.iface = Virtual]
      /\ \A i \in Interface :
              /\ i = t.net[n].iface => ~u.if[i].connected /\ u.if[i].slots = <<>>
              /\ i # t.net[n].iface => u.if[i] = t.if[i]
  BY LeaveSet
<1>2. u.net[n].iface = Virtual
  BY <1>1 DEF Server, NetworkType
<1>3. \A m \in Network : u.net[m].iface # Virtual => u.widget[m] = u.net[m].iface
  <2> SUFFICES ASSUME NEW m \in Network, u.net[m].iface # Virtual
               PROVE  u.widget[m] = u.net[m].iface
    OBVIOUS
  <2>1. m # n
    BY <1>2
  <2> QED
    BY <1>1, <2>1 DEF Sound, OnlyNet
<1>4. ASSUME NEW i \in Interface, \A m \in Network : u.net[m].iface # i
      PROVE  ~u.if[i].connected /\ u.if[i].slots = <<>>
  <2>1. CASE i = t.net[n].iface
    BY <1>1, <2>1
  <2>2. CASE i # t.net[n].iface
    BY <1>1, <1>4, <2>2 DEF Sound, OnlyNet
  <2> QED
    BY <2>1, <2>2
<1>5. ASSUME NEW i \in Interface, NEW m \in Network,
             \A k \in Network : u.net[k].iface = i <=> k = m, u.if[i].connected
      PROVE  HasRates(u, i, m) /\ u.if[i].slots = <<m>>
  <2>1. i # t.net[n].iface /\ u.if[i] = t.if[i]
    BY <1>1, <1>5
  <2>2. m # n
    BY <1>2, <1>5 DEF SetupAssumption
  <2>3. \A k \in Network : t.net[k].iface = i <=> k = m
    BY <1>1, <1>5, <2>1, <2>2 DEF OnlyNet
  <2> QED
    BY <1>1, <1>5, <2>1, <2>2, <2>3 DEF Sound, OnlyNet, HasRates
<1> QED
  BY <1>3, <1>4, <1>5 DEF Sound

(* addInterface() of a network that has none, and the widget that shows it. *)
(* The network has the interface that was chosen, the others are as before. *)
Changed(t, u, n, i) ==
  /\ u \in Server /\ OnlyNet(t, u, n) /\ u.widget[n] = i
  /\ u.net[n] = [t.net[n] EXCEPT !.iface = i]

Taken(t, u, n, i) ==
  /\ Changed(t, u, n, i)
  /\ u.if[i] = [t.if[i] EXCEPT !.slots = Append(@, n)]
  /\ \A j \in Interface : j # i => u.if[j] = t.if[j]

Taking(t, n, i) == Shown(addInterface(t, n, i), n, i)

LEMMA AddSet ==
  ASSUME SetupAssumption, NEW t \in Server, NEW n \in Network, t.net[n].iface = Virtual,
         NEW i \in Interface, NEW u, u = Taking(t, n, i)
  PROVE  Taken(t, u, n, i)
<1>1. t.net[n] \in NetworkType /\ t.if[i] \in InterfaceType
  BY DEF Server
<1> DEFINE q == [t.if[i] EXCEPT !.slots = Append(@, n)]
           r == [t.net[n] EXCEPT !.iface = i]
           t1 == [t EXCEPT !.net = [t.net EXCEPT ![n] = r]]
           t2 == [t1 EXCEPT !.if = [t1.if EXCEPT ![i] = q]]
<1>2. q \in InterfaceType
  <2>1. Append(t.if[i].slots, n) \in Seq(Network)
    BY <1>1 DEF InterfaceType
  <2> QED
    BY <1>1, <2>1 DEF InterfaceType
<1>3. r \in NetworkType
  BY <1>1 DEF NetworkType
<1>4. addInterface(t, n, i) = t2
  <2>1. addInterface(t, n, i) = [t EXCEPT !.net[n].iface = i, !.if[i].slots = Append(@, n)]
    BY DEF addInterface, Attached
  <2> QED
    BY <2>1 DEF Server
<1> HIDE DEF q, r
<1>5. /\ t1 \in Server /\ t1.net[n] = r /\ t1.if = t.if /\ t1.widget = t.widget
      /\ OnlyNet(t, t1, n)
  BY <1>3 DEF Server, OnlyNet
<1> HIDE DEF t1
<1>6. /\ t2 \in Server /\ t2.if[i] = q /\ t2.net = t1.net /\ t2.widget = t1.widget
      /\ \A j \in Interface : j # i => t2.if[j] = t1.if[j]
  BY <1>2, <1>5 DEF Server
<1> HIDE DEF t2
<1>7. u = Shown(t2, n, i)
  BY <1>4 DEF Taking
<1>8. /\ u \in Server /\ u.net = t2.net /\ u.if = t2.if /\ u.widget[n] = i
      /\ \A m \in Network : m # n => u.widget[m] = t2.widget[m]
  <2>1. i \in Interface \cup {Virtual}
    OBVIOUS
  <2> QED
    <3>1. t2 \in Server
      BY <1>6
    <3>2. PICK v : v = t2
      OBVIOUS
    <3>3. v \in Server /\ u = Shown(v, n, i)
      BY <1>7, <3>1, <3>2
    <3>4. u \in Server
      BY <2>1, <3>3, SetWidget
    <3>5. u.net = v.net
      BY <2>1, <3>3, SetWidget
    <3>6. u.if = v.if
      BY <2>1, <3>3, SetWidget
    <3>7. u.widget[n] = i
      BY <2>1, <3>3, SetWidget
    <3>8. \A m \in Network : m # n => u.widget[m] = v.widget[m]
      BY <2>1, <3>3, SetWidget, SMTT(30)
    <3> QED
      BY <3>2, <3>4, <3>5, <3>6, <3>7, <3>8
<1>9. OnlyNet(t, u, n)
  BY <1>5, <1>6, <1>8 DEF OnlyNet
<1>10. u.net[n] = r /\ u.if[i] = q /\ \A j \in Interface : j # i => u.if[j] = t.if[j]
  BY <1>5, <1>6, <1>8
<1> QED
  BY <1>8, <1>9, <1>10 DEF q, r, Taken, Changed

Connecting(t, i, taken, mode) ==
  [t EXCEPT !.if[i].connected = TRUE, !.if[i].taken = taken, !.if[i].mode = mode]

Started(t, u, n, i) ==
  /\ u \in Server /\ u.net = t.net /\ u.widget = t.widget
  /\ u.if[i].connected /\ u.if[i].slots = t.if[i].slots
  /\ t.if[i].connected => u.if[i].taken = t.if[i].taken
  /\ ~t.if[i].connected => u.if[i].taken = TakenBy(t, i, t.net[n].nom, t.net[n].dat)
  /\ \A j \in Interface : j # i => u.if[j] = t.if[j]

(* startInterface(): an interface that is not connected yet is handed the  *)
(* bit rates of the network.                                               *)
LEMMA StartSet ==
  ASSUME SetupAssumption, NEW t \in Server, NEW n \in Network, NEW i \in Interface,
         i = t.net[n].iface, NEW u, u = startInterface(t, n)
  PROVE  Started(t, u, n, i)
<1>1. t.net[n] \in NetworkType /\ t.if[i] \in InterfaceType
  BY DEF Server
<1>2. Attached(t, n)
  BY DEF Attached, SetupAssumption
<1>3. CASE t.if[i].connected
  <2>1. u = t
    BY <1>2, <1>3 DEF startInterface
  <2> QED
    BY <1>3, <2>1 DEF Started
<1>4. CASE ~t.if[i].connected
  <2> DEFINE q(taken, mode) == [t.if[i] EXCEPT !.connected = TRUE, !.taken = taken, !.mode = mode]
  <2>1. PICK taken, mode :
          /\ taken = TakenBy(t, i, t.net[n].nom, t.net[n].dat)
          /\ mode = IF Accepts(t.net[n].nom, t.net[n].dat) THEN "start" ELSE t.if[i].mode
    OBVIOUS
  <2>2. taken \in (Nominal \cup {NONE}) \X Data /\ mode \in {"stop", "start"}
    BY <1>1, <2>1 DEF NetworkType, InterfaceType, TakenBy
  <2>3. DOMAIN t.if[i] = {"connected", "mode", "taken", "slots"}
    BY <1>1 DEF InterfaceType
  <2>4. DOMAIN t = {"net", "if", "widget"} /\ DOMAIN t.if = Interface
    BY DEF Server
  <2>5. u = [t EXCEPT !.if = [t.if EXCEPT ![i] = q(taken, mode)]]
    <3> HIDE DEF q
    <3>1. Connecting(t, i, taken, mode) = [t EXCEPT !.if = [t.if EXCEPT ![i] = q(taken, mode)]]
      <4>1. Connecting(t, i, taken, mode) = [t EXCEPT !.if[i] = q(taken, mode)]
        BY <2>3, <2>4 DEF Connecting, q
      <4> QED
        BY <4>1
    <3>2. CASE Accepts(t.net[n].nom, t.net[n].dat)
      BY <1>2, <1>4, <2>1, <3>1, <3>2 DEF startInterface, Connecting
    <3>3. CASE ~Accepts(t.net[n].nom, t.net[n].dat)
      <4>1. mode = t.if[i].mode
        BY <2>1, <3>3
      <4>2. u = [t EXCEPT !.if[i].connected = TRUE, !.if[i].taken = taken, !.if[i].mode = @]
        BY <1>2, <1>4, <2>1, <3>3 DEF startInterface
      <4>3. u = Connecting(t, i, taken, mode)
        BY <2>3, <2>4, <4>1, <4>2 DEF Connecting
      <4> QED
        BY <3>1, <4>3
    <3> QED
      BY <3>2, <3>3
  <2>6. PICK r : r = q(taken, mode)
    OBVIOUS
  <2>7. r \in InterfaceType /\ r.connected /\ r.taken = taken /\ r.slots = t.if[i].slots
    BY <1>1, <2>2, <2>6 DEF InterfaceType
  <2>8. u = [t EXCEPT !.if = [t.if EXCEPT ![i] = r]]
    BY <2>5, <2>6
  <2> HIDE DEF q
  <2>9. /\ u \in Server /\ u.net = t.net /\ u.widget = t.widget /\ u.if[i] = r
        /\ \A j \in Interface : j # i => u.if[j] = t.if[j]
    BY <2>7, <2>8 DEF Server
  <2> QED
    BY <1>4, <2>1, <2>7, <2>9 DEF Started
<1> QED
  BY <1>3, <1>4

(* Without an interface the network runs on its own.                       *)
LEMMA ChangeToVirtual ==
  ASSUME SetupAssumption, NEW t \in Server, NEW n \in Network, NEW u,
         u = onInterfaceChange(t, n, Virtual)
  PROVE  Changed(t, u, n, Virtual) /\ (Sound(t) => Sound(u))
<1>1. PICK v : v = removeInterface(stopInterface(t, n), n)
  OBVIOUS
<1>2. /\ v \in Server /\ OnlyNet(t, v, n) /\ v.widget = t.widget
      /\ v.net[n] = [t.net[n] EXCEPT !.iface = Virtual]
  BY <1>1, LeaveSet
<1>3. u = Shown(v, n, Virtual)
  BY <1>1 DEF onInterfaceChange, Shown
<1>4. Virtual \in Interface \cup {Virtual}
  OBVIOUS
<1>5. u \in Server /\ u.widget[n] = Virtual
  BY <1>2, <1>3, <1>4, SetWidget
<1>6. u.net = v.net /\ u.if = v.if
  BY <1>2, <1>3, <1>4, SetWidget
<1>7. \A m \in Network : m # n => u.widget[m] = v.widget[m]
  BY <1>2, <1>3, <1>4, SetWidget
<1>8. OnlyNet(t, u, n)
  BY <1>2, <1>6, <1>7 DEF OnlyNet
<1>9. ASSUME Sound(t) PROVE Sound(u)
  <2>1. Sound(v)
    BY <1>1, <1>9, LeaveSound
  <2>2. v.net[n].iface = Virtual
    BY <1>2 DEF Server, NetworkType
  <2>3. \A m \in Network : u.net[m].iface # Virtual => u.widget[m] = u.net[m].iface
    BY <1>6, <1>7, <2>1, <2>2 DEF Sound
  <2> QED
    BY <1>6, <2>1, <2>3 DEF Sound, HasRates
<1> QED
  BY <1>2, <1>5, <1>6, <1>8, <1>9 DEF Changed

(* A network that takes an interface, and what was said before it starts.  *)
LEMMA ChangeToInterface ==
  ASSUME SetupAssumption, NEW t \in Server, NEW n \in Network, NEW i \in Interface, NEW u,
         u = onInterfaceChange(t, n, i)
  PROVE  Changed(t, u, n, i) /\ (Sound(t) => Sound(u))
<1>1. PICK v : v = removeInterface(stopInterface(t, n), n)
  OBVIOUS
<1>2. /\ v \in Server /\ OnlyNet(t, v, n) /\ v.widget = t.widget
      /\ v.net[n] = [t.net[n] EXCEPT !.iface = Virtual]
  BY <1>1, LeaveSet
<1>3. v.net[n].iface = Virtual
  BY <1>2 DEF Server, NetworkType
<1>4. PICK w : w = Taking(v, n, i)
  OBVIOUS
<1>5. Taken(v, w, n, i)
  BY <1>2, <1>3, <1>4, AddSet
<1>6. /\ w \in Server /\ OnlyNet(v, w, n) /\ w.widget[n] = i
      /\ w.net[n] = [v.net[n] EXCEPT !.iface = i]
  BY <1>5 DEF Taken, Changed
<1>7. w.if[i] = [v.if[i] EXCEPT !.slots = Append(@, n)]
  BY <1>5 DEF Taken
<1>8. \A j \in Interface : j # i => w.if[j] = v.if[j]
  BY <1>5 DEF Taken
<1>9. u = IF w.net[n].enabled THEN startInterface(w, n) ELSE w
  <2>1. i # Virtual
    BY DEF SetupAssumption
  <2> QED
    BY <1>1, <1>4, <2>1 DEF onInterfaceChange, Taking, Shown
<1>10. w.net[n].iface = i
  BY <1>2, <1>6 DEF Server, NetworkType
<1>11. w.net[n] = [t.net[n] EXCEPT !.iface = i]
  BY <1>2, <1>6 DEF Server, NetworkType
<1>12. /\ u \in Server /\ u.net = w.net /\ u.widget = w.widget
       /\ u.if[i].slots = w.if[i].slots
       /\ \A j \in Interface : j # i => u.if[j] = w.if[j]
  <2>1. CASE w.net[n].enabled
    <3>1. Started(w, u, n, i)
      BY <1>6, <1>9, <1>10, <2>1, StartSet
    <3> QED
      BY <3>1 DEF Started
  <2>2. CASE ~w.net[n].enabled
    BY <1>6, <1>9, <2>2
  <2> QED
    BY <2>1, <2>2
<1>13. ~w.if[i].connected /\ u.if[i].connected =>
         u.if[i].taken = TakenBy(w, i, w.net[n].nom, w.net[n].dat)
  <2>1. CASE w.net[n].enabled
    <3>1. Started(w, u, n, i)
      BY <1>6, <1>9, <1>10, <2>1, StartSet
    <3> QED
      BY <3>1 DEF Started
  <2>2. CASE ~w.net[n].enabled
    BY <1>9, <2>2
  <2> QED
    BY <2>1, <2>2
<1>14. Changed(t, u, n, i)
  BY <1>2, <1>6, <1>11, <1>12 DEF Changed, OnlyNet
<1>15. ASSUME Sound(t) PROVE Sound(u)
  <2>1. Sound(v)
    BY <1>1, <1>15, LeaveSound
  <2>2. w.if[i].connected = v.if[i].connected /\ w.if[i].slots = Append(v.if[i].slots, n)
    BY <1>2, <1>7 DEF Server, InterfaceType
  <2>3. ASSUME NEW m \in Network, u.net[m].iface # Virtual
        PROVE  u.widget[m] = u.net[m].iface
    <3>1. CASE m = n
      BY <1>6, <1>10, <1>12, <3>1
    <3>2. CASE m # n
      BY <1>6, <1>12, <2>1, <2>3, <3>2 DEF Sound, OnlyNet
    <3> QED
      BY <3>1, <3>2
  <2>4. ASSUME NEW j \in Interface, \A m \in Network : u.net[m].iface # j
        PROVE  ~u.if[j].connected /\ u.if[j].slots = <<>>
    <3>1. j # i
      BY <1>10, <1>12, <2>4
    <3>2. u.if[j] = v.if[j]
      BY <1>8, <1>12, <3>1
    <3>3. \A m \in Network : v.net[m].iface # j
      BY <1>3, <1>6, <1>12, <2>4 DEF OnlyNet, SetupAssumption
    <3> QED
      BY <2>1, <3>2, <3>3 DEF Sound
  <2>5. ASSUME NEW j \in Interface, NEW m \in Network,
               \A k \in Network : u.net[k].iface = j <=> k = m, u.if[j].connected
        PROVE  HasRates(u, j, m) /\ u.if[j].slots = <<m>>
    <3>1. CASE j = i
      <4>1. m = n
        BY <1>10, <1>12, <2>5, <3>1
      <4>2. \A k \in Network : v.net[k].iface # i
        BY <1>3, <1>6, <1>12, <2>5, <3>1, <4>1 DEF OnlyNet, SetupAssumption
      <4>3. ~v.if[i].connected /\ v.if[i].slots = <<>>
        BY <2>1, <4>2 DEF Sound
      <4>4. u.if[i].slots = <<n>>
        BY <1>12, <2>2, <4>3
      <4>5. HasRates(u, i, n)
        BY <1>12, <1>13, <2>2, <2>5, <3>1, <4>3 DEF HasRates, TakenBy
      <4> QED
        BY <3>1, <4>1, <4>4, <4>5
    <3>2. CASE j # i
      <4>1. u.if[j] = v.if[j]
        BY <1>8, <1>12, <3>2
      <4>2. m # n
        BY <1>10, <1>12, <2>5, <3>2
      <4>3. u.net[m] = v.net[m]
        BY <1>6, <1>12, <4>2 DEF OnlyNet
      <4>4. \A k \in Network : v.net[k].iface = j <=> k = m
        BY <1>3, <1>6, <1>12, <2>5, <4>2 DEF OnlyNet, SetupAssumption
      <4> QED
        BY <2>1, <2>5, <4>1, <4>3, <4>4 DEF Sound, HasRates
    <3> QED
      BY <3>1, <3>2
  <2> QED
    BY <2>3, <2>4, <2>5 DEF Sound
<1> QED
  BY <1>14, <1>15

LEMMA ChangeSet ==
  ASSUME SetupAssumption, NEW t \in Server, NEW n \in Network,
         NEW i \in Interface \cup {Virtual}, NEW u, u = onInterfaceChange(t, n, i)
  PROVE  Changed(t, u, n, i) /\ (Sound(t) => Sound(u))
<1>1. CASE i = Virtual
  BY <1>1, ChangeToVirtual
<1>2. CASE i \in Interface
  BY <1>2, ChangeToInterface
<1> QED
  BY <1>1, <1>2

(* The constructor of the dialog has read the settings of network n.       *)
Restored(u, n, opens, found) ==
  /\ u.net[n].nom = file[n].nom /\ u.net[n].enabled = (file[n].enabled /\ n \in opens)
  /\ u.net[n].error = file[n].error /\ u.net[n].fd = file[n].fd
  /\ file[n].fd => u.net[n].dat = file[n].dat
  /\ u.net[n].iface = IF file[n].iface \in found THEN file[n].iface ELSE Virtual

LEMMA LoadSet ==
  ASSUME SetupAssumption, file \in [Network -> NetworkType],
         NEW t \in Server, NEW n \in Network, t.net[n] = NewNetwork,
         NEW opens \in SUBSET Network, NEW found \in SUBSET Interface,
         NEW u, u = Load(t, n, opens, found)
  PROVE  u \in Server /\ OnlyNet(t, u, n) /\ (Sound(t) => Sound(u)) /\ Restored(u, n, opens, found)
<1> DEFINE i == IF file[n].iface \in found THEN file[n].iface ELSE Virtual
<1>1. file[n] \in NetworkType
  OBVIOUS
<1>2. /\ file[n].enabled \in BOOLEAN /\ file[n].error \in BOOLEAN /\ file[n].fd \in BOOLEAN
      /\ file[n].listen \in BOOLEAN /\ file[n].nom \in Nominal \cup {NONE}
      /\ file[n].dat \in Data
  BY <1>1 DEF NetworkType
<1>3. i \in Interface \cup {Virtual}
  OBVIOUS
<1>31. PICK o \in BOOLEAN : o = (n \in opens)
  <2>1. (n \in opens) \in BOOLEAN
    OBVIOUS
  <2> QED
    BY <2>1, Zenon
<1>4. PICK t1 : t1 = setNetworkEnabled(t, n, file[n].enabled, o)
  OBVIOUS
<1>5. PICK t2 : t2 = setErrorFrameEnabled(t1, n, file[n].error)
  OBVIOUS
<1>6. PICK t3 : t3 = setFlexibleDataEnabled(t2, n, file[n].fd)
  OBVIOUS
<1>7. PICK t4 : t4 = setListenOnlyEnabled(t3, n, file[n].listen)
  OBVIOUS
<1>8. PICK t5 : t5 = setBitrate(t4, n, file[n].nom, file[n].dat)
  OBVIOUS
<1>9. u = onInterfaceChange(t5, n, i)
  BY <1>31, <1>4, <1>5, <1>6, <1>7, <1>8 DEF Load
<1> HIDE DEF i
<1>10. Enabled(t, t1, n, file[n].enabled, o)
  BY <1>2, <1>4, EnabledSet
<1>11. /\ t1 \in Server /\ SameRates(t, t1) /\ OnlyNet(t, t1, n)
       /\ t1.net[n].enabled = (file[n].enabled /\ n \in opens)
  <2>1. t.net[n].enabled = FALSE
    BY DEF NewNetwork
  <2>2. t1.net[n].enabled = (file[n].enabled /\ (FALSE \/ n \in opens))
    BY <1>31, <1>10, <2>1, Zenon DEF Enabled
  <2>3. t1 \in Server /\ SameRates(t, t1) /\ OnlyNet(t, t1, n)
    BY <1>10 DEF Enabled, Flagged
  <2> QED
    BY <2>2, <2>3
<1>12. ~Attached(t1, n)
  BY <1>11 DEF SameRates, NewNetwork, Attached
<1>13. ErrorFrames(t1, t2, n, file[n].error)
  BY <1>2, <1>5, <1>11, ErrorFrameSet
<1>14. /\ t2 \in Server /\ SameRates(t1, t2) /\ OnlyNet(t1, t2, n)
       /\ t2.net[n].enabled = (file[n].enabled /\ n \in opens)
       /\ t2.net[n].error = file[n].error
  BY <1>2, <1>11, <1>12, <1>13 DEF ErrorFrames, Flagged, Has
<1>15. ~Attached(t2, n)
  BY <1>12, <1>14 DEF SameRates, Attached
<1>16. FlexibleData(t2, t3, n, file[n].fd)
  BY <1>2, <1>6, <1>14, FlexibleDataSet
<1>17. /\ t3 \in Server /\ SameRates(t2, t3) /\ OnlyNet(t2, t3, n)
       /\ t3.net[n].enabled = (file[n].enabled /\ n \in opens)
       /\ t3.net[n].error = file[n].error /\ t3.net[n].fd = file[n].fd
  BY <1>2, <1>14, <1>15, <1>16 DEF FlexibleData, Flagged, Has
<1>18. ListenOnly(t3, t4, n)
  BY <1>2, <1>7, <1>17, ListenOnlySet
<1>19. /\ t4 \in Server /\ SameRates(t3, t4) /\ OnlyNet(t3, t4, n)
       /\ t4.net[n].enabled = (file[n].enabled /\ n \in opens)
       /\ t4.net[n].error = file[n].error /\ t4.net[n].fd = file[n].fd
  BY <1>17, <1>18 DEF ListenOnly, Flagged
<1>20. Rerated(t4, t5, n, file[n].nom, file[n].dat)
  BY <1>2, <1>8, <1>19, BitrateSet
<1>21. PICK kept \in Data : (t4.net[n].fd => kept = file[n].dat)
                           /\ Rated(t4, t5, n, file[n].nom, kept) /\ t5 \in Server
  BY <1>20 DEF Rerated
<1>22. OnlyNet(t4, t5, n) /\ t5.net[n] = [t4.net[n] EXCEPT !.nom = file[n].nom, !.dat = kept]
  BY <1>21 DEF Rated
<1>23. Changed(t5, u, n, i) /\ (Sound(t5) => Sound(u))
  BY <1>3, <1>9, <1>21, ChangeSet
<1>24. Sound(t) => Sound(u)
  <2>1. Sound(t) => Sound(t4)
    BY <1>11, <1>14, <1>17, <1>19, SameRatesSound
  <2>2. Sound(t4) => Sound(t5)
    BY <1>2, <1>8, <1>19, BitrateSound
  <2> QED
    BY <1>23, <2>1, <2>2
<1>25. OnlyNet(t, u, n)
  BY <1>11, <1>14, <1>17, <1>19, <1>22, <1>23 DEF Changed, OnlyNet
<1>26. Restored(u, n, opens, found)
  <2>1. t4.net[n] \in NetworkType /\ t5.net[n] \in NetworkType
    BY <1>19, <1>21 DEF Server
  <2>2. /\ t5.net[n].nom = file[n].nom /\ t5.net[n].dat = kept
        /\ t5.net[n].enabled = (file[n].enabled /\ n \in opens)
        /\ t5.net[n].error = file[n].error /\ t5.net[n].fd = file[n].fd
    BY <1>19, <1>22, <2>1 DEF NetworkType
  <2>3. u.net[n] = [t5.net[n] EXCEPT !.iface = i]
    BY <1>23 DEF Changed
  <2>4. /\ u.net[n].nom = file[n].nom /\ u.net[n].dat = kept
        /\ u.net[n].enabled = (file[n].enabled /\ n \in opens)
        /\ u.net[n].error = file[n].error /\ u.net[n].fd = file[n].fd /\ u.net[n].iface = i
    BY <2>1, <2>2, <2>3 DEF NetworkType
  <2>5. file[n].fd => kept = file[n].dat
    BY <1>19, <1>21
  <2> QED
    BY <2>4, <2>5 DEF Restored, i
<1> QED
  BY <1>23, <1>24, <1>25, <1>26 DEF Changed

------------------------------------------------------------------------------
(* Induction over the natural numbers, from the fact that < is well        *)
(* founded: a set that holds 0 and the successors of its members is Nat.   *)
LEMMA LeastMember ==
  ASSUME NEW T, T \subseteq Nat, T # {}
  PROVE  \E x \in T : \A y \in T : x <= y
<1> DEFINE R == {p \in Nat \X Nat : p[1] < p[2]}
<1>1. IsWellFoundedOn(OpToRel(<, Nat), Nat)
  BY NatLessThanWellFounded
<1>2. IsWellFoundedOn(R, Nat)
  BY <1>1 DEF OpToRel
<1> HIDE DEF R
<1>3. PICK x \in T : \A y \in T : ~(<<y, x>> \in R)
  BY <1>2, WFMin
<1>4. \A y \in T : x <= y
  <2> SUFFICES ASSUME NEW y \in T PROVE x <= y
    OBVIOUS
  <2>1. ~(<<y, x>> \in R)
    BY <1>3
  <2>2. <<y, x>> \in Nat \X Nat
    OBVIOUS
  <2> QED
    BY <2>1, <2>2 DEF R
<1> QED
  BY <1>4

LEMMA Induction ==
  ASSUME NEW S, S \subseteq Nat, 0 \in S, \A n \in S : n + 1 \in S
  PROVE  S = Nat
<1> SUFFICES ASSUME S # Nat PROVE FALSE
  OBVIOUS
<1>1. Nat \ S # {} /\ Nat \ S \subseteq Nat
  OBVIOUS
<1>2. PICK x \in Nat \ S : \A y \in Nat \ S : x <= y
  BY <1>1, LeastMember
<1>3. x # 0 /\ x - 1 \in Nat
  OBVIOUS
<1>4. x - 1 \in S
  BY <1>2, <1>3
<1> QED
  BY <1>4

(* The networks up to k have been loaded, the others are as constructed.   *)
LoadedTo(t, k, opens, found) ==
  /\ t \in Server /\ Sound(t)
  /\ \A n \in Network : IF n <= k THEN Restored(t, n, opens, found) ELSE t.net[n] = NewNetwork

LEMMA NewServerSound ==
  ASSUME SetupAssumption
  PROVE  NewServer \in Server /\ Sound(NewServer)
<1>1. NewNetwork \in NetworkType
  BY DEF SetupAssumption, NewNetwork, NetworkType
<1>2. NewInterface \in InterfaceType
  <2>1. <<>> \in Seq(Network) /\ <<NONE, NONE>> \in (Nominal \cup {NONE}) \X Data
    BY DEF SetupAssumption
  <2> QED
    BY <2>1 DEF NewInterface, InterfaceType
<1>3. NewServer \in Server
  BY <1>1, <1>2 DEF NewServer, Server
<1>4. /\ \A n \in Network : NewServer.net[n].iface = Virtual
      /\ \A i \in Interface : ~NewServer.if[i].connected /\ NewServer.if[i].slots = <<>>
  BY DEF NewServer, NewNetwork, NewInterface
<1> QED
  BY <1>3, <1>4 DEF Sound

LEMMA LoadNext ==
  ASSUME SetupAssumption, file \in [Network -> NetworkType],
         NEW opens \in SUBSET Network, NEW found \in SUBSET Interface,
         NEW k \in Nat, NEW n \in Network, n = k + 1, NEW t, LoadedTo(t, k, opens, found)
  PROVE  LoadedTo(Load(t, n, opens, found), n, opens, found)
<1>1. PICK u : u = Load(t, n, opens, found)
  OBVIOUS
<1>2. t \in Server /\ Sound(t) /\ t.net[n] = NewNetwork
  BY DEF LoadedTo, Network
<1>3. u \in Server /\ OnlyNet(t, u, n) /\ Sound(u) /\ Restored(u, n, opens, found)
  BY <1>1, <1>2, LoadSet
<1>4. ASSUME NEW m \in Network
      PROVE  IF m <= n THEN Restored(u, m, opens, found) ELSE u.net[m] = NewNetwork
  <2>1. CASE m = n
    BY <1>3, <2>1 DEF Network
  <2>2. CASE m # n
    <3>1. u.net[m] = t.net[m] /\ (m <= n <=> m <= k)
      BY <1>3, <2>2 DEF OnlyNet, Network
    <3>2. IF m <= k THEN Restored(t, m, opens, found) ELSE t.net[m] = NewNetwork
      BY DEF LoadedTo
    <3> QED
      BY <3>1, <3>2 DEF Restored
  <2> QED
    BY <2>1, <2>2
<1> QED
  BY <1>1, <1>3, <1>4 DEF LoadedTo

(* The networks are loaded one after the other; the function that does it  *)
(* exists for every number of networks.                                    *)
LEMMA LoadAllSet ==
  ASSUME SetupAssumption, file \in [Network -> NetworkType],
         NEW opens \in SUBSET Network, NEW found \in SUBSET Interface
  PROVE  LoadedTo(LoadAll(opens, found), QCAN_NETWORK_MAX, opens, found)
<1> DEFINE H(g, n) == IF n = 0 THEN NewServer ELSE Load(g[n - 1], n, opens, found)
           S == {k \in Nat : \E g : g = [n \in 0 .. k |-> H(g, n)]}
           load == CHOOSE g : g = [n \in 0 .. QCAN_NETWORK_MAX |-> H(g, n)]
<1>1. QCAN_NETWORK_MAX \in Nat
  BY DEF SetupAssumption
<1>2. 0 \in S
  <2> DEFINE g == [n \in 0 .. 0 |-> NewServer]
  <2>1. g = [n \in 0 .. 0 |-> H(g, n)]
    OBVIOUS
  <2> QED
    BY <2>1
<1>3. ASSUME NEW k \in S PROVE k + 1 \in S
  <2>1. PICK g : g = [n \in 0 .. k |-> H(g, n)]
    OBVIOUS
  <2> DEFINE h == [n \in 0 .. k + 1 |-> IF n <= k THEN g[n] ELSE H(g, k + 1)]
  <2>2. ASSUME NEW n \in 0 .. k + 1 PROVE h[n] = H(h, n)
    <3>1. n # 0 => h[n - 1] = g[n - 1]
      OBVIOUS
    <3>2. h[n] = H(g, n)
      BY <2>1
    <3> QED
      BY <3>1, <3>2
  <2>3. h = [n \in 0 .. k + 1 |-> H(h, n)]
    BY <2>2
  <2> HIDE DEF h, H
  <2>4. \E f : f = [n \in 0 .. k + 1 |-> H(f, n)]
    BY <2>3
  <2> QED
    BY <2>4
<1>4. S = Nat
  <2>1. S \subseteq Nat
    OBVIOUS
  <2> HIDE DEF S
  <2> QED
    BY <1>2, <1>3, <2>1, Induction
<1>5. \E g : g = [n \in 0 .. QCAN_NETWORK_MAX |-> H(g, n)]
  BY <1>1, <1>4
<1>6. load = [n \in 0 .. QCAN_NETWORK_MAX |-> H(load, n)]
  <2> HIDE DEF H
  <2> QED
    BY <1>5
<1>7. LoadAll(opens, found) = load[QCAN_NETWORK_MAX]
  BY DEF LoadAll
<1> HIDE DEF load
<1> DEFINE L == {k \in Nat : k <= QCAN_NETWORK_MAX => LoadedTo(load[k], k, opens, found)}
<1>8. 0 \in L
  <2>1. load[0] = NewServer
    BY <1>1, <1>6
  <2>2. \A n \in Network : NewServer.net[n] = NewNetwork /\ ~(n <= 0)
    BY DEF NewServer, Network
  <2> QED
    BY <2>1, <2>2, NewServerSound DEF LoadedTo
<1>9. ASSUME NEW k \in L PROVE k + 1 \in L
  <2> SUFFICES ASSUME k + 1 <= QCAN_NETWORK_MAX
               PROVE  LoadedTo(load[k + 1], k + 1, opens, found)
    OBVIOUS
  <2>1. PICK n : n = k + 1
    OBVIOUS
  <2>2. n \in Network /\ n \in 0 .. QCAN_NETWORK_MAX /\ n # 0 /\ n - 1 = k
    BY <1>1, <2>1 DEF Network
  <2>3. load[n] = Load(load[k], n, opens, found)
    BY <1>6, <2>2
  <2>4. LoadedTo(load[k], k, opens, found)
    BY <1>1
  <2> QED
    BY <2>1, <2>2, <2>3, <2>4, LoadNext
<1>10. L = Nat
  <2>1. L \subseteq Nat
    OBVIOUS
  <2> HIDE DEF L
  <2> QED
    BY <1>8, <1>9, <2>1, Induction
<1> QED
  BY <1>1, <1>7, <1>10

------------------------------------------------------------------------------
(* The settings file holds what the last quit left behind.                 *)
Saved ==
  \A n \in Network :
    /\ file[n].nom = left[n].nom /\ file[n].dat = left[n].dat
    /\ file[n].enabled = left[n].enabled /\ file[n].error = left[n].error
    /\ file[n].fd = left[n].fd
    /\ left[n].iface # Virtual => file[n].iface = left[n].iface

(* The inductive invariant: of the server, and of the program.             *)
SetupInv ==
  /\ running \in BOOLEAN /\ untouched \in BOOLEAN /\ changes \in 0 .. MaxChange
  /\ s \in Server /\ Sound(s)
  /\ file \in [Network -> NetworkType] /\ left \in [Network -> NetworkType]
  /\ Saved /\ SettingsSurvive

CommandType ==
  [rates : Rates \cup {Empty}, mode : {Empty} \cup {<<m>> : m \in Mode}, reset : BOOLEAN]
ClientType ==
  [teServerStateP : {"unknown", "active", "inactive", "crashed"},
   clJsonNetworkP : {Empty} \cup ((Nominal \cup {NONE}) \X Data), clJsonCommandP : CommandType]
ClientInv ==
  /\ c \in ClientType /\ up \in Seq(CommandType)
  /\ down \in Seq((Nominal \cup {NONE}) \X Data)

(* What every operation on the setup has to give.                          *)
Good(t) == t \in Server /\ Sound(t)

LEMMA InitInv ==
  ASSUME SetupAssumption, Init
  PROVE  SetupInv
<1>1. Defaults \in NetworkType
  BY DEF SetupAssumption, Defaults, NewNetwork, NetworkType
<1>2. file \in [Network -> NetworkType] /\ left = file
  BY <1>1 DEF Init
<1>3. Saved
  BY <1>2 DEF Saved
<1> QED
  <2>1. running = FALSE /\ untouched = FALSE /\ changes \in 0 .. MaxChange
    BY DEF Init, SetupAssumption
  <2>2. s \in Server /\ Sound(s)
    BY NewServerSound DEF Init
  <2>3. SettingsSurvive
    BY <2>1 DEF SettingsSurvive
  <2> QED
    BY <1>2, <1>3, <2>1, <2>2, <2>3 DEF SetupInv

LEMMA BecomesInv ==
  ASSUME SetupInv, NEW t, Good(t), Becomes(t), changes' \in 0 .. MaxChange
  PROVE  SetupInv'
BY DEF Becomes, Good, SetupInv, Saved, SettingsSurvive

LEMMA UserInv ==
  ASSUME SetupAssumption, SetupInv, NEW t, Good(t), User(t)
  PROVE  SetupInv'
<1>1. Becomes(t) /\ changes' \in 0 .. MaxChange
  BY DEF User, Counted, SetupInv, SetupAssumption
<1> QED
  BY <1>1, BecomesInv

LEMMA StartInv ==
  ASSUME SetupAssumption, SetupInv, NEW opens \in SUBSET Network,
         NEW found \in SUBSET Interface, Start(opens, found)
  PROVE  SetupInv'
<1>1. LoadedTo(LoadAll(opens, found), QCAN_NETWORK_MAX, opens, found)
  BY LoadAllSet DEF SetupInv
<1>2. s' \in Server /\ Sound(s') /\ \A n \in Network : Restored(s', n, opens, found)
  BY <1>1 DEF Start, LoadedTo, SetupAssumption, Network
<1>3. changes' \in 0 .. MaxChange
  BY DEF Start, Counted, SetupInv, SetupAssumption
<1>4. Saved'
  BY DEF Start, SetupInv, Saved
<1>5. SettingsSurvive'
  <2> SUFFICES ASSUME untouched', NEW n \in Network
               PROVE  /\ s'.net[n].nom = left[n].nom /\ s'.net[n].enabled = left[n].enabled
                      /\ s'.net[n].error = left[n].error /\ s'.net[n].fd = left[n].fd
                      /\ left[n].fd => s'.net[n].dat = left[n].dat
                      /\ left[n].iface # Virtual => s'.net[n].iface = left[n].iface
    BY DEF Start, SettingsSurvive
  <2>1. opens = Network /\ found = Interface
    BY DEF Start
  <2>2. Restored(s', n, opens, found)
    BY <1>2
  <2>3. left[n] \in NetworkType /\ file[n] \in NetworkType
    BY DEF SetupInv
  <2>4. /\ file[n].nom = left[n].nom /\ file[n].dat = left[n].dat
        /\ file[n].enabled = left[n].enabled /\ file[n].error = left[n].error
        /\ file[n].fd = left[n].fd
        /\ left[n].iface # Virtual => file[n].iface = left[n].iface
    BY DEF SetupInv, Saved
  <2>5. s'.net[n].enabled = left[n].enabled
    <3>1. s'.net[n].enabled = (left[n].enabled /\ TRUE)
      BY <2>1, <2>2, <2>4, Zenon DEF Restored
    <3>2. left[n].enabled \in BOOLEAN
      BY <2>3 DEF NetworkType
    <3> QED
      BY <3>1, <3>2
  <2>6. s'.net[n].nom = left[n].nom /\ s'.net[n].error = left[n].error /\ s'.net[n].fd = left[n].fd
    BY <2>2, <2>4 DEF Restored
  <2>7. left[n].fd => s'.net[n].dat = left[n].dat
    BY <2>2, <2>4 DEF Restored
  <2>8. ASSUME left[n].iface # Virtual PROVE s'.net[n].iface = left[n].iface
    <3>1. left[n].iface \in Interface
      BY <2>3, <2>8 DEF NetworkType
    <3> QED
      BY <2>1, <2>2, <2>4, <2>8, <3>1 DEF Restored
  <2> QED
    BY <2>5, <2>6, <2>7, <2>8
<1> QED
  BY <1>2, <1>3, <1>4, <1>5 DEF Start, SetupInv

LEMMA QuitInv ==
  ASSUME SetupAssumption, SetupInv, Quit
  PROVE  SetupInv'
<1>1. s'= NewServer /\ Good(NewServer)
  BY NewServerSound DEF Quit, Good
<1>2. \A n \in Network : s.net[n] \in NetworkType /\ s.widget[n] \in Interface \cup {Virtual}
  BY DEF SetupInv, Server
<1>3. file' \in [Network -> NetworkType]
  BY <1>2 DEF Quit, NetworkType
<1>4. left' \in [Network -> NetworkType]
  BY DEF Quit, SetupInv, Server
<1>5. Saved'
  <2> SUFFICES ASSUME NEW n \in Network
               PROVE  /\ file'[n].nom = left'[n].nom /\ file'[n].dat = left'[n].dat
                      /\ file'[n].enabled = left'[n].enabled /\ file'[n].error = left'[n].error
                      /\ file'[n].fd = left'[n].fd
                      /\ left'[n].iface # Virtual => file'[n].iface = left'[n].iface
    BY DEF Saved
  <2>1. file'[n] = [s.net[n] EXCEPT !.iface = s.widget[n]] /\ left'[n] = s.net[n]
    BY DEF Quit
  <2>2. s.net[n].iface # Virtual => s.widget[n] = s.net[n].iface
    BY DEF SetupInv, Sound
  <2> QED
    BY <1>2, <2>1, <2>2 DEF NetworkType
<1> QED
  BY <1>1, <1>3, <1>4, <1>5 DEF Quit, SetupInv, Good, SettingsSurvive

LEMMA KillInv ==
  ASSUME SetupAssumption, SetupInv, Kill
  PROVE  SetupInv'
BY NewServerSound DEF Kill, SetupInv, Saved, SettingsSurvive

LEMMA SetDefaultInv ==
  ASSUME SetupAssumption, SetupInv, NEW opens \in SUBSET Network, onServerSetDefault(opens)
  PROVE  SetupInv'
<1> DEFINE net == [n \in Network |-> setNetworkEnabled(s, n, TRUE, n \in opens).net[n]]
<1>1. PICK t : t = [s EXCEPT !.net = net]
  OBVIOUS
<1>2. User(t)
  BY <1>1 DEF onServerSetDefault
<1>3. ASSUME NEW n \in Network
      PROVE  /\ net[n] \in NetworkType /\ net[n].iface = s.net[n].iface
             /\ net[n].nom = s.net[n].nom /\ net[n].dat = s.net[n].dat
  <2>1. PICK o \in BOOLEAN : o = (n \in opens)
    <3>1. (n \in opens) \in BOOLEAN
      OBVIOUS
    <3> QED
      BY <3>1, Zenon
  <2>2. PICK b \in BOOLEAN : b = TRUE
    OBVIOUS
  <2>3. PICK u : u = setNetworkEnabled(s, n, b, o)
    OBVIOUS
  <2>4. Enabled(s, u, n, b, o)
    BY <2>3, EnabledSet DEF SetupInv
  <2>5. net[n] = u.net[n]
    BY <2>1, <2>2, <2>3
  <2> QED
    BY <2>4, <2>5 DEF Enabled, Flagged, SameRates, Server
<1> HIDE DEF net
<1>4. t \in Server /\ t.net = net /\ t.if = s.if /\ t.widget = s.widget
  <2>1. net \in [Network -> NetworkType]
    BY <1>3 DEF net
  <2> QED
    BY <1>1, <2>1 DEF SetupInv, Server
<1>5. SameRates(s, t)
  BY <1>3, <1>4 DEF SameRates
<1>6. Good(t)
  BY <1>4, <1>5, SameRatesSound DEF SetupInv, Good
<1> QED
  BY <1>2, <1>6, UserInv

(* The operations on one network, each from a sound server to another.     *)
LEMMA BitrateGood ==
  ASSUME SetupAssumption, NEW t, Good(t), NEW n \in Network,
         NEW nom \in Nominal \cup {NONE}, NEW dat \in Data
  PROVE  Good(setBitrate(t, n, nom, dat))
<1>1. PICK u : u = setBitrate(t, n, nom, dat)
  OBVIOUS
<1>2. t \in Server /\ Sound(t)
  BY DEF Good
<1>3. Rerated(t, u, n, nom, dat)
  BY <1>1, <1>2, BitrateSet
<1>4. Sound(u)
  BY <1>1, <1>2, BitrateSound
<1> QED
  BY <1>1, <1>3, <1>4 DEF Good, Rerated

LEMMA FlagGood ==
  ASSUME NEW t, Good(t), NEW n \in Network, NEW b \in BOOLEAN
  PROVE  /\ Good(setErrorFrameEnabled(t, n, b)) /\ Good(setFlexibleDataEnabled(t, n, b))
         /\ Good(setListenOnlyEnabled(t, n, b))
<1>1. t \in Server /\ Sound(t)
  BY DEF Good
<1>2. ASSUME NEW u, Flagged(t, u, n) PROVE Good(u)
  BY <1>1, <1>2, SameRatesSound DEF Flagged, Good
<1>3. Good(setErrorFrameEnabled(t, n, b))
  <2>1. PICK u : u = setErrorFrameEnabled(t, n, b)
    OBVIOUS
  <2>2. ErrorFrames(t, u, n, b)
    BY <1>1, <2>1, ErrorFrameSet
  <2> QED
    BY <1>2, <2>1, <2>2 DEF ErrorFrames
<1>4. Good(setFlexibleDataEnabled(t, n, b))
  <2>1. PICK u : u = setFlexibleDataEnabled(t, n, b)
    OBVIOUS
  <2>2. FlexibleData(t, u, n, b)
    BY <1>1, <2>1, FlexibleDataSet
  <2> QED
    BY <1>2, <2>1, <2>2 DEF FlexibleData
<1>5. Good(setListenOnlyEnabled(t, n, b))
  <2>1. PICK u : u = setListenOnlyEnabled(t, n, b)
    OBVIOUS
  <2>2. ListenOnly(t, u, n)
    BY <1>1, <2>1, ListenOnlySet
  <2> QED
    BY <1>2, <2>1, <2>2 DEF ListenOnly
<1> QED
  BY <1>3, <1>4, <1>5

LEMMA EnabledGood ==
  ASSUME NEW t, Good(t), NEW n \in Network, NEW b \in BOOLEAN, NEW opens \in BOOLEAN
  PROVE  Good(setNetworkEnabled(t, n, b, opens))
<1>1. PICK u : u = setNetworkEnabled(t, n, b, opens)
  OBVIOUS
<1>2. t \in Server /\ Sound(t)
  BY DEF Good
<1>3. Enabled(t, u, n, b, opens)
  BY <1>1, <1>2, EnabledSet
<1> QED
  BY <1>1, <1>2, <1>3, SameRatesSound DEF Enabled, Flagged, Good

LEMMA ChangeGood ==
  ASSUME SetupAssumption, NEW t, Good(t), NEW n \in Network, NEW i \in Interface \cup {Virtual}
  PROVE  Good(onInterfaceChange(t, n, i))
<1>1. PICK u : u = onInterfaceChange(t, n, i)
  OBVIOUS
<1>2. t \in Server /\ Sound(t)
  BY DEF Good
<1>3. Changed(t, u, n, i) /\ Sound(u)
  BY <1>1, <1>2, ChangeSet
<1> QED
  BY <1>1, <1>3 DEF Changed, Good

LEMMA ConnectionInv ==
  ASSUME SetupAssumption, SetupInv, NEW i \in Interface, onInterfaceConnectionChanged(i)
  PROVE  SetupInv'
<1>1. PICK n : n = Head(s.if[i].slots)
  OBVIOUS
<1>2. n \in Network
  <2>1. s.if[i].slots \in Seq(Network)
    BY DEF SetupInv, Server, InterfaceType
  <2> QED
    BY <1>1, <2>1 DEF onInterfaceConnectionChanged
<1>3. PICK u : u = removeInterface(stopInterface(s, n), n)
  OBVIOUS
<1>4. User(u)
  BY <1>1, <1>3 DEF onInterfaceConnectionChanged
<1>5. u \in Server /\ OnlyNet(s, u, n)
  BY <1>2, <1>3, LeaveSet DEF SetupInv
<1>6. Sound(u)
  BY <1>2, <1>3, LeaveSound DEF SetupInv
<1> QED
  BY <1>4, <1>5, <1>6, UserInv DEF Good

(* No step of the server breaks the invariant.                             *)
LEMMA NextInv ==
  ASSUME SetupAssumption, SetupInv, Next
  PROVE  SetupInv'
<1>1. Good(s) /\ \A n \in Network : s.net[n] \in NetworkType
  BY DEF SetupInv, Good, Server
<1>2. CASE \E opens \in SUBSET Network, found \in SUBSET Interface : Start(opens, found)
  BY <1>2, StartInv
<1>3. CASE Quit \/ Kill
  BY <1>3, QuitInv, KillInv
<1>4. CASE \E opens \in SUBSET Network : onServerSetDefault(opens)
  BY <1>4, SetDefaultInv
<1>5. ASSUME NEW n \in Network, onNetworkConfBitrateNom(n)
      PROVE  SetupInv'
  <2>1. PICK r \in Nominal : User(setBitrate(s, n, r, s.net[n].dat))
    BY <1>5 DEF onNetworkConfBitrateNom
  <2>2. PICK dat : dat = s.net[n].dat
    OBVIOUS
  <2>3. dat \in Data /\ r \in Nominal \cup {NONE}
    BY <1>1, <2>2 DEF NetworkType
  <2>4. Good(setBitrate(s, n, r, dat))
    BY <1>1, <2>3, BitrateGood
  <2> QED
    BY <2>1, <2>2, <2>4, UserInv
<1>6. ASSUME NEW n \in Network, onNetworkConfBitrateDat(n)
      PROVE  SetupInv'
  <2>1. PICK r \in Data : User(setBitrate(s, n, s.net[n].nom, r))
    BY <1>6 DEF onNetworkConfBitrateDat
  <2>2. PICK nom : nom = s.net[n].nom
    OBVIOUS
  <2>3. nom \in Nominal \cup {NONE}
    BY <1>1, <2>2 DEF NetworkType
  <2>4. Good(setBitrate(s, n, nom, r))
    BY <1>1, <2>3, BitrateGood
  <2> QED
    BY <2>1, <2>2, <2>4, UserInv
<1>7. ASSUME NEW n \in Network, onNetworkConfCanFd(n)
      PROVE  SetupInv'
  BY <1>1, <1>7, FlagGood, UserInv DEF onNetworkConfCanFd
<1>8. ASSUME NEW n \in Network, onNetworkConfErrorFrames(n)
      PROVE  SetupInv'
  BY <1>1, <1>8, FlagGood, UserInv DEF onNetworkConfErrorFrames
<1>9. ASSUME NEW n \in Network, onNetworkConfListenOnly(n)
      PROVE  SetupInv'
  BY <1>1, <1>9, FlagGood, UserInv DEF onNetworkConfListenOnly
<1>10. ASSUME NEW n \in Network, onNetworkReset(n)
       PROVE  SetupInv'
  BY <1>1, <1>10, UserInv DEF onNetworkReset, reset
<1>11. ASSUME NEW n \in Network, setInterface(n)
       PROVE  SetupInv'
  BY <1>1, <1>11, ChangeGood, UserInv DEF setInterface
<1>12. CASE \E i \in Interface : onInterfaceConnectionChanged(i)
  BY <1>12, ConnectionInv
<1> QED
  BY <1>2, <1>3, <1>4, <1>5, <1>6, <1>7, <1>8, <1>9, <1>10, <1>11, <1>12 DEF Next

------------------------------------------------------------------------------
(* The messages of the program are commands, whatever it has set and       *)
(* however often the server ends in between.                               *)
LEMMA ClientStep ==
  ASSUME SetupAssumption, SettingsAssumption, SetupInv, ClientInv, SettingsNext
  PROVE  ClientInv'
<1> DEFINE Pair == (Nominal \cup {NONE}) \X Data
<1>1. c \in ClientType /\ up \in Seq(CommandType) /\ down \in Seq(Pair)
  BY DEF ClientInv
<1>2. c.clJsonCommandP \in CommandType
  BY <1>1 DEF ClientType
<1>3. Settings \in Pair
  BY DEF Settings, SettingsAssumption, SetupInv, Server, NetworkType
<1>4. NoCommand \in CommandType
  BY DEF NoCommand, CommandType
<1>5. <<>> \in Seq(CommandType) /\ <<>> \in Seq(Pair)
  OBVIOUS
<1> HIDE DEF Pair
<1>6. CASE connectToServer
  <2>1. c' \in ClientType
    BY <1>1, <1>6 DEF connectToServer, ClientType
  <2>2. down' \in Seq(Pair)
    <3>1. PICK pair \in Pair : pair = Settings
      BY <1>3
    <3>2. <<pair>> \in Seq(Pair) /\ down' = <<pair>>
      BY <1>6, <3>1 DEF connectToServer
    <3> QED
      BY <3>2
  <2> QED
    BY <1>5, <1>6, <2>1, <2>2 DEF connectToServer, ClientInv, Pair
<1>7. CASE setBitrateCommand
  <2>1. PICK r \in Rates : c' = [c EXCEPT !.clJsonCommandP.rates = r]
    BY <1>7 DEF setBitrateCommand
  <2>2. PICK m : m = [c.clJsonCommandP EXCEPT !.rates = r]
    OBVIOUS
  <2>3. m \in CommandType
    BY <1>2, <2>2 DEF CommandType
  <2>4. c' = [c EXCEPT !.clJsonCommandP = m]
    BY <1>1, <2>1, <2>2 DEF ClientType
  <2>5. c' \in ClientType
    BY <1>1, <2>3, <2>4 DEF ClientType
  <2> QED
    BY <1>1, <1>7, <2>5 DEF setBitrateCommand, ClientInv, Pair
<1>8. CASE setModeCommand
  <2>1. PICK k \in Mode : c' = [c EXCEPT !.clJsonCommandP.mode = <<k>>]
    BY <1>8 DEF setModeCommand
  <2>2. PICK m : m = [c.clJsonCommandP EXCEPT !.mode = <<k>>]
    OBVIOUS
  <2>3. m \in CommandType
    BY <1>2, <2>2 DEF CommandType
  <2>4. c' = [c EXCEPT !.clJsonCommandP = m]
    BY <1>1, <2>1, <2>2 DEF ClientType
  <2>5. c' \in ClientType
    BY <1>1, <2>3, <2>4 DEF ClientType
  <2> QED
    BY <1>1, <1>8, <2>5 DEF setModeCommand, ClientInv, Pair
<1>9. CASE resetCommand
  <2>1. PICK m : m = [c.clJsonCommandP EXCEPT !.reset = TRUE]
    OBVIOUS
  <2>2. m \in CommandType
    BY <1>2, <2>1 DEF CommandType
  <2>3. c' = [c EXCEPT !.clJsonCommandP = m]
    BY <1>1, <1>9, <2>1 DEF ClientType, resetCommand
  <2>4. c' \in ClientType
    BY <1>1, <2>2, <2>3 DEF ClientType
  <2> QED
    BY <1>1, <1>9, <2>4 DEF resetCommand, ClientInv, Pair
<1>10. CASE send
  <2>1. c' \in ClientType
    BY <1>1, <1>4, <1>10 DEF send, ClientType
  <2>2. up' \in Seq(CommandType)
    BY <1>1, <1>2, <1>10 DEF send
  <2> QED
    BY <1>1, <1>10, <2>1, <2>2 DEF send, ClientInv, Pair
<1>11. CASE onSocketMessageReceived
  <2>1. Head(down) \in Pair /\ down' \in Seq(Pair)
    BY <1>1, <1>11 DEF onSocketMessageReceived
  <2>2. c' \in ClientType
    BY <1>1, <1>11, <2>1 DEF onSocketMessageReceived, ClientType, Pair
  <2> QED
    BY <1>1, <1>11, <2>1, <2>2 DEF onSocketMessageReceived, ClientInv, Pair
<1>12. CASE onSocketDisconnect
  <2>1. c' \in ClientType
    BY <1>1, <1>12 DEF onSocketDisconnect, ClientType
  <2> QED
    BY <1>1, <1>12, <2>1 DEF onSocketDisconnect, ClientInv, Pair
<1>13. CASE closeConnection
  BY <1>1, <1>5, <1>13 DEF closeConnection, ClientInv, Pair
<1>14. CASE attachWebSocket
  <2>1. down' \in Seq(Pair)
    BY <1>1, <1>3, <1>14 DEF attachWebSocket
  <2> QED
    BY <1>1, <1>14, <2>1 DEF attachWebSocket, ClientInv, Pair
<1>15. CASE onWebSocketTextData
  BY <1>1, <1>15 DEF onWebSocketTextData, ClientInv, Pair
<1>16. CASE Others
  BY <1>1, <1>5, <1>16 DEF Others, client, ClientInv, Pair
<1> QED
  BY <1>6, <1>7, <1>8, <1>9, <1>10, <1>11, <1>12, <1>13, <1>14, <1>15, <1>16 DEF SettingsNext

(* A command of the program is carried out on a sound server.              *)
LEMMA CommandGood ==
  ASSUME SetupAssumption, SettingsAssumption, SetupInv,
         NEW m \in CommandType, NEW opens \in BOOLEAN
  PROVE  Good(Command(m, opens))
<1>1. Good(s) /\ teChannelP \in Network
  BY DEF SetupInv, Good, SettingsAssumption
<1>2. PICK t1 : t1 = IF m.rates = Empty THEN s
                     ELSE setBitrate(s, teChannelP, m.rates[1], m.rates[2])
  OBVIOUS
<1>3. Good(t1)
  <2>1. CASE m.rates = Empty
    BY <1>1, <1>2, <2>1
  <2>2. CASE m.rates # Empty
    <3>1. PICK nom, dat : nom = m.rates[1] /\ dat = m.rates[2]
      OBVIOUS
    <3>2. nom \in Nominal \cup {NONE} /\ dat \in Data
      BY <2>2, <3>1 DEF CommandType, SettingsAssumption
    <3> QED
      BY <1>1, <1>2, <2>2, <3>1, <3>2, BitrateGood
  <2> QED
    BY <2>1, <2>2
<1>4. PICK b1 \in BOOLEAN, b2 \in BOOLEAN :
        b1 = (m.mode # <<"init">>) /\ b2 = (m.mode = <<"listen">>)
  <2>1. (m.mode # <<"init">>) \in BOOLEAN /\ (m.mode = <<"listen">>) \in BOOLEAN
    OBVIOUS
  <2> QED
    BY <2>1, Zenon
<1>5. PICK t2 : t2 = setNetworkEnabled(t1, teChannelP, b1, opens)
  OBVIOUS
<1>6. PICK t3 : t3 = setListenOnlyEnabled(t2, teChannelP, b2)
  OBVIOUS
<1>7. Good(t2)
  BY <1>1, <1>3, <1>5, EnabledGood
<1>8. Good(t3)
  BY <1>1, <1>6, <1>7, FlagGood
<1>9. Command(m, opens) \in {t1, t2, t3}
  BY <1>2, <1>4, <1>5, <1>6 DEF Command, reset
<1> QED
  BY <1>3, <1>7, <1>8, <1>9

LEMMA SetupStep ==
  ASSUME SetupAssumption, SettingsAssumption, SetupInv, ClientInv, SettingsNext
  PROVE  SetupInv'
<1>1. CASE UNCHANGED vars
  BY <1>1 DEF vars, SetupInv, Saved, SettingsSurvive
<1>2. CASE onWebSocketTextData
  <2>1. PICK opens \in BOOLEAN : Becomes(Command(Head(up), opens))
    BY <1>2 DEF onWebSocketTextData
  <2>2. Head(up) \in CommandType
    BY <1>2 DEF onWebSocketTextData, ClientInv
  <2>3. Good(Command(Head(up), opens))
    BY <2>2, CommandGood
  <2>4. changes' \in 0 .. MaxChange
    BY <1>2 DEF onWebSocketTextData, SetupInv
  <2> QED
    BY <2>1, <2>3, <2>4, BecomesInv
<1>3. CASE Others
  BY <1>3, NextInv DEF Others
<1> QED
  BY <1>1, <1>2, <1>3 DEF SettingsNext, connectToServer, setBitrateCommand, setModeCommand,
     resetCommand, send, onSocketMessageReceived, onSocketDisconnect, closeConnection,
     attachWebSocket

THEOREM SetupInvariance ==
  SettingsSpec => [](SetupInv /\ ClientInv)
<1>1. SettingsInit => SetupInv /\ ClientInv
  <2> SUFFICES ASSUME SettingsInit PROVE SetupInv /\ ClientInv
    OBVIOUS
  <2>1. SetupInv
    BY SetupAssumption, InitInv DEF SettingsInit
  <2>2. NoCommand \in CommandType /\ <<>> \in Seq(CommandType)
    BY DEF NoCommand, CommandType
  <2>3. c \in ClientType
    BY <2>2 DEF SettingsInit, ClientType
  <2> QED
    BY <2>1, <2>2, <2>3 DEF SettingsInit, ClientInv
<1>2. SetupInv /\ ClientInv /\ [SettingsNext]_allvars => (SetupInv /\ ClientInv)'
  <2> SUFFICES ASSUME SetupInv, ClientInv, [SettingsNext]_allvars PROVE (SetupInv /\ ClientInv)'
    OBVIOUS
  <2>1. CASE SettingsNext
    BY <2>1, SetupAssumption, SettingsAssumption, SetupStep, ClientStep
  <2>2. CASE UNCHANGED allvars
    BY <2>2 DEF allvars, SetupInv, ClientInv, Saved, SettingsSurvive
  <2> QED
    BY <2>1, <2>2
<1> QED
  BY <1>1, <1>2, PTL DEF SettingsSpec

(* The members of the networks and the interfaces and the values of the    *)
(* settings file keep their types, whatever the dialog, the plug-ins and a *)
(* settings program do (qcan_network.hpp, qcan_interface_template.hpp).    *)
THEOREM SetupTypes ==
  SettingsSpec => []SetupTypeOK
<1>1. SetupInv => SetupTypeOK
  BY DEF SetupInv, SetupTypeOK, Server
<1> QED
  BY <1>1, SetupInvariance, PTL

(* A connected interface of one network has taken the bit rates that the   *)
(* network shows, after every change of them, of CAN FD and of the         *)
(* interface, unless the interface refuses these (setBitrate and           *)
(* startInterface of qcan_network.cpp).                                    *)
THEOREM RatesReachTheInterface ==
  SettingsSpec => []RatesGiven
<1>1. SetupInv => RatesGiven
  BY DEF SetupInv, RatesGiven, Sound, Owns, HasRates
<1> QED
  BY <1>1, SetupInvariance, PTL

(* A connected interface belongs to a network; if to one alone, its        *)
(* signals go there and nowhere else (addInterface, removeInterface).      *)
THEOREM NoInterfaceLeftRunning ==
  SettingsSpec => []InService
<1>1. SetupInv => InService
  <2> SUFFICES ASSUME SetupInv, NEW i \in Interface, s.if[i].connected
               PROVE  /\ \E n \in Network : s.net[n].iface = i
                      /\ \A n \in Network : Owns(n, i) => s.if[i].slots = <<n>>
    BY DEF InService
  <2> QED
    BY DEF SetupInv, Sound, Owns
<1> QED
  BY <1>1, SetupInvariance, PTL

(* What the server had when it quit is there after the next start, for     *)
(* every number of networks (the destructor and the constructor of         *)
(* qcan_server_dialog.cpp).                                                *)
THEOREM SettingsAreRestored ==
  SettingsSpec => []SettingsSurvive
<1>1. SetupInv => SettingsSurvive
  BY DEF SetupInv
<1> QED
  BY <1>1, SetupInvariance, PTL
===============================================================================
