-------------------------- MODULE QCanNetworkProofs --------------------------
(***************************************************************************)
(* Theorems about a CAN network, for any number of sockets and frames: it  *)
(* is a bus, nobody is left out, and its counters are exact.               *)
(*                                                                         *)
(* NetworkInv says where the loop that copies a frame is.  The sender is   *)
(* known by its position, which holds because lists name nobody twice and  *)
(* only the list of WebSockets shrinks, while no WebSocket is the source.  *)
(* A member the loop has still to come to has no frame that is as late as  *)
(* the one it copies; one it has passed has that frame, or is the          *)
(* WebSocket that a loss put in the place the loop was done with.          *)
(***************************************************************************)
EXTENDS QCanNetwork, FiniteSetTheorems, SequenceTheorems, TLAPS

Jobs == [phase : {"interface", "local", "web", "stuck"}, source : {"local", "web", "if"},
         pos : Nat, frame : Frame, index : Nat]

TypeOK ==
  /\ btNetworkEnabledP \in BOOLEAN /\ pclInterfaceP \in BOOLEAN
  /\ clLocalSockListP \in Seq(Local) /\ clWebSockListP \in Seq(Web)
  /\ ulCntFrameCanP \in Nat /\ ulCntFrameErrP \in Nat
  /\ inbox \in [Member -> Seq(Frame)] /\ outbox \in [Member -> Seq(Frame)]
  /\ job \in {Idle} \cup Jobs
  /\ sender \in [Frame -> Member \cup {NoMember}]
  /\ log \in Seq(Frame) /\ joined \in [Member -> 0 .. Len(log)] /\ reset \in 0 .. Len(log)
  /\ skipped \subseteq Frame \X Web

(* A list names nobody twice, so that a position in it names a sender.     *)
Distinct(s) == \A i, j \in DOMAIN s : s[i] = s[j] => i = j

At(s, pos, m) == pos + 1 \in DOMAIN s /\ s[pos + 1] = m

(* The position a call was given still is the one of its sender.           *)
IsSource(m) ==
  \/ job.source = "local" /\ At(clLocalSockListP, job.pos, m)
  \/ job.source = "web" /\ At(clWebSockListP, job.pos, m)
  \/ job.source = "if" /\ m = Interface

SenderInv ==
  /\ Distinct(clLocalSockListP) /\ Distinct(clWebSockListP)
  /\ \A m \in Member : \A i \in DOMAIN inbox[m] : sender[inbox[m][i]] = m
  /\ \A i \in DOMAIN log : sender[log[i]] \in Member
  /\ job # Idle => IsSource(sender[job.frame])

(* The frame of the call is in log already, and some members have it.      *)
Copying == job.phase \in {"local", "web", "stuck"}

CopyInv ==
  Copying => /\ log # <<>> /\ log[Len(log)] = job.frame /\ reset < Len(log)
             /\ \A m \in Open : joined[m] < Len(log)

Later(s, m) == \E k \in DOMAIN s : k > job.index /\ s[k] = m

(* The members the call has still to write to, or to leave out.            *)
ToCome(m) ==
  \/ job.phase = "local" /\ (Later(clLocalSockListP, m) \/ m \in Elements(clWebSockListP))
  \/ job.phase = "web" /\ Later(clWebSockListP, m)

Placed(m) ==
  \E at \in [DOMAIN outbox[m] -> Due(m)] :
    /\ Selects(at, outbox[m])
    /\ ToCome(m) => \A i \in DOMAIN outbox[m] : at[i] < Len(log)

OrderInv == \A m \in Open : Placed(m)

Reached(m) ==
  \A i \in Due(m) : \/ log[i] \in Elements(outbox[m]) \/ <<log[i], m>> \in skipped
                    \/ i = Len(log) /\ ToCome(m)

(* A call that waits for the mutex never returns.                          *)
Stuck == job.phase = "stuck"

ReachInv == ~Stuck => \A m \in Open : Reached(m)

(* The frame of a call that is copying is counted at its end.              *)
CountInv ==
  LET n == IF Copying THEN Len(log) - 1 ELSE Len(log) IN
  /\ ulCntFrameCanP = Cardinality(Passed(n, Frame \ Error))
  /\ ulCntFrameErrP = Cardinality(Passed(n, Error))

NetworkInv == TypeOK /\ SenderInv /\ CopyInv /\ OrderInv /\ ReachInv /\ CountInv

------------------------------------------------------------------------------
(* What is left of a list without its element at i.                        *)
LEMMA WithoutOne ==
  ASSUME NEW S, NEW s \in Seq(S), NEW i \in DOMAIN s
  PROVE  /\ Without(s, i) \in Seq(S) /\ Len(Without(s, i)) = Len(s) - 1
         /\ DOMAIN Without(s, i) = 1 .. Len(s) - 1
         /\ \A j \in 1 .. Len(s) - 1 : Without(s, i)[j] = IF j < i THEN s[j] ELSE s[j + 1]
<1> DEFINE a == SubSeq(s, 1, i - 1)
           b == SubSeq(s, i + 1, Len(s))
<1>1. Len(s) \in Nat /\ DOMAIN s = 1 .. Len(s) OBVIOUS
<1>2. /\ a \in Seq(S) /\ Len(a) = i - 1 /\ \A j \in 1 .. i - 1 : a[j] = s[j]
  BY <1>1, SubSeqProperties
<1>3. /\ b \in Seq(S) /\ Len(b) = Len(s) - i /\ \A j \in 1 .. Len(s) - i : b[j] = s[i + j]
  BY <1>1, SubSeqProperties
<1> HIDE DEF a, b
<1>4. /\ a \o b \in Seq(S) /\ Len(a \o b) = Len(s) - 1
      /\ \A j \in 1 .. Len(s) - 1 : (a \o b)[j] = IF j < i THEN s[j] ELSE s[j + 1]
  <2>1. /\ a \o b \in Seq(S) /\ Len(a \o b) = Len(a) + Len(b)
        /\ \A j \in 1 .. Len(a) + Len(b) :
             (a \o b)[j] = IF j <= Len(a) THEN a[j] ELSE b[j - Len(a)]
    BY <1>2, <1>3, ConcatProperties
  <2>2. Len(a) + Len(b) = Len(s) - 1 BY <1>1, <1>2, <1>3
  <2>3. ASSUME NEW j \in 1 .. Len(s) - 1
        PROVE  (a \o b)[j] = IF j < i THEN s[j] ELSE s[j + 1]
    <3>1. CASE j < i BY <3>1, <1>1, <1>2, <2>1, <2>2
    <3>2. CASE ~(j < i)
      <4>1. (a \o b)[j] = b[j - Len(a)] BY <3>2, <1>1, <1>2, <2>1, <2>2
      <4>2. j - (i - 1) \in 1 .. Len(s) - i BY <3>2, <1>1
      <4>3. b[j - (i - 1)] = s[i + (j - (i - 1))] BY <4>2, <1>3
      <4>4. i + (j - (i - 1)) = j + 1 /\ j - Len(a) = j - (i - 1) BY <1>1, <1>2
      <4>5. (a \o b)[j] = s[j + 1] BY <4>1, <4>3, <4>4
      <4> QED BY <4>5, <3>2
    <3> QED BY <3>1, <3>2
  <2> QED BY <2>1, <2>2, <2>3
<1>5. Without(s, i) = a \o b BY DEF Without, a, b
<1> QED BY <1>4, <1>5

(* It stays without repetition, and has the elements of s but s[i].        *)
LEMMA WithoutDistinct ==
  ASSUME NEW S, NEW s \in Seq(S), NEW i \in DOMAIN s, Distinct(s)
  PROVE  /\ Distinct(Without(s, i))
         /\ Elements(Without(s, i)) = Elements(s) \ {s[i]}
<1> DEFINE t == Without(s, i)
<1>1. /\ Len(s) \in Nat /\ DOMAIN s = 1 .. Len(s)
      /\ DOMAIN t = 1 .. Len(s) - 1
      /\ \A j \in 1 .. Len(s) - 1 : t[j] = IF j < i THEN s[j] ELSE s[j + 1]
  BY WithoutOne
<1> HIDE DEF t
<1>2. Distinct(t)
  <2> SUFFICES ASSUME NEW j \in DOMAIN t, NEW k \in DOMAIN t, t[j] = t[k] PROVE j = k
    BY DEF Distinct
  <2> DEFINE p(n) == IF n < i THEN n ELSE n + 1
  <2>1. p(j) \in DOMAIN s /\ p(k) \in DOMAIN s /\ t[j] = s[p(j)] /\ t[k] = s[p(k)] BY <1>1
  <2>2. p(j) = p(k) BY <2>1 DEF Distinct
  <2> QED BY <2>2, <1>1
<1>3. ASSUME NEW x \in Elements(s) \ {s[i]} PROVE x \in Elements(t)
  <2>1. PICK k \in DOMAIN s : x = s[k] BY <1>3 DEF Elements
  <2>2. CASE k < i BY <2>1, <2>2, <1>1 DEF Elements
  <2>3. CASE k > i
    <3>1. k - 1 \in DOMAIN t /\ t[k - 1] = s[k] BY <2>3, <1>1
    <3> QED BY <3>1, <2>1 DEF Elements
  <2> QED BY <2>1, <2>2, <2>3, <1>1, <1>3
<1>4. ASSUME NEW x \in Elements(t) PROVE x \in Elements(s) \ {s[i]}
  <2>1. PICK k \in DOMAIN t : x = t[k] BY <1>4 DEF Elements
  <2>2. CASE k < i BY <2>1, <2>2, <1>1 DEF Elements, Distinct
  <2>3. CASE k >= i
    <3>1. k + 1 \in DOMAIN s /\ t[k] = s[k + 1] /\ k + 1 # i BY <2>1, <2>3, <1>1
    <3> QED BY <3>1, <2>1 DEF Elements, Distinct
  <2> QED BY <2>1, <2>2, <2>3, <1>1
<1> QED BY <1>2, <1>3, <1>4 DEF t

LEMMA AppendDistinct ==
  ASSUME NEW S, NEW s \in Seq(S), NEW x \in S, Distinct(s), x \notin Elements(s)
  PROVE  /\ Distinct(Append(s, x)) /\ Elements(Append(s, x)) = Elements(s) \cup {x}
BY AppendProperties DEF Distinct, Elements

LEMMA JobFields ==
  ASSUME NEW p \in {"interface", "local", "web", "stuck"}, NEW q \in {"local", "web", "if"},
         NEW k \in Nat, NEW f \in Frame, NEW n \in Nat
  PROVE  /\ Job(p, q, k, f, n) \in Jobs
         /\ Job(p, q, k, f, n).phase = p /\ Job(p, q, k, f, n).source = q
         /\ Job(p, q, k, f, n).pos = k /\ Job(p, q, k, f, n).frame = f
         /\ Job(p, q, k, f, n).index = n
BY DEF Job, Jobs

LEMMA Running ==
  ASSUME TypeOK, job.phase # "idle"
  PROVE  job \in Jobs /\ job # Idle
BY DEF TypeOK, Idle

LEMMA NotIdle == ASSUME job \in Jobs PROVE job # Idle /\ job.phase # "idle"
BY DEF Idle, Jobs

LEMMA GoneOn ==
  ASSUME job \in Jobs, NEW p \in {"interface", "local", "web", "stuck"}, NEW n \in Nat,
         Goto(p, n)
  PROVE  /\ job' \in Jobs /\ job'.phase = p /\ job'.source = job.source /\ job'.pos = job.pos
         /\ job'.frame = job.frame /\ job'.index = n
BY DEF Goto, Jobs

LEMMA Lists ==
  ASSUME TypeOK
  PROVE  /\ \A i \in DOMAIN clLocalSockListP : clLocalSockListP[i] \in Local
         /\ \A i \in DOMAIN clWebSockListP : clWebSockListP[i] \in Web
         /\ Elements(clLocalSockListP) \subseteq Local /\ Elements(clWebSockListP) \subseteq Web
         /\ Open \subseteq Member
<1>1. /\ \A i \in DOMAIN clLocalSockListP : clLocalSockListP[i] \in Local
      /\ \A i \in DOMAIN clWebSockListP : clWebSockListP[i] \in Web
  BY DEF TypeOK
<1> QED BY <1>1 DEF Elements, Open, Member

(* The member whose frames a handler reads.                                *)
LEMMA TakeType ==
  ASSUME TypeOK, NEW m \in Member, NEW q \in {"local", "web", "if"}, NEW k \in Nat,
         Take(q, m, k)
  PROVE  /\ inbox[m] # <<>> /\ inbox' = [inbox EXCEPT ![m] = Tail(inbox[m])]
         /\ inbox' \in [Member -> Seq(Frame)]
         /\ job' \in Jobs /\ job'.phase = "interface" /\ job'.source = q /\ job'.pos = k
         /\ job'.frame = inbox[m][1] /\ job'.frame \in Frame
         /\ \A n \in Member : \A i \in DOMAIN inbox'[n] :
              \E j \in DOMAIN inbox[n] : inbox'[n][i] = inbox[n][j]
<1>1. inbox[m] \in Seq(Frame) /\ inbox[m] # <<>> BY DEF TypeOK, Take
<1>2. /\ Tail(inbox[m]) \in Seq(Frame) /\ Head(inbox[m]) \in Frame
      /\ Head(inbox[m]) = inbox[m][1]
      /\ \A i \in DOMAIN Tail(inbox[m]) : i + 1 \in DOMAIN inbox[m] /\ Tail(inbox[m])[i] = inbox[m][i + 1]
  BY <1>1
<1>3. job' = Job("interface", q, k, inbox[m][1], 0) BY <1>2 DEF Take
<1>4. inbox' = [inbox EXCEPT ![m] = Tail(inbox[m])] BY DEF Take
<1>5. inbox' \in [Member -> Seq(Frame)] BY <1>2, <1>4 DEF TypeOK
<1>6. \A n \in Member : \A i \in DOMAIN inbox'[n] :
        \E j \in DOMAIN inbox[n] : inbox'[n][i] = inbox[n][j]
  BY <1>2, <1>4 DEF TypeOK
<1>7. inbox[m][1] \in Frame BY <1>2
<1>8. /\ job' \in Jobs /\ job'.phase = "interface" /\ job'.source = q /\ job'.pos = k
      /\ job'.frame = inbox[m][1]
  BY <1>3, <1>7, JobFields
<1> QED BY <1>1, <1>4, <1>5, <1>6, <1>7, <1>8

(* A handler that goes on reads frames of the same member.                 *)
LEMMA ReturnIs ==
  ASSUME TypeOK, SenderInv, job \in Jobs, Return
  PROVE  \/ job' = Idle /\ UNCHANGED inbox
         \/ /\ job.source # "web"
            /\ \E m \in Member : Take(job.source, m, job.pos) /\ IsSource(m)
<1>1. IsSource(sender[job.frame]) /\ job.source \in {"local", "web", "if"}
  BY NotIdle DEF SenderInv, Jobs
<1>2. CASE job.source = "local"
  <2>1. job.pos + 1 \in DOMAIN clLocalSockListP
    BY <1>1, <1>2 DEF IsSource, At
  <2>2. clLocalSockListP[job.pos + 1] \in Member BY <2>1, Lists DEF Member
  <2>3. IsSource(clLocalSockListP[job.pos + 1]) BY <2>1, <1>2 DEF IsSource, At
  <2>4. \/ job' = Idle /\ UNCHANGED inbox
        \/ Take(job.source, clLocalSockListP[job.pos + 1], job.pos)
    BY <1>2 DEF Return
  <2> QED BY <2>2, <2>3, <2>4, <1>2
<1>3. CASE job.source = "if"
  <2>1. Interface \in Member /\ IsSource(Interface) BY <1>3 DEF IsSource, Member
  <2> QED BY <2>1, <1>3 DEF Return
<1>4. CASE job.source = "web" BY <1>4 DEF Return
<1> QED BY <1>1, <1>2, <1>3, <1>4

------------------------------------------------------------------------------
(* Places in log.                                                          *)

(* Nothing changes for a member the step does not write to.                *)
LEMMA SameDue ==
  ASSUME TypeOK, NEW m \in Member, joined'[m] = joined[m], log' = log,
         \A i \in DOMAIN log : sender'[log[i]] = sender[log[i]]
  PROVE  Due(m)' = Due(m)
<1>1. \A i \in joined[m] + 1 .. Len(log) : i \in DOMAIN log BY DEF TypeOK
<1> QED BY <1>1 DEF Due

LEMMA KeepPlaced ==
  ASSUME NEW m, Placed(m), Due(m)' = Due(m), outbox'[m] = outbox[m], log' = log,
         ToCome(m)' => ToCome(m)
  PROVE  Placed(m)'
BY DEF Placed, Selects

LEMMA KeepReached ==
  ASSUME NEW m, Reached(m), Due(m)' = Due(m), outbox'[m] = outbox[m], log' = log,
         skipped \subseteq skipped',
         ToCome(m) => ToCome(m)' \/ <<log[Len(log)], m>> \in skipped' \/ Len(log) \notin Due(m)
  PROVE  Reached(m)'
BY DEF Reached

(* A frame at place n of log, later than all before, is added to out.      *)
LEMMA OneMore ==
  ASSUME TypeOK, NEW out \in Seq(Frame), NEW D \in SUBSET Nat, NEW at \in [DOMAIN out -> D],
         Selects(at, out), NEW n \in D, n \in DOMAIN log,
         \A i \in DOMAIN out : at[i] < n
  PROVE  \E b \in [DOMAIN Append(out, log[n]) -> D] : Selects(b, Append(out, log[n]))
<1> DEFINE new == Append(out, log[n])
           b == [i \in DOMAIN new |-> IF i \in DOMAIN out THEN at[i] ELSE n]
<1>1. Len(out) \in Nat /\ DOMAIN out = 1 .. Len(out) /\ log[n] \in Frame BY DEF TypeOK
<1>2. /\ DOMAIN new = 1 .. Len(out) + 1 /\ new[Len(out) + 1] = log[n]
      /\ \A i \in DOMAIN out : new[i] = out[i]
  BY <1>1
<1> HIDE DEF new
<1>3. b \in [DOMAIN new -> D] OBVIOUS
<1>4. ASSUME NEW i \in DOMAIN new PROVE new[i] = log[b[i]]
  BY <1>1, <1>2 DEF Selects
<1>5. ASSUME NEW i \in DOMAIN new, NEW j \in DOMAIN new, i < j PROVE b[i] < b[j]
  <2>1. i \in DOMAIN out BY <1>1, <1>2, <1>5
  <2>2. CASE j \in DOMAIN out BY <1>5, <2>1, <2>2 DEF Selects
  <2>3. CASE j \notin DOMAIN out BY <2>1, <2>3
  <2> QED BY <2>2, <2>3
<1> QED BY <1>3, <1>4, <1>5 DEF Selects, new

(* The running call writes its frame to m.                                 *)
LEMMA WritePlaced ==
  ASSUME TypeOK, NEW m \in Member, Placed(m), ToCome(m), ~ToCome(m)',
         log # <<>>, log[Len(log)] = job.frame, joined[m] < Len(log), sender[job.frame] # m,
         Due(m)' = Due(m), log' = log, outbox'[m] = Append(outbox[m], job.frame)
  PROVE  Placed(m)'
<1>1. Len(log) \in DOMAIN log /\ Len(log) \in Nat /\ joined[m] \in Nat BY DEF TypeOK
<1>2. Len(log) \in Due(m) /\ Due(m) \in SUBSET Nat
  <2>1. \A i \in joined[m] + 1 .. Len(log) : i \in Nat BY <1>1
  <2>2. Len(log) \in joined[m] + 1 .. Len(log) BY <1>1
  <2> QED BY <2>1, <2>2 DEF Due
<1>3. outbox[m] \in Seq(Frame) BY DEF TypeOK
<1>4. PICK at \in [DOMAIN outbox[m] -> Due(m)] :
        Selects(at, outbox[m]) /\ \A i \in DOMAIN outbox[m] : at[i] < Len(log)
  BY DEF Placed
<1>5. \E b \in [DOMAIN Append(outbox[m], log[Len(log)]) -> Due(m)] :
        Selects(b, Append(outbox[m], log[Len(log)]))
  BY <1>1, <1>2, <1>3, <1>4, OneMore
<1> QED BY <1>5 DEF Placed, Selects

LEMMA WriteReached ==
  ASSUME TypeOK, NEW m \in Member, Reached(m),
         log[Len(log)] = job.frame, job.frame \in Frame,
         Due(m)' = Due(m), log' = log, outbox'[m] = Append(outbox[m], job.frame),
         skipped \subseteq skipped'
  PROVE  Reached(m)'
<1>1. outbox[m] \in Seq(Frame) BY DEF TypeOK
<1>2. /\ DOMAIN outbox'[m] = DOMAIN outbox[m] \cup {Len(outbox[m]) + 1}
      /\ \A i \in DOMAIN outbox[m] : outbox'[m][i] = outbox[m][i]
      /\ outbox'[m][Len(outbox[m]) + 1] = job.frame
  BY <1>1
<1>3. Elements(outbox[m]) \cup {job.frame} \subseteq Elements(outbox'[m])
  BY <1>2 DEF Elements
<1> QED BY <1>3 DEF Reached

------------------------------------------------------------------------------
(* Members come and go.                                                    *)

LEMMA FreshStep ==
  ASSUME NetworkInv, job = Idle, NEW m \in Member, Fresh(m),
         clLocalSockListP' \in Seq(Local), clWebSockListP' \in Seq(Web),
         Distinct(clLocalSockListP)', Distinct(clWebSockListP)', pclInterfaceP' \in BOOLEAN,
         Open' \subseteq Open \cup {m}
  PROVE  NetworkInv'
<1>1. TypeOK /\ Open \subseteq Member BY Lists DEF NetworkInv
<1>2. /\ inbox' = [inbox EXCEPT ![m] = <<>>] /\ outbox' = [outbox EXCEPT ![m] = <<>>]
      /\ joined' = [joined EXCEPT ![m] = Len(log)]
      /\ UNCHANGED <<btNetworkEnabledP, count, job, sender, log, skipped>>
  BY DEF Fresh
<1>3. job.phase = "idle" /\ ~Copying /\ ~Copying' BY <1>2 DEF Idle, Copying
<1>4. TypeOK'
  <2>1. <<>> \in Seq(Frame) /\ Len(log) \in 0 .. Len(log) BY <1>1 DEF TypeOK
  <2>2. joined' \in [Member -> 0 .. Len(log)] BY <2>1, <1>1, <1>2 DEF TypeOK
  <2>3. inbox' \in [Member -> Seq(Frame)] /\ outbox' \in [Member -> Seq(Frame)]
    BY <2>1, <1>1, <1>2 DEF TypeOK
  <2> QED BY <2>2, <2>3, <1>1, <1>2 DEF TypeOK, count
<1>5. SenderInv'
  <2>1. \A n \in Member : \A i \in DOMAIN inbox'[n] : sender'[inbox'[n][i]] = n
    BY <1>1, <1>2 DEF TypeOK, NetworkInv, SenderInv
  <2> QED BY <2>1, <1>2 DEF NetworkInv, SenderInv
<1>6. CopyInv' BY <1>3 DEF CopyInv
<1>7. CountInv' BY <1>2, <1>3 DEF NetworkInv, CountInv, Passed, count
<1>8. ASSUME NEW n \in Open' PROVE Placed(n)' /\ Reached(n)'
  <2>1. ~ToCome(n) /\ ~ToCome(n)' BY <1>2, <1>3 DEF ToCome
  <2>2. CASE n = m
    <3>1. outbox'[n] = <<>> /\ joined'[n] = Len(log) BY <1>1, <1>2, <2>2 DEF TypeOK
    <3>2. Due(n)' = {} BY <1>1, <1>2, <3>1 DEF Due, TypeOK
    <3>3. \E at \in [DOMAIN outbox'[n] -> Due(n)'] : Selects(at, outbox[n])'
      <4>1. <<>> \in [{} -> {}] OBVIOUS
      <4>2. DOMAIN outbox'[n] = {} BY <3>1
      <4>3. Selects(<<>>, outbox[n])' BY <4>2 DEF Selects
      <4> QED BY <4>1, <4>2, <4>3, <3>1, <3>2
    <3> QED BY <2>1, <3>2, <3>3 DEF Placed, Reached
  <2>3. CASE n # m
    <3>1. n \in Open /\ n \in Member BY <1>1, <2>3
    <3>2. outbox'[n] = outbox[n] /\ joined'[n] = joined[n] BY <3>1, <1>1, <1>2, <2>3 DEF TypeOK
    <3>3. Due(n)' = Due(n) BY <3>1, <3>2, <1>1, <1>2, SameDue
    <3>4. Placed(n) /\ Reached(n) BY <3>1, <1>3 DEF NetworkInv, OrderInv, ReachInv, Stuck
    <3> QED BY <2>1, <3>2, <3>3, <3>4, <1>2, KeepPlaced, KeepReached
  <2> QED BY <2>2, <2>3
<1> QED BY <1>4, <1>5, <1>6, <1>7, <1>8 DEF NetworkInv, OrderInv, ReachInv

LEMMA MemberStep ==
  ASSUME NetworkInv,
         \/ \E s \in Local : onLocalSocketConnect(s) \/ onLocalSocketDisconnect(s)
         \/ \E w \in Web : attachWebSocket(w) \/ onWebSocketDisconnect(w)
         \/ addInterface \/ removeInterface
  PROVE  NetworkInv'
<1>1. /\ TypeOK /\ Distinct(clLocalSockListP) /\ Distinct(clWebSockListP)
      /\ clLocalSockListP \in Seq(Local) /\ clWebSockListP \in Seq(Web)
  BY DEF NetworkInv, SenderInv, TypeOK
<1>2. ASSUME NEW s \in Local, onLocalSocketConnect(s) PROVE NetworkInv'
  <2>1. s \notin Elements(clLocalSockListP) /\ s \in Member
    BY <1>2 DEF onLocalSocketConnect, Open, Member
  <2>2. /\ clLocalSockListP' \in Seq(Local) /\ Distinct(clLocalSockListP)'
        /\ Elements(clLocalSockListP)' = Elements(clLocalSockListP) \cup {s}
    <3>1. clLocalSockListP' = Append(clLocalSockListP, s) BY <1>2 DEF onLocalSocketConnect
    <3>2. Append(clLocalSockListP, s) \in Seq(Local) BY <1>1, AppendProperties
    <3>3. /\ Distinct(Append(clLocalSockListP, s))
          /\ Elements(Append(clLocalSockListP, s)) = Elements(clLocalSockListP) \cup {s}
      BY <2>1, <1>1, AppendDistinct
    <3> QED BY <3>1, <3>2, <3>3 DEF Distinct, Elements
  <2>3. UNCHANGED <<clWebSockListP, pclInterfaceP>> /\ job = Idle /\ Fresh(s)
    BY <1>2 DEF onLocalSocketConnect
  <2>4. Open' \subseteq Open \cup {s} BY <2>2, <2>3 DEF Open, Elements
  <2>5. Distinct(clWebSockListP)' BY <1>1, <2>3 DEF Distinct
  <2> QED BY <1>1, <2>1, <2>2, <2>3, <2>4, <2>5, FreshStep DEF TypeOK
<1>3. ASSUME NEW s \in Local, onLocalSocketDisconnect(s) PROVE NetworkInv'
  <2>1. s \in Member BY DEF Member
  <2>2. /\ clLocalSockListP' \in Seq(Local) /\ Distinct(clLocalSockListP)'
        /\ Elements(clLocalSockListP)' \subseteq Elements(clLocalSockListP)
    <3>1. PICK i \in DOMAIN clLocalSockListP : clLocalSockListP' = Without(clLocalSockListP, i)
      BY <1>3 DEF onLocalSocketDisconnect
    <3>2. Without(clLocalSockListP, i) \in Seq(Local) BY <1>1, WithoutOne
    <3>3. /\ Distinct(Without(clLocalSockListP, i))
          /\ Elements(Without(clLocalSockListP, i)) = Elements(clLocalSockListP) \ {clLocalSockListP[i]}
      BY <1>1, WithoutDistinct
    <3> QED BY <3>1, <3>2, <3>3 DEF Distinct, Elements
  <2>3. UNCHANGED <<clWebSockListP, pclInterfaceP>> /\ job = Idle /\ Fresh(s)
    BY <1>3 DEF onLocalSocketDisconnect
  <2>4. Open' \subseteq Open \cup {s} BY <2>2, <2>3 DEF Open, Elements
  <2>5. Distinct(clWebSockListP)' BY <1>1, <2>3 DEF Distinct
  <2> QED BY <1>1, <2>1, <2>2, <2>3, <2>4, <2>5, FreshStep DEF TypeOK
<1>4. ASSUME NEW w \in Web, attachWebSocket(w) PROVE NetworkInv'
  <2>1. w \notin Elements(clWebSockListP) /\ w \in Member
    BY <1>4 DEF attachWebSocket, Open, Member
  <2>2. /\ clWebSockListP' \in Seq(Web) /\ Distinct(clWebSockListP)'
        /\ Elements(clWebSockListP)' = Elements(clWebSockListP) \cup {w}
    <3>1. clWebSockListP' = Append(clWebSockListP, w) BY <1>4 DEF attachWebSocket
    <3>2. Append(clWebSockListP, w) \in Seq(Web) BY <1>1, AppendProperties
    <3>3. /\ Distinct(Append(clWebSockListP, w))
          /\ Elements(Append(clWebSockListP, w)) = Elements(clWebSockListP) \cup {w}
      BY <2>1, <1>1, AppendDistinct
    <3> QED BY <3>1, <3>2, <3>3 DEF Distinct, Elements
  <2>3. UNCHANGED <<clLocalSockListP, pclInterfaceP>> /\ job = Idle /\ Fresh(w)
    BY <1>4 DEF attachWebSocket
  <2>4. Open' \subseteq Open \cup {w} BY <2>2, <2>3 DEF Open, Elements
  <2>5. Distinct(clLocalSockListP)' BY <1>1, <2>3 DEF Distinct
  <2> QED BY <1>1, <2>1, <2>2, <2>3, <2>4, <2>5, FreshStep DEF TypeOK
<1>5. ASSUME NEW w \in Web, onWebSocketDisconnect(w) PROVE NetworkInv'
  <2>1. w \in Member BY DEF Member
  <2>2. /\ clWebSockListP' \in Seq(Web) /\ Distinct(clWebSockListP)'
        /\ Elements(clWebSockListP)' \subseteq Elements(clWebSockListP)
    <3>1. PICK i \in DOMAIN clWebSockListP : clWebSockListP' = Without(clWebSockListP, i)
      BY <1>5 DEF onWebSocketDisconnect
    <3>2. Without(clWebSockListP, i) \in Seq(Web) BY <1>1, WithoutOne
    <3>3. /\ Distinct(Without(clWebSockListP, i))
          /\ Elements(Without(clWebSockListP, i)) = Elements(clWebSockListP) \ {clWebSockListP[i]}
      BY <1>1, WithoutDistinct
    <3> QED BY <3>1, <3>2, <3>3 DEF Distinct, Elements
  <2>3. UNCHANGED <<clLocalSockListP, pclInterfaceP>> /\ job = Idle /\ Fresh(w)
    BY <1>5 DEF onWebSocketDisconnect
  <2>4. Open' \subseteq Open \cup {w} BY <2>2, <2>3 DEF Open, Elements
  <2>5. Distinct(clLocalSockListP)' BY <1>1, <2>3 DEF Distinct
  <2> QED BY <1>1, <2>1, <2>2, <2>3, <2>4, <2>5, FreshStep DEF TypeOK
<1>6. CASE addInterface \/ removeInterface
  <2>1. UNCHANGED lists /\ job = Idle /\ Fresh(Interface) /\ pclInterfaceP' \in BOOLEAN
    BY <1>6 DEF addInterface, removeInterface
  <2>2. Open' \subseteq Open \cup {Interface} /\ Interface \in Member
    BY <2>1 DEF Open, Elements, lists, Member
  <2>3. Distinct(clLocalSockListP)' /\ Distinct(clWebSockListP)'
        /\ clLocalSockListP' \in Seq(Local) /\ clWebSockListP' \in Seq(Web)
    BY <1>1, <2>1 DEF Distinct, lists
  <2> QED BY <2>1, <2>2, <2>3, FreshStep
<1> QED BY <1>2, <1>3, <1>4, <1>5, <1>6

------------------------------------------------------------------------------
(* Steps that write to nobody.                                             *)

LEMMA QuietStep ==
  ASSUME NetworkInv, UNCHANGED <<lists, pclInterfaceP, outbox, log, joined, skipped>>,
         \A i \in DOMAIN log : sender'[log[i]] = sender[log[i]],
         \A n \in Open : ToCome(n)' <=> ToCome(n), Stuck => Stuck'
  PROVE  OrderInv' /\ ReachInv'
<1>1. Open' = Open /\ TypeOK /\ Open \subseteq Member
  BY Lists DEF NetworkInv, Open, Elements, lists
<1> SUFFICES ASSUME NEW n \in Open PROVE Placed(n)' /\ (~Stuck' => Reached(n)')
  BY <1>1 DEF OrderInv, ReachInv
<1>2. Due(n)' = Due(n) BY <1>1, SameDue
<1>3. Placed(n) /\ (~Stuck => Reached(n)) BY DEF NetworkInv, OrderInv, ReachInv
<1> QED BY <1>2, <1>3, KeepPlaced, KeepReached

LEMMA EnableStep == ASSUME NetworkInv, setNetworkEnabled PROVE NetworkInv'
<1> USE DEF setNetworkEnabled, lists, count, past
<1>1. TypeOK' BY DEF NetworkInv, TypeOK
<1>2. SenderInv' BY DEF NetworkInv, SenderInv, IsSource, At, Distinct
<1>3. CopyInv' /\ CountInv' BY DEF NetworkInv, CopyInv, CountInv, Copying, Open, Elements, Passed
<1>4. OrderInv' /\ ReachInv' BY QuietStep DEF ToCome, Later, Elements, Stuck
<1> QED BY <1>1, <1>2, <1>3, <1>4 DEF NetworkInv

LEMMA ResetStep == ASSUME NetworkInv, Reset PROVE NetworkInv'
<1> USE DEF Reset, lists, past
<1>1. TypeOK' BY DEF NetworkInv, TypeOK
<1>2. SenderInv' BY DEF NetworkInv, SenderInv, IsSource, At, Distinct
<1>3. job.phase = "idle" BY DEF Idle
<1>4. CopyInv' BY <1>3 DEF CopyInv, Copying
<1>5. CountInv'
  <2>1. Passed(Len(log), Frame \ Error)' = {} /\ Passed(Len(log), Error)' = {}
    BY DEF Passed, NetworkInv, TypeOK
  <2>2. Cardinality({}) = 0 BY FS_EmptySet
  <2> QED BY <1>3, <2>1, <2>2 DEF CountInv, Copying
<1>6. OrderInv' /\ ReachInv' BY QuietStep DEF ToCome, Later, Elements, Stuck
<1> QED BY <1>1, <1>2, <1>4, <1>5, <1>6 DEF NetworkInv

LEMMA SendStep ==
  ASSUME NetworkInv, NEW m \in Member, NEW f \in Frame, Send(m, f) PROVE NetworkInv'
<1> USE DEF Send, lists, count
<1>1. TypeOK BY DEF NetworkInv
<1>2. \A g \in Frame : sender[g] # NoMember => sender'[g] = sender[g]
  BY <1>1 DEF TypeOK
<1>3. NoMember \notin Member BY MemberAssumption
<1>4. \A i \in DOMAIN log : log[i] \in Frame /\ sender'[log[i]] = sender[log[i]]
  <2>1. \A i \in DOMAIN log : log[i] \in Frame /\ sender[log[i]] \in Member
    BY <1>1 DEF NetworkInv, SenderInv, TypeOK
  <2> QED BY <2>1, <1>2, <1>3
<1>5. TypeOK'
  <2>1. inbox' \in [Member -> Seq(Frame)]
    <3>1. Append(inbox[m], f) \in Seq(Frame) BY <1>1 DEF TypeOK
    <3> QED BY <3>1, <1>1 DEF TypeOK
  <2>2. sender' \in [Frame -> Member \cup {NoMember}] BY <1>1 DEF TypeOK
  <2> QED BY <2>1, <2>2, <1>1 DEF TypeOK
<1>6. SenderInv'
  <2>1. ASSUME NEW n \in Member, NEW i \in DOMAIN inbox'[n] PROVE sender'[inbox'[n][i]] = n
    <3>1. inbox[n] \in Seq(Frame) BY <1>1 DEF TypeOK
    <3>2. CASE i \in DOMAIN inbox[n] /\ inbox'[n][i] = inbox[n][i]
      <4>1. inbox[n][i] \in Frame /\ sender[inbox[n][i]] = n
        BY <3>1, <3>2 DEF NetworkInv, SenderInv
      <4> QED BY <4>1, <3>2, <1>2, <1>3
    <3>3. CASE n = m /\ inbox'[n][i] = f BY <3>3, <1>1 DEF TypeOK
    <3> QED BY <3>1, <3>2, <3>3, <1>1 DEF TypeOK
  <2>2. job # Idle => IsSource(sender[job.frame])'
    <3> SUFFICES ASSUME job # Idle PROVE IsSource(sender[job.frame])'
      OBVIOUS
    <3>1. job \in Jobs /\ IsSource(sender[job.frame]) BY <1>1 DEF NetworkInv, SenderInv, TypeOK
    <3>2. job.frame \in Frame BY <3>1 DEF Jobs
    <3>3. sender[job.frame] \in Member BY <3>1, <1>1, Lists DEF IsSource, At, Member
    <3>4. sender'[job.frame] = sender[job.frame] BY <3>2, <3>3, <1>2, <1>3
    <3> QED BY <3>1, <3>4 DEF IsSource, At
  <2> QED BY <2>1, <2>2, <1>4 DEF NetworkInv, SenderInv, Distinct
<1>7. CopyInv' /\ CountInv' BY DEF NetworkInv, CopyInv, CountInv, Copying, Open, Elements, Passed
<1>8. OrderInv' /\ ReachInv' BY <1>4, QuietStep DEF ToCome, Later, Elements, Stuck
<1> QED BY <1>5, <1>6, <1>7, <1>8 DEF NetworkInv

(* A call starts with the frame, and the position, of the member m.        *)
LEMMA Taken ==
  ASSUME NetworkInv, NEW m \in Member, NEW q \in {"local", "web", "if"}, NEW k \in Nat,
         Take(q, m, k),
         \/ q = "local" /\ At(clLocalSockListP, k, m)
         \/ q = "web" /\ At(clWebSockListP, k, m)
         \/ q = "if" /\ m = Interface,
         UNCHANGED <<btNetworkEnabledP, lists, pclInterfaceP, reset, outbox, past>>,
         ulCntFrameCanP' \in Nat, ulCntFrameErrP' \in Nat
  PROVE  TypeOK' /\ SenderInv' /\ job' \in Jobs /\ job'.phase = "interface"
<1> USE DEF lists, past
<1>1. TypeOK BY DEF NetworkInv
<1>2. /\ inbox[m] # <<>> /\ inbox' \in [Member -> Seq(Frame)]
      /\ job' \in Jobs /\ job'.phase = "interface" /\ job'.source = q /\ job'.pos = k
      /\ job'.frame = inbox[m][1] /\ job'.frame \in Frame
      /\ \A n \in Member : \A i \in DOMAIN inbox'[n] :
           \E j \in DOMAIN inbox[n] : inbox'[n][i] = inbox[n][j]
  BY <1>1, TakeType
<1>3. TypeOK' BY <1>1, <1>2 DEF TypeOK
<1>4. sender[job'.frame] = m
  <2>1. inbox[m] \in Seq(Frame) BY <1>1 DEF TypeOK
  <2>2. 1 \in DOMAIN inbox[m] BY <2>1, <1>2
  <2> QED BY <2>2, <1>2 DEF NetworkInv, SenderInv
<1>5. IsSource(sender[job.frame])' BY <1>2, <1>4 DEF IsSource, At
<1>6. \A n \in Member : \A i \in DOMAIN inbox'[n] : sender'[inbox'[n][i]] = n
  BY <1>2 DEF NetworkInv, SenderInv
<1>7. SenderInv' BY <1>5, <1>6 DEF NetworkInv, SenderInv, Distinct
<1> QED BY <1>2, <1>3, <1>7

LEMMA NewDataStep == ASSUME NetworkInv, NewData PROVE NetworkInv'
<1> USE DEF lists, past, count
<1>1. TypeOK /\ job.phase = "idle"
  BY DEF NewData, onLocalSocketNewData, onWebSocketBinaryData, onInterfaceNewData, NetworkInv, Idle
<1>2. UNCHANGED <<btNetworkEnabledP, lists, pclInterfaceP, count, outbox, past>>
  BY DEF NewData, onLocalSocketNewData, onWebSocketBinaryData, onInterfaceNewData
<1>3. ulCntFrameCanP' \in Nat /\ ulCntFrameErrP' \in Nat BY <1>1, <1>2 DEF TypeOK
<1>4. TypeOK' /\ SenderInv' /\ job'.phase = "interface"
  <2>1. CASE onLocalSocketNewData
    <3>1. PICK i \in DOMAIN clLocalSockListP : Take("local", clLocalSockListP[i], i - 1)
      BY <2>1 DEF onLocalSocketNewData
    <3>2. i - 1 \in Nat /\ (i - 1) + 1 = i BY <1>1 DEF TypeOK
    <3>3. clLocalSockListP[i] \in Member BY <1>1, Lists DEF Member
    <3>4. At(clLocalSockListP, i - 1, clLocalSockListP[i]) BY <3>2 DEF At
    <3> QED BY <3>1, <3>2, <3>3, <3>4, <1>2, <1>3, Taken
  <2>2. CASE onWebSocketBinaryData
    <3>1. PICK i \in DOMAIN clWebSockListP : Take("web", clWebSockListP[i], i - 1)
      BY <2>2 DEF onWebSocketBinaryData
    <3>2. i - 1 \in Nat /\ (i - 1) + 1 = i BY <1>1 DEF TypeOK
    <3>3. clWebSockListP[i] \in Member BY <1>1, Lists DEF Member
    <3>4. At(clWebSockListP, i - 1, clWebSockListP[i]) BY <3>2 DEF At
    <3> QED BY <3>1, <3>2, <3>3, <3>4, <1>2, <1>3, Taken
  <2>3. CASE onInterfaceNewData
    <3>1. Take("if", Interface, 0) BY <2>3 DEF onInterfaceNewData
    <3>2. Interface \in Member BY DEF Member
    <3> QED BY <3>1, <3>2, <1>2, <1>3, Taken
  <2> QED BY <2>1, <2>2, <2>3 DEF NewData
<1>5. ~Copying /\ ~Copying' BY <1>1, <1>4 DEF Copying
<1>6. CopyInv' /\ CountInv' BY <1>2, <1>5 DEF NetworkInv, CopyInv, CountInv, Passed
<1>7. OrderInv' /\ ReachInv'
  <2>1. \A n : ~ToCome(n) /\ ~ToCome(n)' BY <1>1, <1>4 DEF ToCome
  <2> QED BY <2>1, <1>1, <1>2, QuietStep DEF Stuck
<1> QED BY <1>4, <1>6, <1>7 DEF NetworkInv

(* The end of a call.                                                      *)
LEMMA Returned ==
  ASSUME NetworkInv, job \in Jobs, Return,
         UNCHANGED <<btNetworkEnabledP, lists, pclInterfaceP, reset, outbox, past>>,
         ulCntFrameCanP' \in Nat, ulCntFrameErrP' \in Nat
  PROVE  TypeOK' /\ SenderInv' /\ job'.phase \in {"idle", "interface"}
<1> USE DEF lists, past
<1>1. TypeOK /\ SenderInv BY DEF NetworkInv
<1>2. CASE job' = Idle /\ UNCHANGED inbox
  <2>1. TypeOK' BY <1>1, <1>2 DEF TypeOK
  <2>2. SenderInv' BY <1>1, <1>2 DEF SenderInv, Distinct
  <2> QED BY <2>1, <2>2, <1>2 DEF Idle
<1>3. ASSUME NEW m \in Member, Take(job.source, m, job.pos), IsSource(m), job.source # "web"
      PROVE  TypeOK' /\ SenderInv' /\ job'.phase = "interface"
  <2>1. job.source \in {"local", "web", "if"} /\ job.pos \in Nat BY DEF Jobs
  <2> QED BY <2>1, <1>3, Taken DEF IsSource
<1> QED BY <1>1, <1>2, <1>3, ReturnIs

LEMMA CountStep == ASSUME NetworkInv, CountFrame PROVE NetworkInv'
<1> USE DEF lists, past
<1>1. TypeOK /\ job.phase = "web" /\ job \in Jobs
  BY Running DEF NetworkInv, CountFrame
<1>2. UNCHANGED <<btNetworkEnabledP, lists, pclInterfaceP, reset, outbox, past>> /\ Return
  BY DEF CountFrame
<1>3. job.frame \in Frame /\ job.index \in Nat /\ job.index >= Len(clWebSockListP)
  BY <1>1 DEF Jobs, CountFrame
<1>4. IF job.frame \in Error
      THEN ulCntFrameErrP' = ulCntFrameErrP + 1 /\ ulCntFrameCanP' = ulCntFrameCanP
      ELSE ulCntFrameCanP' = ulCntFrameCanP + 1 /\ ulCntFrameErrP' = ulCntFrameErrP
  BY DEF CountFrame
<1>5. ulCntFrameCanP' \in Nat /\ ulCntFrameErrP' \in Nat BY <1>1, <1>4 DEF TypeOK
<1>6. TypeOK' /\ SenderInv' /\ job'.phase \in {"idle", "interface"}
  BY <1>1, <1>2, <1>5, Returned
<1>7. Copying /\ ~Copying' /\ CopyInv' BY <1>1, <1>6 DEF Copying, CopyInv
<1>8. CountInv'
  <2> DEFINE n == Len(log)
  <2>1. n \in Nat /\ reset \in Nat /\ reset < n /\ log[n] = job.frame
    BY <1>1, <1>7 DEF NetworkInv, CopyInv, TypeOK
  <2>2. /\ ulCntFrameCanP = Cardinality(Passed(n - 1, Frame \ Error))
        /\ ulCntFrameErrP = Cardinality(Passed(n - 1, Error))
    BY <1>7 DEF NetworkInv, CountInv
  <2> HIDE DEF n
  <2>3. ASSUME NEW F PROVE /\ IsFiniteSet(Passed(n - 1, F)) /\ n \notin Passed(n - 1, F)
                           /\ Passed(n, F) = IF job.frame \in F THEN Passed(n - 1, F) \cup {n}
                                             ELSE Passed(n - 1, F)
    <3>1. IsFiniteSet(reset + 1 .. n - 1) BY <2>1, FS_Interval
    <3>2. IsFiniteSet(Passed(n - 1, F))
      <4>1. Passed(n - 1, F) \subseteq reset + 1 .. n - 1 BY DEF Passed
      <4> QED BY <3>1, <4>1, FS_Subset
    <3>3. n \in reset + 1 .. n /\ reset + 1 .. n = (reset + 1 .. n - 1) \cup {n}
          /\ n \notin reset + 1 .. n - 1
      BY <2>1
    <3> QED BY <2>1, <3>2, <3>3 DEF Passed
  <2>4. ASSUME NEW F PROVE Cardinality(Passed(n, F)) =
                             IF job.frame \in F THEN Cardinality(Passed(n - 1, F)) + 1
                             ELSE Cardinality(Passed(n - 1, F))
    BY <2>3, FS_AddElement
  <2>5. Passed(n, Error)' = Passed(n, Error) /\ Passed(n, Frame \ Error)' = Passed(n, Frame \ Error)
        /\ Len(log)' = n
    BY <1>2 DEF Passed, n
  <2>6. /\ ulCntFrameCanP' = Cardinality(Passed(n, Frame \ Error))
        /\ ulCntFrameErrP' = Cardinality(Passed(n, Error))
    <3>1. job.frame \in Error <=> job.frame \notin Frame \ Error BY <1>3
    <3> QED BY <3>1, <1>4, <2>2, <2>4
  <2> QED BY <2>5, <2>6, <1>7, <1>2 DEF CountInv, Passed, n
<1>9. OrderInv' /\ ReachInv'
  <2>1. \A k \in DOMAIN clWebSockListP : ~(k > job.index) BY <1>1, <1>3 DEF TypeOK
  <2>2. \A k : ~ToCome(k) /\ ~ToCome(k)' BY <2>1, <1>1, <1>6 DEF ToCome, Later
  <2> QED BY <2>2, <1>1, <1>2, QuietStep DEF Stuck
<1> QED BY <1>6, <1>7, <1>8, <1>9 DEF NetworkInv

LEMMA RefuseStep == ASSUME NetworkInv, RefuseFrame PROVE NetworkInv'
<1> USE DEF lists, past, count
<1>1. TypeOK /\ job.phase = "interface" /\ job \in Jobs
  BY Running DEF NetworkInv, RefuseFrame
<1>2. UNCHANGED <<btNetworkEnabledP, lists, pclInterfaceP, count, outbox, past>> /\ Return
  BY DEF RefuseFrame
<1>3. TypeOK' /\ SenderInv' /\ job'.phase \in {"idle", "interface"}
  BY <1>1, <1>2, Returned DEF TypeOK
<1>4. ~Copying /\ ~Copying' /\ \A n : ~ToCome(n) /\ ~ToCome(n)'
  BY <1>1, <1>3 DEF Copying, ToCome
<1>5. CopyInv' /\ CountInv' BY <1>2, <1>4 DEF NetworkInv, CopyInv, CountInv, Passed
<1>6. OrderInv' /\ ReachInv' BY <1>1, <1>2, <1>4, QuietStep DEF Stuck
<1> QED BY <1>3, <1>5, <1>6 DEF NetworkInv

------------------------------------------------------------------------------
(* The steps of handleCanFrame().                                          *)

LEMMA InterfaceStep == ASSUME NetworkInv, WriteInterface PROVE NetworkInv'
<1> USE DEF lists, count
<1>1. TypeOK /\ job.phase = "interface" /\ job \in Jobs /\ job.frame \in Frame
      /\ IsSource(sender[job.frame])
  BY Running DEF NetworkInv, WriteInterface, Jobs, SenderInv
<1>2. UNCHANGED <<btNetworkEnabledP, lists, pclInterfaceP, count, inbox, sender, joined, skipped>>
      /\ log' = Append(log, job.frame)
  BY DEF WriteInterface
<1>3. /\ job' \in Jobs /\ job'.phase = "local" /\ job'.source = job.source /\ job'.pos = job.pos
      /\ job'.frame = job.frame /\ job'.index = 0
  BY <1>1, GoneOn DEF WriteInterface
<1> DEFINE n == Len(log)
<1>4. /\ n \in Nat /\ DOMAIN log = 1 .. n /\ log' \in Seq(Frame) /\ Len(log') = n + 1
      /\ DOMAIN log' = 1 .. n + 1
      /\ \A i \in 1 .. n : log'[i] = log[i]
      /\ log'[n + 1] = job.frame
  BY <1>1, <1>2 DEF TypeOK
<1>5. outbox' = IF pclInterfaceP /\ job.source # "if"
                THEN [outbox EXCEPT ![Interface] = Append(outbox[Interface], job.frame)]
                ELSE outbox
  BY DEF WriteInterface, Write
<1>6. Interface \in Member /\ Append(outbox[Interface], job.frame) \in Seq(Frame)
  BY <1>1 DEF Member, TypeOK
<1>7. sender[job.frame] \in Member BY <1>1, Lists DEF IsSource, At, Member
<1> HIDE DEF n
<1>8. TypeOK'
  <2>1. outbox' \in [Member -> Seq(Frame)] BY <1>1, <1>5, <1>6 DEF TypeOK
  <2>2. joined' \in [Member -> 0 .. n + 1]
    <3>1. \A k \in 0 .. n : k \in 0 .. n + 1 BY <1>4
    <3> QED BY <3>1, <1>1, <1>2 DEF TypeOK, n
  <2>3. reset' \in 0 .. n + 1 BY <1>1, <1>2, <1>4 DEF TypeOK, n
  <2> QED BY <1>1, <1>2, <1>3, <1>4, <2>1, <2>2, <2>3 DEF TypeOK
<1>9. SenderInv'
  <2>1. \A i \in DOMAIN log' : sender'[log'[i]] \in Member
    BY <1>2, <1>4, <1>7 DEF NetworkInv, SenderInv
  <2>2. IsSource(sender[job.frame])' BY <1>1, <1>2, <1>3 DEF IsSource, At
  <2> QED BY <1>2, <2>1, <2>2 DEF NetworkInv, SenderInv, Distinct
<1>10. ~Copying /\ Copying' BY <1>1, <1>3 DEF Copying
<1>11. Open' = Open /\ Open \subseteq Member BY <1>1, <1>2, Lists DEF Open, Elements
<1>12. \A m \in Member : joined'[m] = joined[m] /\ joined[m] \in Nat /\ joined[m] <= n
  BY <1>1, <1>2, <1>4 DEF TypeOK, n
<1>13. CopyInv'
  <2>1. log' # <<>> /\ log'[Len(log')] = job'.frame BY <1>3, <1>4
  <2>2. reset' < Len(log') BY <1>1, <1>2, <1>4 DEF TypeOK, n
  <2>3. \A m \in Open' : joined'[m] < Len(log') BY <1>4, <1>11, <1>12
  <2> QED BY <2>1, <2>2, <2>3 DEF CopyInv
<1>14. CountInv'
  <2>1. reset \in Nat /\ reset' = reset BY <1>1, <1>2 DEF TypeOK
  <2>2. ASSUME NEW F PROVE Passed(Len(log) - 1, F)' = Passed(n, F)
    <3>1. \A i \in reset + 1 .. n : i \in 1 .. n BY <2>1, <1>4
    <3>2. Passed(Len(log) - 1, F)' = {i \in reset + 1 .. n : log'[i] \in F}
      BY <2>1, <1>4 DEF Passed
    <3> QED BY <2>1, <3>1, <3>2, <1>4 DEF Passed
  <2>3. /\ ulCntFrameCanP' = Cardinality(Passed(n, Frame \ Error))
        /\ ulCntFrameErrP' = Cardinality(Passed(n, Error))
    BY <1>2, <1>10 DEF NetworkInv, CountInv, n
  <2>4. Passed(Len(log) - 1, Frame \ Error)' = Passed(n, Frame \ Error)
        /\ Passed(Len(log) - 1, Error)' = Passed(n, Error)
    BY <2>2
  <2> QED BY <1>10, <2>3, <2>4 DEF CountInv
<1>15. ASSUME NEW m \in Open' PROVE Placed(m)' /\ Reached(m)'
  <2>1. m \in Member /\ m \in Open /\ Placed(m) /\ Reached(m)
    BY <1>1, <1>11, <1>15 DEF NetworkInv, OrderInv, ReachInv, Stuck
  <2>2. ~ToCome(m) BY <1>1 DEF ToCome
  <2>3. Due(m)' = IF sender[job.frame] # m THEN Due(m) \cup {n + 1} ELSE Due(m)
    <3>1. joined[m] + 1 .. n + 1 = (joined[m] + 1 .. n) \cup {n + 1}
          /\ \A i \in joined[m] + 1 .. n : i \in 1 .. n
      BY <2>1, <1>4, <1>12
    <3>2. Due(m)' = {i \in joined[m] + 1 .. n + 1 : sender[log'[i]] # m}
      BY <2>1, <1>2, <1>4, <1>12 DEF Due
    <3>3. Due(m) = {i \in joined[m] + 1 .. n : sender[log[i]] # m} BY DEF Due, n
    <3> QED BY <3>1, <3>2, <3>3, <1>4
  <2>4. \A i \in Due(m) : i \in 1 .. n
    <3>1. \A i \in joined[m] + 1 .. n : i \in 1 .. n BY <2>1, <1>4, <1>12
    <3> QED BY <3>1 DEF Due, n
  <2>5. PICK at \in [DOMAIN outbox[m] -> Due(m)] : Selects(at, outbox[m])
    BY <2>1 DEF Placed
  <2>6. outbox[m] \in Seq(Frame) /\ Due(m)' \in SUBSET Nat
    <3>1. outbox[m] \in Seq(Frame) BY <1>1, <2>1 DEF TypeOK
    <3>2. \A i \in Due(m) : i \in Nat BY <2>4, <1>4
    <3> QED BY <3>1, <3>2, <2>3, <1>4
  <2>7. at \in [DOMAIN outbox[m] -> Due(m)'] /\ \A i \in DOMAIN outbox[m] : at[i] \in 1 .. n
    BY <2>3, <2>4
  <2>8. Selects(at, outbox[m])' \/ outbox'[m] # outbox[m]
    BY <2>5, <2>7, <1>4 DEF Selects
  <2>9. CASE m = Interface /\ pclInterfaceP /\ job.source # "if"
    <3>1. outbox'[m] = Append(outbox[m], job.frame) BY <2>9, <1>1, <1>5, <1>6 DEF TypeOK
    <3>2. sender[job.frame] # m
      BY <2>9, <1>1, Lists, MemberAssumption DEF IsSource, At
    <3>3. n + 1 \in Due(m)' BY <3>2, <2>3
    <3>4. ~ToCome(m)'
      BY <2>9, <1>2, <1>3, <1>8, <1>1, Lists, MemberAssumption DEF ToCome, Later, Elements
    <3>5. \E b \in [DOMAIN outbox'[m] -> Due(m)'] : Selects(b, outbox[m])'
      <4> DEFINE b == [i \in DOMAIN outbox'[m] |-> IF i \in DOMAIN outbox[m] THEN at[i] ELSE n + 1]
      <4>1. /\ DOMAIN outbox'[m] = DOMAIN outbox[m] \cup {Len(outbox[m]) + 1}
            /\ DOMAIN outbox[m] = 1 .. Len(outbox[m]) /\ Len(outbox[m]) \in Nat
            /\ \A i \in DOMAIN outbox[m] : outbox'[m][i] = outbox[m][i]
            /\ outbox'[m][Len(outbox[m]) + 1] = job.frame
        BY <3>1, <2>6
      <4>2. b \in [DOMAIN outbox'[m] -> Due(m)'] BY <4>1, <2>7, <3>3
      <4>3. \A i \in DOMAIN outbox'[m] : outbox'[m][i] = log'[b[i]]
        BY <4>1, <2>5, <2>7, <1>4 DEF Selects
      <4>4. ASSUME NEW i \in DOMAIN outbox'[m], NEW j \in DOMAIN outbox'[m], i < j
            PROVE  b[i] < b[j]
        <5>1. i \in DOMAIN outbox[m] BY <4>1, <4>4
        <5>2. CASE j \in DOMAIN outbox[m] BY <4>4, <5>1, <5>2, <2>5 DEF Selects
        <5>3. CASE j \notin DOMAIN outbox[m] BY <5>1, <5>3, <2>7, <1>4
        <5> QED BY <5>2, <5>3
      <4> QED BY <4>2, <4>3, <4>4 DEF Selects
    <3>6. Placed(m)' BY <3>4, <3>5 DEF Placed
    <3>7. Elements(outbox[m]) \subseteq Elements(outbox'[m]) /\ job.frame \in Elements(outbox'[m])
      <4>1. /\ DOMAIN outbox'[m] = DOMAIN outbox[m] \cup {Len(outbox[m]) + 1}
            /\ \A i \in DOMAIN outbox[m] : outbox'[m][i] = outbox[m][i]
            /\ outbox'[m][Len(outbox[m]) + 1] = job.frame
        BY <3>1, <2>6
      <4> QED BY <4>1 DEF Elements
    <3>8. Reached(m)'
      BY <3>7, <2>1, <2>2, <2>3, <2>4, <1>2, <1>4 DEF Reached
    <3> QED BY <3>6, <3>8
  <2>10. CASE ~(m = Interface /\ pclInterfaceP /\ job.source # "if")
    <3>1. outbox'[m] = outbox[m] BY <2>10, <2>1, <1>1, <1>5 DEF TypeOK
    <3>2. Placed(m)'
      <4>1. \A i \in DOMAIN outbox[m] : at[i] < n + 1 BY <2>7, <1>4
      <4> QED BY <4>1, <2>7, <2>8, <3>1, <1>4 DEF Placed
    <3>3. n + 1 \in Due(m)' => ToCome(m)'
      <4> SUFFICES ASSUME sender[job.frame] # m PROVE ToCome(m)'
        BY <2>3, <2>4, <1>4
      <4>1. CASE m \in Elements(clLocalSockListP)
        <5>1. PICK k \in DOMAIN clLocalSockListP : clLocalSockListP[k] = m
          BY <4>1 DEF Elements
        <5>2. k > 0 BY <1>1 DEF TypeOK
        <5> QED BY <5>1, <5>2, <1>2, <1>3 DEF ToCome, Later
      <4>2. CASE m \in Elements(clWebSockListP) BY <4>2, <1>2, <1>3 DEF ToCome, Elements
      <4>3. CASE m = Interface /\ pclInterfaceP
        BY <4>3, <2>10, <1>1 DEF IsSource
      <4> QED BY <4>1, <4>2, <4>3, <2>1 DEF Open
    <3>4. Reached(m)'
      BY <3>1, <3>3, <2>1, <2>2, <2>3, <2>4, <1>2, <1>4 DEF Reached
    <3> QED BY <3>2, <3>4
  <2> QED BY <2>9, <2>10
<1> QED BY <1>8, <1>9, <1>13, <1>14, <1>15 DEF NetworkInv, OrderInv, ReachInv

(* What all steps after the frame is in log keep.                          *)
LEMMA CopyingStep ==
  ASSUME NetworkInv, job \in Jobs, Copying,
         NEW p \in {"local", "web", "stuck"}, NEW k \in Nat, Goto(p, k),
         UNCHANGED <<btNetworkEnabledP, clLocalSockListP, pclInterfaceP, count, sender, log, joined>>,
         clWebSockListP' \in Seq(Web), Distinct(clWebSockListP)', Open' \subseteq Open,
         job.source = "web" => clWebSockListP' = clWebSockListP,
         inbox' \in [Member -> Seq(Frame)],
         \A n \in Member : inbox'[n] \in {inbox[n], <<>>},
         outbox' \in [Member -> Seq(Frame)], skipped' \subseteq Frame \X Web
  PROVE  /\ TypeOK' /\ SenderInv' /\ CopyInv' /\ CountInv'
         /\ job'.phase = p /\ job'.index = k
         /\ \A m \in Member : Due(m)' = Due(m)
<1> USE DEF count
<1>1. TypeOK BY DEF NetworkInv
<1>2. /\ job' \in Jobs /\ job'.phase = p /\ job'.source = job.source /\ job'.pos = job.pos
      /\ job'.frame = job.frame /\ job'.index = k
  BY GoneOn
<1>3. TypeOK' BY <1>1, <1>2 DEF TypeOK
<1>4. SenderInv'
  <2>1. IsSource(sender[job.frame]) BY NotIdle DEF NetworkInv, SenderInv
  <2>2. IsSource(sender[job.frame])' BY <2>1, <1>2 DEF IsSource, At
  <2>3. ASSUME NEW n \in Member, NEW i \in DOMAIN inbox'[n] PROVE sender'[inbox'[n][i]] = n
    <3>1. inbox'[n] = inbox[n] \/ inbox'[n] = <<>> OBVIOUS
    <3>2. inbox'[n] = inbox[n] BY <3>1
    <3> QED BY <3>2 DEF NetworkInv, SenderInv
  <2> QED BY <2>2, <2>3 DEF NetworkInv, SenderInv, Distinct
<1>5. Copying' BY <1>2 DEF Copying
<1>6. CopyInv' BY <1>2, <1>5 DEF NetworkInv, CopyInv
<1>7. CountInv' BY <1>5 DEF NetworkInv, CountInv, Passed
<1>8. \A m \in Member : Due(m)' = Due(m) BY <1>1, SameDue
<1> QED BY <1>2, <1>3, <1>4, <1>6, <1>7, <1>8

(* x is next in its list.  The call leaves it out if it is the sender.     *)
LEMMA WriteTo ==
  ASSUME NetworkInv, Copying, NEW x \in Member, x \in Open, ToCome(x), ~ToCome(x)',
         job.frame \in Frame, Due(x)' = Due(x), log' = log, skipped' = skipped,
         \/ sender[job.frame] = x /\ outbox'[x] = outbox[x]
         \/ sender[job.frame] # x /\ outbox'[x] = Append(outbox[x], job.frame)
  PROVE  Placed(x)' /\ Reached(x)'
<1>1. /\ TypeOK /\ Placed(x) /\ Reached(x)
      /\ log # <<>> /\ log[Len(log)] = job.frame /\ joined[x] < Len(log)
  BY DEF NetworkInv, OrderInv, ReachInv, CopyInv, ToCome, Stuck
<1>2. CASE sender[job.frame] = x /\ outbox'[x] = outbox[x]
  <2>1. Len(log) \notin Due(x) BY <1>1, <1>2 DEF Due
  <2> QED BY <1>1, <1>2, <2>1, KeepPlaced, KeepReached
<1>3. CASE sender[job.frame] # x /\ outbox'[x] = Append(outbox[x], job.frame)
  BY <1>1, <1>3, WritePlaced, WriteReached
<1> QED BY <1>2, <1>3

LEMMA LocalStep == ASSUME NetworkInv, WriteLocal PROVE NetworkInv'
<1> USE DEF lists, past, count
<1>1. TypeOK /\ job \in Jobs /\ job.phase = "local" /\ Copying
  BY Running DEF NetworkInv, WriteLocal, Copying
<1>2. job.frame \in Frame /\ job.index \in Nat /\ job.pos \in Nat
      /\ IsSource(sender[job.frame])
  BY <1>1, NotIdle DEF NetworkInv, SenderInv, Jobs
<1>3. UNCHANGED <<btNetworkEnabledP, lists, pclInterfaceP, count, inbox, past>>
  BY DEF WriteLocal
<1>4. Open' = Open /\ Open \subseteq Member /\ inbox' \in [Member -> Seq(Frame)]
      /\ skipped' \subseteq Frame \X Web /\ clWebSockListP' \in Seq(Web) /\ Distinct(clWebSockListP)'
  BY <1>1, <1>3, Lists DEF Open, Elements, TypeOK, NetworkInv, SenderInv, Distinct
<1>5. \A m \in Open : Placed(m) /\ Reached(m) BY <1>1 DEF NetworkInv, OrderInv, ReachInv, Stuck
<1>6. CASE job.index < Len(clLocalSockListP)
  <2> DEFINE skip == job.source = "local" /\ job.index = job.pos
  <2>1. job.index + 1 \in DOMAIN clLocalSockListP BY <1>1, <1>2, <1>6 DEF TypeOK
  <2>0. PICK x \in Local : x = clLocalSockListP[job.index + 1] BY <1>1, <2>1, Lists
  <2>2. x \in Member /\ x \in Open BY <2>0, <2>1 DEF Member, Open, Elements
  <2>3. outbox' = IF skip THEN outbox ELSE [outbox EXCEPT ![x] = Append(outbox[x], job.frame)]
    BY <1>6, <2>0 DEF WriteLocal, Write
  <2>4. Goto("local", job.index + 1) BY <1>6 DEF WriteLocal
  <2>5. outbox' \in [Member -> Seq(Frame)]
    <3>1. Append(outbox[x], job.frame) \in Seq(Frame) BY <1>1, <1>2, <2>2 DEF TypeOK
    <3> QED BY <3>1, <2>3, <1>1 DEF TypeOK
  <2>6. /\ TypeOK' /\ SenderInv' /\ CopyInv' /\ CountInv'
        /\ job'.phase = "local" /\ job'.index = job.index + 1
        /\ \A m \in Member : Due(m)' = Due(m)
    <3>1. /\ UNCHANGED <<btNetworkEnabledP, clLocalSockListP, pclInterfaceP, count, sender, log,
                          joined>>
          /\ clWebSockListP' = clWebSockListP /\ Open' \subseteq Open
          /\ \A n \in Member : inbox'[n] \in {inbox[n], <<>>}
      BY <1>3, <1>4
    <3>2. job.index + 1 \in Nat BY <1>2
    <3> QED BY <1>1, <1>4, <2>4, <2>5, <3>1, <3>2, CopyingStep
  <2>7. skip <=> sender[job.frame] = x
    <3>1. CASE job.source = "local"
      <4>1. At(clLocalSockListP, job.pos, sender[job.frame]) BY <1>2, <3>1 DEF IsSource
      <4> QED BY <3>1, <4>1, <2>1, <2>0, <1>2 DEF At, NetworkInv, SenderInv, Distinct
    <3>2. CASE job.source # "local"
      BY <3>2, <1>1, <1>2, <2>2, Lists, MemberAssumption DEF IsSource, At
    <3> QED BY <3>1, <3>2
  <2>8. ToCome(x) /\ ~ToCome(x)'
    <3>1. Later(clLocalSockListP, x) BY <2>1, <2>0, <1>2 DEF Later
    <3>2. ~Later(clLocalSockListP, x)'
      BY <2>1, <2>0, <2>6, <1>2, <1>3 DEF Later, NetworkInv, SenderInv, Distinct
    <3>3. x \notin Elements(clWebSockListP)' BY <1>1, <1>3, <2>2, Lists, MemberAssumption DEF Elements
    <3> QED BY <3>1, <3>2, <3>3, <1>1, <2>6 DEF ToCome
  <2>9. Placed(x)' /\ Reached(x)'
    <3>1. outbox[x] \in Seq(Frame) /\ outbox'[x] = IF skip THEN outbox[x] ELSE Append(outbox[x], job.frame)
      BY <2>2, <2>3, <1>1 DEF TypeOK
    <3> QED BY <3>1, <1>1, <1>2, <1>3, <2>2, <2>6, <2>7, <2>8, WriteTo
  <2>10. ASSUME NEW m \in Open, m # x PROVE Placed(m)' /\ Reached(m)'
    <3>1. outbox'[m] = outbox[m] BY <2>3, <2>10, <1>1, <1>4 DEF TypeOK
    <3>2. ToCome(m)' <=> ToCome(m)
      <4>1. Later(clLocalSockListP, m)' <=> Later(clLocalSockListP, m)
        <5>1. \A k \in DOMAIN clLocalSockListP :
                clLocalSockListP[k] = m => (k > job.index <=> k > job.index + 1)
          BY <2>0, <2>10, <1>1, <1>2 DEF TypeOK
        <5> QED BY <5>1, <2>6, <1>3 DEF Later
      <4> QED BY <4>1, <2>6, <1>1, <1>3 DEF ToCome, Elements
    <3> QED BY <3>1, <3>2, <1>3, <1>4, <1>5, <2>6, KeepPlaced, KeepReached
  <2> QED BY <1>4, <2>6, <2>9, <2>10 DEF NetworkInv, OrderInv, ReachInv
<1>7. CASE ~(job.index < Len(clLocalSockListP))
  <2>1. outbox' = outbox /\ Goto("web", 0) BY <1>7 DEF WriteLocal
  <2>2. outbox' \in [Member -> Seq(Frame)] BY <2>1, <1>1 DEF TypeOK
  <2>3. /\ TypeOK' /\ SenderInv' /\ CopyInv' /\ CountInv'
        /\ job'.phase = "web" /\ job'.index = 0
        /\ \A m \in Member : Due(m)' = Due(m)
    BY <1>1, <1>2, <1>3, <1>4, <2>1, <2>2, CopyingStep
  <2>4. ASSUME NEW m \in Open PROVE ToCome(m)' <=> ToCome(m)
    <3>1. ~Later(clLocalSockListP, m) BY <1>1, <1>2, <1>7 DEF Later, TypeOK
    <3>2. Later(clWebSockListP, m)' <=> m \in Elements(clWebSockListP)
      BY <1>1, <1>3, <2>3 DEF Later, Elements, TypeOK
    <3> QED BY <3>1, <3>2, <1>1, <2>3 DEF ToCome
  <2>5. ASSUME NEW m \in Open PROVE Placed(m)' /\ Reached(m)'
    BY <2>1, <2>3, <2>4, <1>3, <1>4, <1>5, KeepPlaced, KeepReached
  <2> QED BY <1>4, <2>3, <2>5 DEF NetworkInv, OrderInv, ReachInv
<1> QED BY <1>6, <1>7

LEMMA WebStep == ASSUME NetworkInv, WriteWeb PROVE NetworkInv'
<1> USE DEF lists, past, count
<1>1. TypeOK /\ job \in Jobs /\ job.phase = "web" /\ Copying
  BY Running DEF NetworkInv, WriteWeb, Copying
<1>2. job.frame \in Frame /\ job.index \in Nat /\ job.pos \in Nat
      /\ IsSource(sender[job.frame])
  BY <1>1, NotIdle DEF NetworkInv, SenderInv, Jobs
<1>3. UNCHANGED <<btNetworkEnabledP, lists, pclInterfaceP, count, inbox, past>>
  BY DEF WriteWeb
<1>4. Open' = Open /\ Open \subseteq Member /\ inbox' \in [Member -> Seq(Frame)]
      /\ skipped' \subseteq Frame \X Web /\ clWebSockListP' \in Seq(Web) /\ Distinct(clWebSockListP)'
  BY <1>1, <1>3, Lists DEF Open, Elements, TypeOK, NetworkInv, SenderInv, Distinct
<1>5. \A m \in Open : Placed(m) /\ Reached(m) BY <1>1 DEF NetworkInv, OrderInv, ReachInv, Stuck
<1> DEFINE skip == job.source = "web" /\ job.index = job.pos
<1>6. job.index + 1 \in DOMAIN clWebSockListP BY <1>1, <1>2 DEF TypeOK, WriteWeb
<1>7. PICK x \in Web : x = clWebSockListP[job.index + 1] BY <1>1, <1>6, Lists
<1>8. x \in Member /\ x \in Open BY <1>6, <1>7 DEF Member, Open, Elements
<1>9. outbox' = IF skip THEN outbox ELSE [outbox EXCEPT ![x] = Append(outbox[x], job.frame)]
  BY <1>7 DEF WriteWeb, Write
<1>10. Goto("web", job.index + 1) BY DEF WriteWeb
<1>11. outbox' \in [Member -> Seq(Frame)]
  <2>1. Append(outbox[x], job.frame) \in Seq(Frame) BY <1>1, <1>2, <1>8 DEF TypeOK
  <2> QED BY <2>1, <1>9, <1>1 DEF TypeOK
<1>12. /\ TypeOK' /\ SenderInv' /\ CopyInv' /\ CountInv'
       /\ job'.phase = "web" /\ job'.index = job.index + 1
       /\ \A m \in Member : Due(m)' = Due(m)
  <2>1. /\ UNCHANGED <<btNetworkEnabledP, clLocalSockListP, pclInterfaceP, count, sender, log,
                        joined>>
        /\ clWebSockListP' = clWebSockListP /\ Open' \subseteq Open
        /\ \A n \in Member : inbox'[n] \in {inbox[n], <<>>}
    BY <1>3, <1>4
  <2>2. job.index + 1 \in Nat BY <1>2
  <2> QED BY <1>1, <1>4, <1>10, <1>11, <2>1, <2>2, CopyingStep
<1>13. skip <=> sender[job.frame] = x
  <2>1. CASE job.source = "web"
    <3>1. At(clWebSockListP, job.pos, sender[job.frame]) BY <1>2, <2>1 DEF IsSource
    <3> QED BY <2>1, <3>1, <1>6, <1>7, <1>2 DEF At, NetworkInv, SenderInv, Distinct
  <2>2. CASE job.source # "web"
    BY <2>2, <1>1, <1>2, <1>7, Lists, MemberAssumption DEF IsSource, At
  <2> QED BY <2>1, <2>2
<1>14. ToCome(x) /\ ~ToCome(x)'
  <2>1. Later(clWebSockListP, x) BY <1>6, <1>7, <1>2 DEF Later
  <2>2. ~Later(clWebSockListP, x)'
    BY <1>6, <1>7, <1>12, <1>2, <1>3 DEF Later, NetworkInv, SenderInv, Distinct
  <2> QED BY <2>1, <2>2, <1>1, <1>12 DEF ToCome
<1>15. Placed(x)' /\ Reached(x)'
  <2>1. outbox[x] \in Seq(Frame)
        /\ outbox'[x] = IF skip THEN outbox[x] ELSE Append(outbox[x], job.frame)
    BY <1>8, <1>9, <1>1 DEF TypeOK
  <2> QED BY <2>1, <1>1, <1>2, <1>3, <1>8, <1>12, <1>13, <1>14, WriteTo
<1>16. ASSUME NEW m \in Open, m # x PROVE Placed(m)' /\ Reached(m)'
  <2>1. outbox'[m] = outbox[m] BY <1>9, <1>16, <1>1, <1>4 DEF TypeOK
  <2>2. ToCome(m)' <=> ToCome(m)
    <3>1. \A k \in DOMAIN clWebSockListP :
            clWebSockListP[k] = m => (k > job.index <=> k > job.index + 1)
      BY <1>7, <1>16, <1>1, <1>2 DEF TypeOK
    <3>2. Later(clWebSockListP, m)' <=> Later(clWebSockListP, m)
      BY <3>1, <1>12, <1>3 DEF Later
    <3> QED BY <3>2, <1>12, <1>1 DEF ToCome
  <2> QED BY <2>1, <2>2, <1>3, <1>4, <1>5, <1>12, KeepPlaced, KeepReached
<1> QED BY <1>4, <1>12, <1>15, <1>16 DEF NetworkInv, OrderInv, ReachInv

(* The list shrinks under the loop, which skips the socket behind the gap. *)
LEMMA LoseStep == ASSUME NetworkInv, LoseWeb PROVE NetworkInv'
<1> USE DEF past, count
<1>1. TypeOK /\ job \in Jobs /\ job.phase = "web" /\ Copying
  BY Running DEF NetworkInv, LoseWeb, Copying
<1>2. job.frame \in Frame /\ job.index \in Nat BY <1>1 DEF Jobs
<1>3. UNCHANGED <<btNetworkEnabledP, clLocalSockListP, pclInterfaceP, count, sender, log, joined>>
  BY DEF LoseWeb
<1>4. job.index + 1 \in DOMAIN clWebSockListP BY <1>1, <1>2 DEF TypeOK, LoseWeb
<1>5. \A m \in Open : Placed(m) /\ Reached(m) BY <1>1 DEF NetworkInv, OrderInv, ReachInv, Stuck
<1>6. log[Len(log)] = job.frame BY <1>1 DEF NetworkInv, CopyInv
<1>7. Open \subseteq Member BY <1>1, Lists
<1>8. CASE clWebSockMutexP
  <2>1. Goto("stuck", job.index) /\ UNCHANGED <<clWebSockListP, inbox, outbox, skipped>>
    BY <1>8 DEF LoseWeb
  <2>2. /\ Open' = Open /\ clWebSockListP' \in Seq(Web) /\ Distinct(clWebSockListP)'
        /\ inbox' \in [Member -> Seq(Frame)] /\ outbox' \in [Member -> Seq(Frame)]
        /\ skipped' \subseteq Frame \X Web
    BY <1>1, <1>3, <2>1 DEF Open, Elements, TypeOK, NetworkInv, SenderInv, Distinct
  <2>3. /\ TypeOK' /\ SenderInv' /\ CopyInv' /\ CountInv'
        /\ job'.phase = "stuck" /\ \A m \in Member : Due(m)' = Due(m)
    BY <1>1, <1>2, <1>3, <2>1, <2>2, CopyingStep
  <2>4. \A m : ~ToCome(m)' BY <2>3 DEF ToCome
  <2>5. ASSUME NEW m \in Open PROVE Placed(m)'
    BY <2>1, <2>3, <2>4, <1>3, <1>5, <1>7, KeepPlaced
  <2> QED BY <2>2, <2>3, <2>5 DEF NetworkInv, OrderInv, ReachInv, Stuck
<1>9. CASE ~clWebSockMutexP
  <2>1. PICK w \in Web : w = clWebSockListP[job.index + 1] BY <1>1, <1>4, Lists
  <2>2. /\ clWebSockListP' = Without(clWebSockListP, job.index + 1)
        /\ inbox' = [inbox EXCEPT ![w] = <<>>] /\ outbox' = [outbox EXCEPT ![w] = <<>>]
        /\ Goto("web", job.index + 1)
        /\ skipped' = skipped \cup ({job.frame} \X Behind(job.index + 1))
    BY <1>4, <1>9, <2>1 DEF LoseWeb
  <2>3. clWebSockListP \in Seq(Web) /\ Distinct(clWebSockListP) /\ Len(clWebSockListP) \in Nat
        /\ DOMAIN clWebSockListP = 1 .. Len(clWebSockListP)
    BY <1>1 DEF TypeOK, NetworkInv, SenderInv
  <2>4. /\ clWebSockListP' \in Seq(Web)
        /\ DOMAIN clWebSockListP' = 1 .. Len(clWebSockListP) - 1
        /\ \A j \in 1 .. Len(clWebSockListP) - 1 :
             clWebSockListP'[j] = IF j < job.index + 1 THEN clWebSockListP[j]
                                  ELSE clWebSockListP[j + 1]
    BY <2>2, <2>3, <1>4, WithoutOne
  <2>5. Distinct(clWebSockListP)' /\ Elements(clWebSockListP)' = Elements(clWebSockListP) \ {w}
    <3>1. Distinct(Without(clWebSockListP, job.index + 1))
          /\ Elements(Without(clWebSockListP, job.index + 1)) = Elements(clWebSockListP) \ {w}
      BY <2>1, <2>3, <1>4, WithoutDistinct
    <3> QED BY <3>1, <2>2 DEF Distinct, Elements
  <2>6. w \notin Open' /\ Open' \subseteq Open
    <3>1. w \notin Elements(clLocalSockListP) /\ w # Interface
      BY <1>1, Lists, MemberAssumption
    <3> QED BY <3>1, <2>5, <1>3 DEF Open, Elements
  <2>7. /\ inbox' \in [Member -> Seq(Frame)] /\ outbox' \in [Member -> Seq(Frame)]
        /\ \A n \in Member : inbox'[n] \in {inbox[n], <<>>}
    <3>1. <<>> \in Seq(Frame) OBVIOUS
    <3> QED BY <3>1, <2>2, <1>1 DEF TypeOK
  <2>12. skipped' \subseteq Frame \X Web
    <3>1. Behind(job.index + 1) \subseteq Web BY <1>1, Lists DEF Behind
    <3> QED BY <3>1, <2>2, <1>1, <1>2 DEF TypeOK
  <2>8. job.source # "web" BY <1>1, <1>9 DEF clWebSockMutexP
  <2>9. /\ TypeOK' /\ SenderInv' /\ CopyInv' /\ CountInv'
        /\ job'.phase = "web" /\ job'.index = job.index + 1
        /\ \A m \in Member : Due(m)' = Due(m)
    BY <1>1, <1>2, <1>3, <2>2, <2>4, <2>5, <2>6, <2>7, <2>8, <2>12, CopyingStep
  <2>10. ASSUME NEW m \in Open', ToCome(m)' PROVE ToCome(m)
    <3>1. PICK k \in DOMAIN clWebSockListP' : k > job.index + 1 /\ clWebSockListP'[k] = m
      BY <2>9, <2>10 DEF ToCome, Later
    <3>2. k + 1 \in DOMAIN clWebSockListP /\ clWebSockListP[k + 1] = m /\ k + 1 > job.index
      BY <3>1, <2>3, <2>4, <1>2
    <3> QED BY <3>2, <1>1 DEF ToCome, Later
  <2>13. ASSUME NEW m \in Open', ToCome(m)
         PROVE  ToCome(m)' \/ <<job.frame, m>> \in skipped'
    <3>1. PICK k \in DOMAIN clWebSockListP : k > job.index /\ clWebSockListP[k] = m
      BY <2>13, <1>1 DEF ToCome, Later
    <3>2. k # job.index + 1 BY <3>1, <2>1, <2>6
    <3>3. CASE k = job.index + 2
      <4>1. m \in Behind(job.index + 1) BY <3>1, <3>3, <1>2 DEF Behind
      <4> QED BY <4>1, <2>2
    <3>4. CASE k > job.index + 2
      <4>1. k - 1 \in DOMAIN clWebSockListP' /\ clWebSockListP'[k - 1] = m
            /\ k - 1 > job.index + 1
        BY <3>1, <3>4, <2>3, <2>4, <1>2
      <4> QED BY <4>1, <2>9 DEF ToCome, Later
    <3> QED BY <3>1, <3>2, <3>3, <3>4, <2>3, <1>2
  <2>11. ASSUME NEW m \in Open' PROVE Placed(m)' /\ Reached(m)'
    <3>1. m \in Open /\ m \in Member /\ m # w BY <2>6, <1>7
    <3>2. outbox'[m] = outbox[m] BY <3>1, <2>2, <1>1 DEF TypeOK
    <3>3. skipped \subseteq skipped' BY <2>2
    <3>4. Due(m)' = Due(m) /\ Placed(m) /\ Reached(m) BY <3>1, <2>9, <1>5
    <3>5. Placed(m)' BY <3>2, <3>4, <2>10, <1>3, KeepPlaced
    <3>6. Reached(m)' BY <3>2, <3>3, <3>4, <2>13, <1>3, <1>6, KeepReached
    <3> QED BY <3>5, <3>6
  <2> QED BY <2>9, <2>11 DEF NetworkInv, OrderInv, ReachInv
<1> QED BY <1>8, <1>9

------------------------------------------------------------------------------
LEMMA InitHolds == Init => NetworkInv
<1> SUFFICES ASSUME Init PROVE NetworkInv OBVIOUS
<1> USE DEF Init
<1>1. TypeOK
  <2>1. <<>> \in Seq(Frame) /\ <<>> \in Seq(Local) /\ <<>> \in Seq(Web) /\ Len(<<>>) = 0 OBVIOUS
  <2>2. 0 \in 0 .. Len(log) BY <2>1
  <2>3. joined \in [Member -> 0 .. Len(log)] /\ reset \in 0 .. Len(log) BY <2>2
  <2>4. inbox \in [Member -> Seq(Frame)] /\ outbox \in [Member -> Seq(Frame)] BY <2>1
  <2> QED BY <2>1, <2>3, <2>4 DEF TypeOK
<1>2. job.phase = "idle" BY DEF Idle
<1>3. SenderInv BY DEF SenderInv, Distinct
<1>4. Open = {} BY DEF Open, Elements
<1>5. CountInv
  <2>1. Passed(0, Frame \ Error) = {} /\ Passed(0, Error) = {} BY DEF Passed
  <2> QED BY <1>2, <2>1, FS_EmptySet DEF CountInv, Copying
<1> QED BY <1>1, <1>2, <1>3, <1>4, <1>5 DEF NetworkInv, CopyInv, Copying, OrderInv, ReachInv

LEMMA StepHolds == NetworkInv /\ [Next]_vars => NetworkInv'
<1> SUFFICES ASSUME NetworkInv, [Next]_vars PROVE NetworkInv'
  OBVIOUS
<1>1. CASE Members
  BY <1>1, MemberStep, EnableStep, ResetStep, SendStep DEF Members
<1>2. CASE NewData BY <1>2, NewDataStep
<1>3. CASE handleCanFrame
  BY <1>3, InterfaceStep, RefuseStep, LocalStep, WebStep, LoseStep, CountStep DEF handleCanFrame
<1>4. CASE UNCHANGED vars
  <2> USE <1>4 DEF vars, lists, count, past
  <2>1. TypeOK' BY DEF NetworkInv, TypeOK
  <2>2. SenderInv' BY DEF NetworkInv, SenderInv, IsSource, At, Distinct
  <2>3. CopyInv' /\ CountInv' BY DEF NetworkInv, CopyInv, CountInv, Copying, Open, Elements, Passed
  <2>4. OrderInv' /\ ReachInv' BY QuietStep DEF ToCome, Later, Elements, Stuck
  <2> QED BY <2>1, <2>2, <2>3, <2>4 DEF NetworkInv
<1> QED BY <1>1, <1>2, <1>3, <1>4 DEF Next

(* The frames, the lists and the position a call was given stay in order,  *)
(* whoever comes and goes: the inductive invariant of the network.         *)
THEOREM NetworkInvariance == Spec => []NetworkInv
BY InitHolds, StepHolds, PTL DEF Spec

(* All members see one order, none of them a frame twice or its own.       *)
THEOREM NetworkIsABus == Spec => []OrderedOnce
<1>1. NetworkInv => OrderedOnce BY DEF NetworkInv, OrderInv, Placed, OrderedOnce
<1> QED BY <1>1, NetworkInvariance, PTL

(* A frame that was passed on is with every member but its sender, except  *)
(* for the WebSocket directly behind one that is lost while it is copied.  *)
THEOREM NoneLeftOut == Spec => []NobodyLeftOut
<1>1. NetworkInv => NobodyLeftOut
  <2> SUFFICES ASSUME NetworkInv, job = Idle, NEW m \in Open, NEW i \in Due(m)
               PROVE  log[i] \in Elements(outbox[m]) \/ <<log[i], m>> \in skipped
    BY DEF NobodyLeftOut
  <2>1. ~ToCome(m) /\ ~Stuck BY DEF ToCome, Idle, Stuck
  <2> QED BY <2>1 DEF NetworkInv, ReachInv, Reached
<1> QED BY <1>1, NetworkInvariance, PTL

(* The counters agree with what was passed on since they were cleared.     *)
THEOREM CountersExact == Spec => []CountsExact
<1>1. NetworkInv => CountsExact
  BY DEF NetworkInv, CountInv, CountsExact, Copying, Idle
<1> QED BY <1>1, NetworkInvariance, PTL
==============================================================================
