------------------------- MODULE QCanInterfacesProofs -------------------------
(***************************************************************************)
(* Proofs about the interface plug-ins, for every set of messages and      *)
(* bit rates and every bound of the queues: the USART interface passes     *)
(* each frame on once, in order and one at a time, and reads nothing that  *)
(* is older than its connection; the PEAK and the VCI 4 interface read     *)
(* what the library hands out, which is the longest part, since it takes   *)
(* the lemmas about the part of a sequence that lies in a set (Only); the  *)
(* VCI 4 interface uses the line it was given; and an interface that is    *)
(* connected is polled.                                                    *)
(*                                                                         *)
(* PluginsInv has a part for each kind of interface.  Of the USART         *)
(* interface it says where a frame can be: what was put in, what is under  *)
(* way and what came out follow each other in the order of a history       *)
(* (Follow), and only buffer 1 transmits, so that it alone answers for     *)
(* the frame written last (Ready).                                         *)
(***************************************************************************)
EXTENDS MCQCanInterfaces, Subsequences, WellFoundedInduction, TLAPS

(* A set of natural numbers has a least member.                            *)
LEMMA LeastMember ==
  ASSUME NEW T, T \subseteq Nat, T # {}
  PROVE  \E x \in T : \A y \in T : x <= y
<1> DEFINE R == {pair \in Nat \X Nat : pair[1] < pair[2]}
<1>1. IsWellFoundedOn(OpToRel(<, Nat), Nat)
  BY NatLessThanWellFounded
<1>2. IsWellFoundedOn(R, Nat)
  BY <1>1 DEF OpToRel
<1> HIDE DEF R
<1>3. PICK x \in T : \A y \in T : ~(<<y, x>> \in R)
  BY <1>2, WFMin
<1>4. \A y \in T : x <= y
  <2> SUFFICES ASSUME NEW y \in T PROVE x <= y
    OBVIOUS
  <2>1. ~(<<y, x>> \in R)
    BY <1>3
  <2>2. <<y, x>> \in Nat \X Nat
    OBVIOUS
  <2> QED
    BY <2>1, <2>2 DEF R
<1> QED
  BY <1>4

------------------------------------------------------------------------------
(* Sequences, and the part of them that lies in a set.                     *)
(* Induction over the natural numbers, from the fact that < is well        *)
(* founded, and over sequences: as sets that are closed.                   *)
LEMMA Induction ==
  ASSUME NEW S, S \subseteq Nat, 0 \in S, \A n \in S : n + 1 \in S
  PROVE  S = Nat
<1> SUFFICES ASSUME S # Nat PROVE FALSE
  OBVIOUS
<1>1. Nat \ S # {} /\ Nat \ S \subseteq Nat
  OBVIOUS
<1>2. PICK x \in Nat \ S : \A y \in Nat \ S : x <= y
  BY <1>1, LeastMember
<1>3. x # 0 /\ x - 1 \in Nat
  OBVIOUS
<1>4. x - 1 \in S
  BY <1>2, <1>3
<1> QED
  BY <1>4

(* Append under a name of its own: the provers take Append itself apart.   *)
Longer(s, e) == Append(s, e)
Joined(s, x) == s \o x

LEMMA SameSequence ==
  ASSUME NEW S, NEW s \in Seq(S), NEW t \in Seq(S), Len(s) = Len(t),
         \A k \in 1 .. Len(s) : s[k] = t[k]
  PROVE  s = t
OBVIOUS

LEMMA LongerType ==
  ASSUME NEW T, NEW s \in Seq(T), NEW e \in T
  PROVE  /\ Longer(s, e) \in Seq(T) /\ Len(Longer(s, e)) = Len(s) + 1
         /\ Longer(s, e)[Len(s) + 1] = e /\ \A k \in 1 .. Len(s) : Longer(s, e)[k] = s[k]
BY DEF Longer

LEMMA ShorterByOne ==
  ASSUME NEW T, NEW s \in Seq(T), NEW k \in Nat, Len(s) = k + 1
  PROVE  \E front \in Seq(T), e \in T : Len(front) = k /\ s = Longer(front, e)
<1> DEFINE front == [j \in 1 .. k |-> s[j]]
<1>1. \A j \in 1 .. k : s[j] \in T
  OBVIOUS
<1>2. front \in Seq(T) /\ Len(front) = k
  BY <1>1
<1>3. s[k + 1] \in T
  OBVIOUS
<1>4. Append(front, s[k + 1]) \in Seq(T) /\ Len(Append(front, s[k + 1])) = k + 1
  BY <1>2, <1>3
<1>5. \A j \in 1 .. k + 1 : Append(front, s[k + 1])[j] = s[j]
  BY <1>2, <1>3
<1>6. s = Append(front, s[k + 1])
  <2> HIDE DEF front
  <2> QED BY <1>4, <1>5
<1> QED
  BY <1>2, <1>3, <1>6 DEF Longer

LEMMA ListInduction ==
  ASSUME NEW T, NEW L, <<>> \in L,
         \A s \in Seq(T), e \in T : s \in L => Longer(s, e) \in L
  PROVE  \A s \in Seq(T) : s \in L
<1> DEFINE S == {k \in Nat : \A s \in Seq(T) : Len(s) = k => s \in L}
<1>1. 0 \in S
  <2>1. ASSUME NEW s \in Seq(T), Len(s) = 0 PROVE s \in L
    <3>1. s = <<>>
      BY <2>1
    <3> QED
      BY <3>1
  <2> QED
    BY <2>1
<1>2. ASSUME NEW k \in S PROVE k + 1 \in S
  <2>1. ASSUME NEW s \in Seq(T), Len(s) = k + 1 PROVE s \in L
    <3>1. PICK front \in Seq(T), e \in T : Len(front) = k /\ s = Longer(front, e)
      BY <2>1, ShorterByOne
    <3>2. front \in L
      BY <1>2, <3>1
    <3> QED
      BY <3>1, <3>2
  <2> QED
    BY <2>1
<1>3. S = Nat
  <2>1. S \subseteq Nat
    OBVIOUS
  <2> HIDE DEF S
  <2> QED BY <1>1, <1>2, <2>1, Induction
<1> QED
  BY <1>3

(* A recursive function exists for every length: a step, given as a        *)
(* function of position and last value, is repeated.                       *)
Repeats(f, n, D, base, step) ==
  /\ f \in [0 .. n -> D] /\ f[0] = base
  /\ \A k \in 1 .. n : f[k] = step[k][f[k - 1]]

LEMMA Repeated ==
  ASSUME NEW n \in Nat, NEW D, NEW base \in D, NEW step,
         \A k \in 1 .. n, d \in D : step[k][d] \in D
  PROVE  \E f : Repeats(f, n, D, base, step)
<1> DEFINE Good(f, m) == f[0] = base /\ \A k \in 1 .. m : f[k] = step[k][f[k - 1]]
           S == {m \in Nat : m <= n => \E f \in [0 .. m -> D] : Good(f, m)}
<1>1. 0 \in S
  <2>1. [k \in 0 .. 0 |-> base] \in [0 .. 0 -> D]
    OBVIOUS
  <2>2. Good([k \in 0 .. 0 |-> base], 0)
    OBVIOUS
  <2> QED
    BY <2>1, <2>2
<1>2. ASSUME NEW m \in S PROVE m + 1 \in S
  <2> SUFFICES ASSUME m + 1 <= n PROVE \E g \in [0 .. m + 1 -> D] : Good(g, m + 1)
    OBVIOUS
  <2>1. PICK f \in [0 .. m -> D] : Good(f, m)
    OBVIOUS
  <2>2. f[m] \in D /\ step[m + 1][f[m]] \in D
    OBVIOUS
  <2> DEFINE g == [k \in 0 .. m + 1 |-> IF k <= m THEN f[k] ELSE step[m + 1][f[m]]]
  <2>3. g \in [0 .. m + 1 -> D]
    BY <2>2
  <2>4. ASSUME NEW k \in 1 .. m + 1 PROVE g[k] = step[k][g[k - 1]]
    <3>1. g[k - 1] = f[k - 1]
      OBVIOUS
    <3>2. CASE k <= m
      BY <2>1, <3>1, <3>2
    <3>3. CASE k = m + 1
      <4>1. k - 1 = m /\ ~(k <= m)
        BY <3>3
      <4>2. g[k] = step[m + 1][f[m]] /\ g[k - 1] = f[m]
        BY <3>1, <4>1
      <4> HIDE DEF g
      <4> QED
        BY <3>3, <4>2
    <3> QED
      BY <3>2, <3>3
  <2>5. g[0] = base
    BY <2>1
  <2> HIDE DEF g
  <2> QED
    BY <2>3, <2>4, <2>5
<1>3. S = Nat
  <2>1. S \subseteq Nat
    OBVIOUS
  <2> HIDE DEF S
  <2> QED BY <1>1, <1>2, <2>1, Induction
<1>4. n \in S
  BY <1>3
<1>5. PICK f \in [0 .. n -> D] : Good(f, n)
  BY <1>4
<1> QED
  BY <1>5 DEF Repeats

(* What Only computes, position after position.                            *)
Selects(f, s, S) ==
  f[0] = <<>> /\ \A k \in 1 .. Len(s) :
    f[k] = IF s[k] \in S THEN Append(f[k - 1], s[k]) ELSE f[k - 1]

LEMMA OnlySelects ==
  ASSUME NEW T, NEW s \in Seq(T), NEW S
  PROVE  \E f : Selects(f, s, S) /\ Only(s, S) = f[Len(s)]
<1> DEFINE n == Len(s)
           step == [k \in 1 .. n |-> [d \in Seq(T) |->
                      IF s[k] \in S THEN Append(d, s[k]) ELSE d]]
           H(g, k) == IF k = 0 THEN <<>>
                      ELSE IF s[k] \in S THEN Append(g[k - 1], s[k]) ELSE g[k - 1]
           only == CHOOSE g : g = [k \in 0 .. n |-> H(g, k)]
<1>1. ASSUME NEW k \in 1 .. n, NEW d \in Seq(T)
      PROVE  /\ step[k][d] = IF s[k] \in S THEN Append(d, s[k]) ELSE d
             /\ step[k][d] \in Seq(T)
  <2>1. s[k] \in T
    OBVIOUS
  <2>2. Append(d, s[k]) \in Seq(T)
    BY <2>1
  <2>3. step[k][d] = IF s[k] \in S THEN Append(d, s[k]) ELSE d
    OBVIOUS
  <2> QED
    BY <2>2, <2>3
<1>2. n \in Nat /\ <<>> \in Seq(T)
  OBVIOUS
<1> HIDE DEF n, step
<1>3. PICK f \in [0 .. n -> Seq(T)] :
        f[0] = <<>> /\ \A k \in 1 .. n : f[k] = step[k][f[k - 1]]
  <2>1. \A k \in 1 .. n, d \in Seq(T) : step[k][d] \in Seq(T)
    BY <1>1
  <2>2. PICK D, base : D = Seq(T) /\ base = <<>>
    OBVIOUS
  <2>3. base \in D /\ \A k \in 1 .. n, d \in D : step[k][d] \in D
    BY <1>2, <2>1, <2>2
  <2>4. PICK f : Repeats(f, n, D, base, step)
    BY <1>2, <2>3, Repeated
  <2> QED
    BY <2>2, <2>4 DEF Repeats
<1>4. ASSUME NEW k \in 1 .. n
      PROVE  f[k] = IF s[k] \in S THEN Append(f[k - 1], s[k]) ELSE f[k - 1]
  <2>1. f[k - 1] \in Seq(T)
    BY <1>2
  <2> QED
    BY <1>1, <1>3, <2>1
<1>5. f = [k \in 0 .. n |-> H(f, k)]
  <2>1. ASSUME NEW k \in 0 .. n PROVE f[k] = H(f, k)
    <3>1. k # 0 => k \in 1 .. n
      BY <1>2
    <3> QED
      BY <1>3, <1>4, <3>1
  <2> HIDE DEF H
  <2> QED BY <1>3, <2>1
<1>6. only = [k \in 0 .. n |-> H(only, k)]
  <2> HIDE DEF H
  <2> QED BY <1>5
<1>7. Only(s, S) = only[n]
  BY DEF Only, n
<1>8. \A k \in 0 .. n : only[k] = H(only, k)
  <2> HIDE DEF only
  <2> QED BY <1>6
<1> HIDE DEF only
<1> DEFINE E == {k \in Nat : k <= n => only[k] = f[k]}
<1>9. 0 \in E
  BY <1>2, <1>3, <1>8
<1>10. ASSUME NEW k \in E PROVE k + 1 \in E
  <2> SUFFICES ASSUME k + 1 <= n PROVE only[k + 1] = f[k + 1]
    OBVIOUS
  <2>1. only[k] = f[k] /\ (k + 1) - 1 = k
    BY <1>2
  <2>2. only[k + 1] = IF s[k + 1] \in S THEN Append(only[k], s[k + 1]) ELSE only[k]
    BY <1>2, <1>8, <2>1
  <2>3. f[k + 1] = IF s[k + 1] \in S THEN Append(f[k], s[k + 1]) ELSE f[k]
    BY <1>2, <1>4, <2>1
  <2> QED
    BY <2>1, <2>2, <2>3
<1>11. E = Nat
  <2>1. E \subseteq Nat
    OBVIOUS
  <2> HIDE DEF E
  <2> QED BY <1>9, <1>10, <2>1, Induction
<1>12. Only(s, S) = f[n]
  <2>1. n \in E
    BY <1>2, <1>11
  <2> QED
    BY <1>2, <1>7, <2>1
<1>13. Selects(f, s, S)
  BY <1>3, <1>4 DEF Selects, n
<1> QED
  BY <1>3, <1>12, <1>13 DEF n

(* The result depends on the positions up to the length only.              *)
LEMMA OnlySame ==
  ASSUME NEW T, NEW s \in Seq(T), NEW x \in Seq(T), NEW S, NEW f, NEW g,
         Selects(f, s, S), Selects(g, x, S),
         NEW n \in Nat, n <= Len(s), n <= Len(x), \A k \in 1 .. n : s[k] = x[k]
  PROVE  f[n] = g[n]
<1> DEFINE E == {k \in Nat : k <= n => f[k] = g[k]}
<1>1. 0 \in E
  BY DEF Selects
<1>2. ASSUME NEW k \in E PROVE k + 1 \in E
  <2> SUFFICES ASSUME k + 1 <= n PROVE f[k + 1] = g[k + 1]
    OBVIOUS
  <2>1. f[k] = g[k] /\ (k + 1) - 1 = k /\ k + 1 \in 1 .. n /\ s[k + 1] = x[k + 1]
    OBVIOUS
  <2>2. k + 1 \in 1 .. Len(s) /\ k + 1 \in 1 .. Len(x)
    OBVIOUS
  <2>3. f[k + 1] = IF s[k + 1] \in S THEN Append(f[k], s[k + 1]) ELSE f[k]
    BY <2>1, <2>2 DEF Selects
  <2>4. g[k + 1] = IF x[k + 1] \in S THEN Append(g[k], x[k + 1]) ELSE g[k]
    BY <2>1, <2>2 DEF Selects
  <2> QED
    BY <2>1, <2>3, <2>4
<1>3. E = Nat
  <2>1. E \subseteq Nat
    OBVIOUS
  <2> HIDE DEF E
  <2> QED BY <1>1, <1>2, <2>1, Induction
<1> QED
  BY <1>3

LEMMA OnlyNone ==
  ASSUME NEW S
  PROVE  Only(<<>>, S) = <<>>
<1>1. <<>> \in Seq({}) /\ Len(<<>>) = 0
  OBVIOUS
<1>2. PICK s \in Seq({}) : s = <<>>
  BY <1>1
<1>3. PICK f : Selects(f, s, S) /\ Only(s, S) = f[Len(s)]
  BY OnlySelects
<1> QED
  BY <1>2, <1>3 DEF Selects

LEMMA OnlyOneMore ==
  ASSUME NEW T, NEW s \in Seq(T), NEW e \in T, NEW S
  PROVE  Only(Longer(s, e), S) = IF e \in S THEN Longer(Only(s, S), e) ELSE Only(s, S)
<1>0. Longer(s, e) \in Seq(T)
  BY LongerType
<1>1. PICK x \in Seq(T) : x = Longer(s, e)
  BY <1>0
<1>2. Len(x) = Len(s) + 1 /\ x[Len(x)] = e /\ \A k \in 1 .. Len(s) : x[k] = s[k]
  <2>1. /\ Len(Longer(s, e)) = Len(s) + 1 /\ Longer(s, e)[Len(s) + 1] = e
        /\ \A k \in 1 .. Len(s) : Longer(s, e)[k] = s[k]
    BY LongerType
  <2> QED
    BY <1>1, <2>1
<1>3. PICK f : Selects(f, s, S) /\ Only(s, S) = f[Len(s)]
  BY OnlySelects
<1>4. PICK g : Selects(g, x, S) /\ Only(x, S) = g[Len(x)]
  BY OnlySelects
<1>5. f[Len(s)] = g[Len(s)]
  <2>1. Len(s) \in Nat /\ Len(s) <= Len(x)
    BY <1>2
  <2>2. \A k \in 1 .. Len(s) : s[k] = x[k]
    BY <1>2
  <2> QED
    BY <1>1, <1>3, <1>4, <2>1, <2>2, OnlySame
<1>6. Len(x) \in 1 .. Len(x) /\ Len(x) - 1 = Len(s)
  BY <1>2
<1>7. g[Len(x)] = IF e \in S THEN Longer(g[Len(s)], e) ELSE g[Len(s)]
  <2>1. g[Len(x)] = IF x[Len(x)] \in S THEN Append(g[Len(x) - 1], x[Len(x)]) ELSE g[Len(x) - 1]
    BY <1>4, <1>6 DEF Selects
  <2> QED
    BY <1>2, <1>6, <2>1 DEF Longer
<1> QED
  BY <1>1, <1>3, <1>4, <1>5, <1>7

LEMMA OnlyType ==
  ASSUME NEW T, NEW s \in Seq(T), NEW S
  PROVE  Only(s, S) \in Seq(T) /\ Only(s, S) \in Seq(S)
<1> DEFINE L == {x \in Seq(T) : Only(x, S) \in Seq(T) /\ Only(x, S) \in Seq(S)}
<1>1. <<>> \in L
  <2>1. <<>> \in Seq(T) /\ <<>> \in Seq(S)
    OBVIOUS
  <2> QED
    BY <2>1, OnlyNone
<1>2. ASSUME NEW x \in Seq(T), NEW e \in T, x \in L PROVE Longer(x, e) \in L
  <2>1. Only(Longer(x, e), S) = IF e \in S THEN Longer(Only(x, S), e) ELSE Only(x, S)
    BY OnlyOneMore
  <2>2. Only(x, S) \in Seq(T) /\ Only(x, S) \in Seq(S)
    BY <1>2
  <2>3. Longer(x, e) \in Seq(T)
    BY LongerType
  <2>4. PICK o : o = Only(x, S)
    OBVIOUS
  <2>5. Longer(o, e) \in Seq(T)
    BY <2>2, <2>4, LongerType
  <2>6. e \in S => Longer(o, e) \in Seq(S)
    BY <2>2, <2>4, LongerType
  <2> QED
    BY <2>1, <2>2, <2>3, <2>4, <2>5, <2>6
<1>3. \A x \in Seq(T) : x \in L
  <2> HIDE DEF L
  <2> QED BY <1>1, <1>2, ListInduction
<1> QED
  BY <1>3

LEMMA AppendBoth ==
  ASSUME NEW T, NEW s \in Seq(T), NEW x \in Seq(T), NEW e \in T
  PROVE  Longer(Joined(s, x), e) = Joined(s, Longer(x, e))
<1>1. /\ s \o x \in Seq(T) /\ Len(s \o x) = Len(s) + Len(x)
      /\ Append(x, e) \in Seq(T) /\ Len(Append(x, e)) = Len(x) + 1
  OBVIOUS
<1>2. Append(s \o x, e) \in Seq(T) /\ s \o Append(x, e) \in Seq(T)
  BY <1>1
<1>3. PICK l \in Seq(T) : l = Append(s \o x, e)
  BY <1>2
<1>4. PICK r \in Seq(T) : r = s \o Append(x, e)
  BY <1>2
<1>5. Len(l) = Len(r)
  BY <1>1, <1>3, <1>4
<1>6. \A k \in 1 .. Len(l) : l[k] = r[k]
  BY <1>1, <1>3, <1>4
<1>7. l = r
  BY <1>5, <1>6, SameSequence
<1> QED
  BY <1>3, <1>4, <1>7 DEF Longer, Joined

LEMMA OnlyBoth ==
  ASSUME NEW T, NEW s \in Seq(T), NEW x \in Seq(T), NEW S
  PROVE  Only(Joined(s, x), S) = Joined(Only(s, S), Only(x, S))
<1> DEFINE L == {y \in Seq(T) : Only(s \o y, S) = Only(s, S) \o Only(y, S)}
<1>0. Only(s, S) \in Seq(T)
  BY OnlyType
<1>1. <<>> \in L
  <2>1. s \o <<>> = s /\ Only(s, S) \o <<>> = Only(s, S) /\ <<>> \in Seq(T)
    BY <1>0
  <2> QED
    BY <2>1, OnlyNone
<1>2. ASSUME NEW y \in Seq(T), NEW e \in T, y \in L PROVE Longer(y, e) \in L
  <2>1. s \o y \in Seq(T) /\ Longer(y, e) \in Seq(T)
    BY LongerType
  <2>2. s \o Longer(y, e) = Longer(s \o y, e)
    BY AppendBoth DEF Joined
  <2>4. Only(s, S) \in Seq(T) /\ Only(y, S) \in Seq(T)
    BY OnlyType
  <2>3. PICK a, b : a = Only(s, S) /\ b = Only(y, S)
    OBVIOUS
  <2>5. Only(Longer(s \o y, e), S) = IF e \in S THEN Longer(Only(s \o y, S), e) ELSE Only(s \o y, S)
    BY <2>1, OnlyOneMore
  <2>6. Only(Longer(y, e), S) = IF e \in S THEN Longer(b, e) ELSE b
    BY <2>3, OnlyOneMore
  <2>7. Only(s \o y, S) = a \o b
    BY <1>2, <2>3
  <2>8. Longer(a \o b, e) = a \o Longer(b, e)
    <3>1. a \in Seq(T) /\ b \in Seq(T)
      BY <2>3, <2>4
    <3>2. Longer(Joined(a, b), e) = Joined(a, Longer(b, e))
      BY <3>1, AppendBoth
    <3> QED
      BY <3>2 DEF Joined
  <2> QED
    BY <2>1, <2>2, <2>3, <2>5, <2>6, <2>7, <2>8
<1>3. \A y \in Seq(T) : y \in L
  <2> HIDE DEF L
  <2> QED BY <1>1, <1>2, ListInduction
<1> QED
  BY <1>3 DEF Joined

(* All of a sequence in S, and nothing of a sequence outside of it.        *)
LEMMA OnlyAll ==
  ASSUME NEW S, NEW s \in Seq(S)
  PROVE  Only(s, S) = s
<1> DEFINE L == {x \in Seq(S) : Only(x, S) = x}
<1>1. <<>> \in L
  BY OnlyNone
<1>2. ASSUME NEW x \in Seq(S), NEW e \in S, x \in L PROVE Longer(x, e) \in L
  <2>1. Only(Longer(x, e), S) = Longer(Only(x, S), e)
    BY OnlyOneMore
  <2>2. Longer(x, e) \in Seq(S)
    BY LongerType
  <2> QED
    BY <1>2, <2>1, <2>2
<1>3. \A x \in Seq(S) : x \in L
  <2> HIDE DEF L
  <2> QED BY <1>1, <1>2, ListInduction
<1> QED
  BY <1>3

LEMMA OnlyOutside ==
  ASSUME NEW T, NEW s \in Seq(T), NEW S, S \cap T = {}
  PROVE  Only(s, S) = <<>>
<1> DEFINE L == {x \in Seq(T) : Only(x, S) = <<>>}
<1>1. <<>> \in L
  BY OnlyNone
<1>2. ASSUME NEW x \in Seq(T), NEW e \in T, x \in L PROVE Longer(x, e) \in L
  <2>1. Only(Longer(x, e), S) = Only(x, S)
    BY OnlyOneMore
  <2>2. Longer(x, e) \in Seq(T)
    BY LongerType
  <2> QED
    BY <1>2, <2>1, <2>2
<1>3. \A x \in Seq(T) : x \in L
  <2> HIDE DEF L
  <2> QED BY <1>1, <1>2, ListInduction
<1> QED
  BY <1>3

LEMMA OnlyIs ==
  ASSUME NEW s, NEW S
  PROVE  P!Only(s, S) = Only(s, S) /\ V!Only(s, S) = Only(s, S)
BY DEF P!Only, V!Only, Only

(* The frames of records, taken together.                                  *)
LEMMA FramesType ==
  ASSUME NEW T, NEW U, \A e \in T : e.frame \in U, NEW s \in Seq(T)
  PROVE  /\ Frames(s) \in Seq(U) /\ Len(Frames(s)) = Len(s)
         /\ \A k \in 1 .. Len(s) : Frames(s)[k] = s[k].frame
<1>1. Len(s) \in Nat /\ DOMAIN s = 1 .. Len(s) /\ \A k \in DOMAIN s : s[k] \in T
  OBVIOUS
<1>2. Frames(s) = [k \in 1 .. Len(s) |-> s[k].frame]
  BY <1>1 DEF Frames
<1>3. \A k \in 1 .. Len(s) : s[k].frame \in U
  BY <1>1
<1> QED
  BY <1>1, <1>2, <1>3

LEMMA FramesBoth ==
  ASSUME NEW T, NEW U, \A e \in T : e.frame \in U, NEW s \in Seq(T), NEW x \in Seq(T)
  PROVE  Frames(Joined(s, x)) = Joined(Frames(s), Frames(x))
<1>1. PICK h : h = s \o x
  OBVIOUS
<1>2. PICK a, b : a = Frames(s) /\ b = Frames(x)
  OBVIOUS
<1>3. PICK c : c = Frames(h)
  OBVIOUS
<1>4. PICK d : d = a \o b
  OBVIOUS
<1>5. /\ h \in Seq(T) /\ Len(h) = Len(s) + Len(x) /\ Len(s) \in Nat /\ Len(x) \in Nat
      /\ \A k \in 1 .. Len(s) : h[k] = s[k]
      /\ \A k \in 1 .. Len(x) : h[Len(s) + k] = x[k]
  BY <1>1
<1>6. /\ a \in Seq(U) /\ Len(a) = Len(s) /\ \A k \in 1 .. Len(s) : a[k] = s[k].frame
      /\ b \in Seq(U) /\ Len(b) = Len(x) /\ \A k \in 1 .. Len(x) : b[k] = x[k].frame
  BY <1>2, FramesType
<1>7. c \in Seq(U) /\ Len(c) = Len(h) /\ \A k \in 1 .. Len(h) : c[k] = h[k].frame
  BY <1>3, <1>5, FramesType
<1>8. /\ d \in Seq(U) /\ Len(d) = Len(s) + Len(x)
      /\ \A k \in 1 .. Len(s) : d[k] = a[k]
      /\ \A k \in 1 .. Len(x) : d[Len(s) + k] = b[k]
  <2>1. a \in Seq(U) /\ b \in Seq(U)
    BY <1>6
  <2>2. /\ d \in Seq(U) /\ Len(d) = Len(a) + Len(b)
        /\ \A k \in 1 .. Len(a) : d[k] = a[k]
        /\ \A k \in 1 .. Len(b) : d[Len(a) + k] = b[k]
    BY <1>4, <2>1
  <2> QED
    BY <1>6, <2>2
<1>9. ASSUME NEW k \in 1 .. Len(c) PROVE c[k] = d[k]
  <2>1. CASE k \in 1 .. Len(s)
    BY <1>5, <1>6, <1>7, <1>8, <2>1, ZenonT(60)
  <2>2. CASE k \notin 1 .. Len(s)
    <3>1. PICK m \in 1 .. Len(x) : k = Len(s) + m
      <4>1. k - Len(s) \in 1 .. Len(x) /\ k = Len(s) + (k - Len(s))
        BY <1>5, <1>7, <2>2
      <4> QED
        BY <4>1
    <3>2. c[k] = x[m].frame
      BY <1>5, <1>7, <3>1
    <3> QED
      BY <1>6, <1>8, <3>1, <3>2
  <2> QED
    BY <2>1, <2>2
<1>10. c = d
  BY <1>5, <1>7, <1>8, <1>9, SameSequence
<1> QED
  BY <1>1, <1>2, <1>3, <1>4, <1>10 DEF Joined

LEMMA Listed ==
  ASSUME NEW T, NEW k \in Nat, NEW x, x = [j \in 1 .. k |-> x[j]], \A j \in 1 .. k : x[j] \in T
  PROVE  x \in Seq(T) /\ Len(x) = k
OBVIOUS

LEMMA Narrow ==
  ASSUME NEW T, NEW S, NEW s \in Seq(T), \A k \in 1 .. Len(s) : s[k] \in S
  PROVE  s \in Seq(S)
OBVIOUS

LEMMA JoinedBoth ==
  ASSUME NEW T, NEW s \in Seq(T), NEW x \in Seq(T), NEW y \in Seq(T)
  PROVE  Joined(Joined(s, x), y) = Joined(s, Joined(x, y))
BY DEF Joined

(* A part at the beginning, and the rest.                                  *)
LEMMA Parts ==
  ASSUME NEW T, NEW q \in Seq(T), NEW n \in 0 .. Len(q)
  PROVE  /\ SubSeq(q, 1, n) \in Seq(T) /\ Len(SubSeq(q, 1, n)) = n
         /\ \A k \in 1 .. n : SubSeq(q, 1, n)[k] = q[k]
         /\ SubSeq(q, n + 1, Len(q)) \in Seq(T)
         /\ Len(SubSeq(q, n + 1, Len(q))) = Len(q) - n
OBVIOUS

------------------------------------------------------------------------------
(* The polling of PEAK. *)
PeakMembers ==
  [teConnectedP : BOOLEAN, channel : {"none", "classic", "fd"}, btFdUsedP : BOOLEAN,
   btHasReceivedFrameP : BOOLEAN, clRcvFrameP : P!Object, teCanModeP : {"init", "start"}]
PeakInv == p \in PeakMembers /\ attached \in BOOLEAN /\ timers \in Nat /\ failed \in BOOLEAN /\ P!Polled

LEMMA PeakContent ==
  ASSUME NEW r, NEW old \in P!Object, p \in PeakMembers
  PROVE  P!Content(r, old) \in P!Object
BY DEF P!Content, P!Object, PeakMembers

LEMMA PeakDisconnect ==
  ASSUME NEW d \in PeakMembers
  PROVE  P!disconnect(d) \in PeakMembers
BY DEF P!disconnect, PeakMembers

(* The last read of a poll keeps the timer, unless the hardware has failed. *)
LEMMA PeakLastRead ==
  ASSUME PeakInv, timers > 0, NEW d \in PeakMembers, NEW r, NEW q,
         P!LastRead(d, r, q), attached' = attached, d.teConnectedP = p.teConnectedP
  PROVE  PeakInv'
<1>1. p' \in PeakMembers
  BY PeakDisconnect DEF P!LastRead
<1>2. timers' \in Nat /\ failed' \in BOOLEAN
  BY DEF P!LastRead, PeakInv
<1>3. P!Polled'
  BY DEF P!Polled, P!LastRead, PeakInv
<1> QED
  BY <1>1, <1>2, <1>3 DEF PeakInv

LEMMA PeakStep ==
  ASSUME PeakInv, P!Next
  PROVE  PeakInv'
<1>1. CASE P!onTimerEvent
  <2> DEFINE r == P!Result(queue)
  <2>1. ASSUME NEW stored \in P!Object, NEW rest, P!NetworkReads(stored, rest)
        PROVE  PeakInv'
    <3> DEFINE d == [p EXCEPT !.clRcvFrameP = stored]
    <3>1. d \in PeakMembers /\ d.teConnectedP = p.teConnectedP
      BY DEF PeakInv, PeakMembers
    <3>2. \E x, q : P!LastRead(d, x, q)
      BY <2>1 DEF P!NetworkReads
    <3> HIDE DEF d
    <3> QED
      BY <1>1, <3>1, <3>2, PeakLastRead DEF P!onTimerEvent
  <2>2. CASE P!IsNone(r) /\ attached /\ P!NetworkReads(P!Content(r, p.clRcvFrameP), Tail(queue))
    <3>1. P!Content(r, p.clRcvFrameP) \in P!Object
      <4> HIDE DEF r
      <4> QED BY PeakContent DEF PeakInv, PeakMembers
    <3> QED
      BY <2>1, <2>2, <3>1
  <2>3. CASE P!IsNone(r) /\ ~attached
             /\ p' = [p EXCEPT !.btHasReceivedFrameP = TRUE, !.clRcvFrameP = P!Content(r, @)]
             /\ timers' = timers - 1 /\ UNCHANGED <<queue, taken, delivered, glitch, failed>>
    <3>1. PICK content \in P!Object : content = P!Content(r, p.clRcvFrameP)
      <4> HIDE DEF r
      <4> QED BY PeakContent DEF PeakInv, PeakMembers
    <3>2. p' = [p EXCEPT !.btHasReceivedFrameP = TRUE, !.clRcvFrameP = content]
      BY <2>3, <3>1 DEF PeakInv, PeakMembers
    <3>3. p' \in PeakMembers
      BY <3>2 DEF PeakInv, PeakMembers
    <3> QED
      BY <1>1, <2>3, <3>3 DEF P!onTimerEvent, PeakInv, P!Polled
  <2>4. CASE ~P!IsNone(r) /\ P!LastRead(p, r, queue)
    <3> HIDE DEF r
    <3> QED BY <1>1, <2>4, PeakLastRead DEF P!onTimerEvent, PeakInv
  <2> QED
    BY <1>1, <2>2, <2>3, <2>4 DEF P!onTimerEvent
<1>2. CASE P!stopInterface
  <2> DEFINE d == [p EXCEPT !.teCanModeP = "init"]
  <2>1. d \in PeakMembers
    BY DEF PeakInv, PeakMembers
  <2>2. p' = IF p.teConnectedP THEN P!disconnect(d) ELSE d
    BY <1>2 DEF P!stopInterface
  <2> HIDE DEF d
  <2>3. p' \in PeakMembers
    BY <2>1, <2>2, PeakDisconnect
  <2> QED
    BY <1>2, <2>3 DEF P!stopInterface, PeakInv, P!Polled
<1>3. ASSUME NEW ok \in BOOLEAN, NEW fd \in BOOLEAN, NEW connects \in BOOLEAN,
             P!startInterface(connects, fd, ok)
      PROVE  PeakInv'
  <2>1. CASE connects /\ timers' = timers + 1 /\ failed' = FALSE
              /\ p' = P!setBitrate([p EXCEPT !.teConnectedP = TRUE], fd, ok)
    <3>1. p' \in PeakMembers
      BY <2>1 DEF P!setBitrate, P!Initialized, PeakInv, PeakMembers
    <3>2. timers' \in Nat /\ timers' > 0 /\ failed' \in BOOLEAN
      <4>1. timers \in Nat /\ timers' = timers + 1
        BY <2>1 DEF PeakInv
      <4>2. failed' \in BOOLEAN
        BY <2>1
      <4> QED
        BY <4>1, <4>2
    <3>3. attached' = TRUE
      BY <1>3 DEF P!startInterface
    <3> QED
      BY <3>1, <3>2, <3>3 DEF PeakInv, P!Polled
  <2>2. CASE p' = [p EXCEPT !.teConnectedP = FALSE, !.channel = "none"]
              /\ UNCHANGED <<timers, failed>>
    <3>1. p' \in PeakMembers /\ ~p'.teConnectedP
      BY <2>2 DEF PeakInv, PeakMembers
    <3> QED
      BY <1>3, <2>2, <3>1 DEF P!startInterface, PeakInv, P!Polled
  <2> QED
    BY <1>3, <2>1, <2>2 DEF P!startInterface
<1>4. ASSUME NEW ok \in BOOLEAN, NEW fd \in BOOLEAN, P!changeBitrate(fd, ok)
      PROVE  PeakInv'
  BY <1>4 DEF P!changeBitrate, P!setBitrate, P!Initialized, PeakInv, PeakMembers, P!Polled
<1>5. ASSUME NEW ok \in BOOLEAN, P!reset(ok)
      PROVE  PeakInv'
  BY <1>5 DEF P!reset, P!Initialized, PeakInv, PeakMembers, P!Polled
<1>6. ASSUME NEW r, P!Arrive(r)
      PROVE  PeakInv'
  BY <1>6 DEF P!Arrive, PeakInv, P!Polled
<1> QED
  BY <1>1, <1>2, <1>3, <1>4, <1>5, <1>6 DEF P!Next

(* What PEAK hands out.                                                    *)
Found == Received \cup P!Noise

(* How far the loop of onInterfaceNewData() reads.                         *)
LEMMA PeakRun ==
  ASSUME NEW q \in Seq(Found)
  PROVE  P!Run(q) \in 0 .. Len(q) /\ \A k \in 1 .. P!Run(q) : P!IsNone(q[k])
<1> DEFINE T == {k \in 1 .. Len(q) : ~P!IsNone(q[k])}
<1>1. Len(q) \in Nat /\ DOMAIN q = 1 .. Len(q) /\ T \subseteq Nat
  OBVIOUS
<1>2. CASE T = {}
  <2>1. P!Run(q) = Len(q)
    BY <1>1, <1>2 DEF P!Run
  <2> QED
    BY <1>1, <1>2, <2>1
<1>3. CASE T # {}
  <2>1. PICK k \in T : \A j \in T : k <= j
    <3> HIDE DEF T
    <3> QED BY <1>1, <1>3, LeastMember
  <2>2. k \in DOMAIN q /\ ~P!IsNone(q[k]) /\ \A j \in 1 .. k - 1 : P!IsNone(q[j])
    <3>1. ASSUME NEW j \in 1 .. k - 1, ~P!IsNone(q[j]) PROVE FALSE
      <4>1. j \in T /\ j < k
        BY <1>1, <2>1, <3>1
      <4> QED
        BY <1>1, <2>1, <4>1
    <3> QED
      BY <1>1, <2>1, <3>1
  <2>3. PICK m : m = CHOOSE n \in DOMAIN q : ~P!IsNone(q[n]) /\ \A j \in 1 .. n - 1 : P!IsNone(q[j])
    OBVIOUS
  <2>4. m \in DOMAIN q /\ ~P!IsNone(q[m]) /\ \A j \in 1 .. m - 1 : P!IsNone(q[j])
    BY <2>2, <2>3, Zenon
  <2>5. ~(\A n \in DOMAIN q : P!IsNone(q[n]))
    BY <2>2
  <2>6. P!Run(q) = m - 1
    BY <2>3, <2>5 DEF P!Run
  <2> QED
    BY <1>1, <2>4, <2>6
<1> QED
  BY <1>2, <1>3

(* What the network is handed out: an object for each result, with the     *)
(* frame of the result if it is one.                                       *)
LEMMA PeakHandedOut ==
  ASSUME p \in PeakMembers, NEW first \in P!Object, NEW q \in Seq(Found)
  PROVE  /\ P!HandedOut(first, q) \in Seq(P!Object) /\ Len(P!HandedOut(first, q)) = Len(q)
         /\ \A k \in 1 .. Len(q) : q[k] \in Received => P!HandedOut(first, q)[k].frame = q[k]
<1> DEFINE n == Len(q)
           H(g, k) == IF k = 0 THEN first ELSE P!Content(q[k], g[k - 1])
           out == CHOOSE g : g = [k \in 0 .. n |-> H(g, k)]
           step == [k \in 1 .. n |-> [d \in P!Object |-> P!Content(q[k], d)]]
<1>1. n \in Nat /\ DOMAIN q = 1 .. n
  OBVIOUS
<1>2. \A k \in 1 .. n, d \in P!Object : P!Content(q[k], d) \in P!Object
  BY PeakContent
<1>3. \A k \in 1 .. n, d \in P!Object : step[k][d] = P!Content(q[k], d)
  OBVIOUS
<1> HIDE DEF n, step
<1>4. PICK f : Repeats(f, n, P!Object, first, step)
  <2>1. \A k \in 1 .. n, d \in P!Object : step[k][d] \in P!Object
    BY <1>2, <1>3
  <2> QED
    BY <1>1, <2>1, Repeated
<1>5. f \in [0 .. n -> P!Object] /\ f[0] = first
      /\ \A k \in 1 .. n : f[k] = P!Content(q[k], f[k - 1])
  <2>1. f \in [0 .. n -> P!Object] /\ f[0] = first /\ \A k \in 1 .. n : f[k] = step[k][f[k - 1]]
    BY <1>4 DEF Repeats
  <2>2. \A k \in 1 .. n : f[k - 1] \in P!Object
    BY <1>1, <2>1
  <2> QED
    BY <1>3, <2>1, <2>2
<1>6. f = [k \in 0 .. n |-> H(f, k)]
  <2>1. ASSUME NEW k \in 0 .. n PROVE f[k] = H(f, k)
    <3>1. k # 0 => k \in 1 .. n
      BY <1>1
    <3> QED
      BY <1>5, <3>1
  <2> HIDE DEF H
  <2> QED BY <1>5, <2>1
<1>7. out = [k \in 0 .. n |-> H(out, k)]
  <2> HIDE DEF H
  <2> QED BY <1>6
<1>8. \A k \in 0 .. n : out[k] = H(out, k)
  <2> HIDE DEF out
  <2> QED BY <1>7
<1>9. P!HandedOut(first, q) = [k \in DOMAIN q |-> out[k]]
  BY DEF P!HandedOut, n
<1> HIDE DEF out
<1> DEFINE E == {k \in Nat : k <= n => out[k] \in P!Object}
<1>10. 0 \in E
  BY <1>1, <1>8
<1>11. ASSUME NEW k \in E PROVE k + 1 \in E
  <2> SUFFICES ASSUME k + 1 <= n PROVE out[k + 1] \in P!Object
    OBVIOUS
  <2>1. out[k] \in P!Object /\ (k + 1) - 1 = k
    BY <1>1
  <2>2. out[k + 1] = P!Content(q[k + 1], out[k])
    BY <1>1, <1>8, <2>1
  <2> QED
    BY <1>1, <1>2, <2>1, <2>2
<1>12. E = Nat
  <2>1. E \subseteq Nat
    OBVIOUS
  <2> HIDE DEF E
  <2> QED BY <1>10, <1>11, <2>1, Induction
<1>13. ASSUME NEW k \in 1 .. n
       PROVE  out[k] \in P!Object /\ (q[k] \in Received => out[k].frame = q[k])
  <2>1. k \in E /\ k <= n
    BY <1>1, <1>12
  <2>2. out[k] = P!Content(q[k], out[k - 1])
    BY <1>1, <1>8
  <2> QED
    BY <2>1, <2>2 DEF P!Content
<1>14. P!HandedOut(first, q) = [k \in 1 .. n |-> out[k]]
  BY <1>1, <1>9
<1> QED
  BY <1>1, <1>13, <1>14 DEF n

PeakData ==
  /\ queue \in Seq(Found) /\ taken \in Seq(Received) /\ delivered \in Seq(P!Object)
  /\ glitch \in BOOLEAN /\ restarts \in 0 .. MaxRestart
  /\ glitch \/ Frames(delivered) = taken

(* A result that is answered with eERROR_NONE is the head of the queue.    *)
LEMMA PeakResult ==
  ASSUME PeakData, P!IsNone(P!Result(queue))
  PROVE  queue # <<>> /\ P!Result(queue) = Head(queue) /\ Tail(queue) \in Seq(Found)
         /\ Head(queue) \in Received \cup {"buserror"}
<1>1. P!Result(queue) # "failure" /\ P!Result(queue) # "empty"
      /\ P!Result(queue) \in Received \cup {"buserror"}
  BY ResultsAssumption DEF P!IsNone
<1>2. queue # <<>> /\ P!Result(queue) = Head(queue)
  BY <1>1 DEF P!Result
<1> QED
  BY <1>1, <1>2 DEF PeakData

LEMMA PeakQueue ==
  ASSUME NEW d, NEW r, NEW q \in Seq(Found), P!LastRead(d, r, q)
  PROVE  queue' \in Seq(Found)
<1>1. <<>> \in Seq(Found)
  OBVIOUS
<1>2. q # <<>> => Tail(q) \in Seq(Found)
  OBVIOUS
<1> QED
  BY <1>1, <1>2 DEF P!LastRead

LEMMA PeakReadsOn ==
  ASSUME PeakInv, PeakData, restarts' = restarts, P!IsNone(P!Result(queue)),
         P!NetworkReads(P!Content(P!Result(queue), p.clRcvFrameP), Tail(queue))
  PROVE  PeakData'
<1> DEFINE first == Head(queue)
           rest == Tail(queue)
           n == P!Run(rest)
<1>1. /\ P!Result(queue) = first /\ rest \in Seq(Found) /\ first \in Found
  BY PeakResult DEF Found, P!Noise
<1>2. PICK stored \in P!Object : /\ stored = P!Content(first, p.clRcvFrameP)
                                 /\ first \in Received => stored.frame = first
  <2>1. P!Content(first, p.clRcvFrameP) \in P!Object
    BY PeakContent DEF PeakInv, PeakMembers
  <2>2. first \in Received => P!Content(first, p.clRcvFrameP).frame = first
    BY DEF P!Content
  <2> QED
    BY <2>1, <2>2
<1> HIDE DEF first, rest
<1>3. n \in 0 .. Len(rest)
  BY <1>1, PeakRun
<1> HIDE DEF n
<1>4. PICK q : q = SubSeq(rest, 1, n)
  OBVIOUS
<1>5. PICK left : left = SubSeq(rest, n + 1, Len(rest))
  OBVIOUS
<1>6. q \in Seq(Found) /\ left \in Seq(Found)
  BY <1>1, <1>3, <1>4, <1>5, Parts
<1>7. /\ delivered' = delivered \o <<stored>> \o P!HandedOut(stored, q)
      /\ taken' = taken \o P!Only(<<first>> \o q, Received)
      /\ glitch' = (glitch \/ "buserror" \in P!Elements(<<first>> \o q))
      /\ P!LastRead([p EXCEPT !.clRcvFrameP = stored], P!Result(left), left)
  <2>1. P!NetworkReads(stored, rest)
    BY <1>1, <1>2 DEF rest
  <2> QED
    BY <1>4, <1>5, <2>1 DEF P!NetworkReads, P!FramesOf, n, first
<1>8. queue' \in Seq(Found)
  BY <1>6, <1>7, PeakQueue
<1>9. PICK h : h = P!HandedOut(stored, q)
  OBVIOUS
<1>10. /\ h \in Seq(P!Object) /\ Len(h) = Len(q)
       /\ \A k \in 1 .. Len(q) : q[k] \in Received => h[k].frame = q[k]
  BY <1>6, <1>9, PeakHandedOut DEF PeakInv
<1>11. PICK a : a = <<stored>>
  OBVIOUS
<1>12. a \in Seq(P!Object) /\ Len(a) = 1 /\ a[1] = stored
  BY <1>11
<1>13. PICK b : b = <<first>>
  OBVIOUS
<1>14. b \in Seq(Found) /\ Len(b) = 1 /\ b[1] = first
  BY <1>1, <1>13
<1>15. delivered' \in Seq(P!Object)
  <2>1. delivered \in Seq(P!Object)
    BY DEF PeakData
  <2>2. delivered \o a \in Seq(P!Object)
    BY <1>12, <2>1
  <2>3. (delivered \o a) \o h \in Seq(P!Object)
    BY <1>10, <2>2
  <2> QED
    BY <1>7, <1>9, <1>11, <2>3
<1>16. PICK got : got = b \o q
  OBVIOUS
<1>17. got \in Seq(Found)
  BY <1>6, <1>14, <1>16
<1>18. taken' = taken \o Only(got, Received)
  <2>1. P!Only(got, Received) = Only(got, Received)
    BY OnlyIs
  <2> QED
    BY <1>7, <1>13, <1>16, <2>1
<1>19. taken' \in Seq(Received)
  <2>1. PICK more : more = Only(got, Received)
    OBVIOUS
  <2>2. more \in Seq(Received)
    BY <1>17, <2>1, OnlyType
  <2>3. taken \in Seq(Received)
    BY DEF PeakData
  <2> QED
    BY <1>18, <2>1, <2>2, <2>3
<1>20. glitch' \in BOOLEAN
  <2>1. (glitch \/ "buserror" \in P!Elements(<<first>> \o q)) \in BOOLEAN
    OBVIOUS
  <2> QED
    BY <1>7, <2>1, Zenon
<1>21. ASSUME ~glitch' PROVE Frames(delivered') = taken'
  <2>1. ~glitch /\ "buserror" \notin P!Elements(got)
    BY <1>7, <1>13, <1>16, <1>21
  <2>2. ASSUME NEW k \in 1 .. Len(got) PROVE got[k] # "buserror"
    BY <1>17, <2>1 DEF P!Elements
  <2>3. /\ Len(got) = Len(q) + 1 /\ got[1] = first /\ Len(q) \in Nat
        /\ \A k \in 1 .. Len(q) : got[k + 1] = q[k]
    <3>1. /\ Len(got) = Len(b) + Len(q) /\ Len(q) \in Nat
          /\ \A k \in 1 .. Len(b) : got[k] = b[k]
          /\ \A k \in 1 .. Len(q) : got[Len(b) + k] = q[k]
      <4>1. b \in Seq(Found) /\ q \in Seq(Found)
        BY <1>6, <1>14
      <4> QED
        BY <1>16, <4>1
    <3>2. \A k \in 1 .. Len(q) : k + 1 = Len(b) + k
      BY <1>14
    <3> QED
      BY <1>14, <3>1, <3>2
  <2>4. first \in Received
    <3>1. first # "buserror"
      BY <2>2, <2>3
    <3> QED
      BY <3>1, PeakResult DEF first
  <2>5. ASSUME NEW k \in 1 .. Len(q) PROVE q[k] \in Received
    <3>1. q[k] # "buserror"
      <4>1. k + 1 \in 1 .. Len(got) /\ got[k + 1] = q[k]
        BY <2>3
      <4> QED
        BY <2>2, <4>1
    <3>2. P!IsNone(q[k])
      <4>1. k \in 1 .. n /\ q[k] = rest[k]
        BY <1>1, <1>3, <1>4, Parts
      <4> QED
        BY <1>1, <4>1, PeakRun DEF n
    <3> QED
      BY <3>1, <3>2 DEF P!IsNone
  <2>6. q \in Seq(Received) /\ b \in Seq(Received)
    <3>1. \A k \in 1 .. Len(b) : b[k] \in Received
      BY <1>14, <2>4
    <3> QED
      BY <1>6, <1>14, <2>5, <3>1, Narrow
  <2>7. got \in Seq(Received)
    BY <1>16, <2>6
  <2>8. Only(got, Received) = got
    BY <2>7, OnlyAll
  <2>9. Frames(a) = b
    <3>1. PICK c : c = Frames(a)
      OBVIOUS
    <3>0. PICK U : U = Received \cup {None}
      OBVIOUS
    <3>2. \A e \in P!Object : e.frame \in U
      BY <3>0 DEF P!Object
    <3>3. /\ c \in Seq(U) /\ Len(c) = 1 /\ c[1] = stored.frame
      BY <1>12, <3>1, <3>2, FramesType
    <3>4. b \in Seq(U)
      <4>1. \A k \in 1 .. Len(b) : b[k] \in U
        BY <1>14, <2>4, <3>0
      <4> QED
        BY <1>14, <4>1, Narrow
    <3>5. Len(c) = Len(b) /\ \A k \in 1 .. Len(c) : c[k] = b[k]
      BY <1>2, <1>14, <2>4, <3>3
    <3> QED
      BY <3>1, <3>3, <3>4, <3>5, SameSequence
  <2>10. Frames(h) = q
    <3>1. PICK c : c = Frames(h)
      OBVIOUS
    <3>2. PICK U : U = Received \cup {None}
      OBVIOUS
    <3>3. \A e \in P!Object : e.frame \in U
      BY <3>2 DEF P!Object
    <3>4. /\ c \in Seq(U) /\ Len(c) = Len(h) /\ \A k \in 1 .. Len(h) : c[k] = h[k].frame
      BY <1>10, <3>1, <3>3, FramesType
    <3>5. q \in Seq(U)
      <4>1. \A k \in 1 .. Len(q) : q[k] \in U
        BY <2>5, <3>2
      <4> QED
        BY <1>6, <4>1, Narrow
    <3>6. Len(c) = Len(q) /\ \A k \in 1 .. Len(c) : c[k] = q[k]
      BY <1>10, <2>5, <3>4
    <3> QED
      BY <3>1, <3>4, <3>5, <3>6, SameSequence
  <2>11. Frames((delivered \o a) \o h) = (Frames(delivered) \o b) \o q
    <3>1. PICK U : U = Received \cup {None}
      OBVIOUS
    <3>2. \A e \in P!Object : e.frame \in U
      BY <3>1 DEF P!Object
    <3>3. delivered \in Seq(P!Object)
      BY DEF PeakData
    <3>4. PICK da : da = delivered \o a
      OBVIOUS
    <3>5. da \in Seq(P!Object)
      BY <1>12, <3>3, <3>4
    <3>6. Frames(Joined(da, h)) = Joined(Frames(da), Frames(h))
      BY <1>10, <3>2, <3>5, FramesBoth
    <3>7. Frames(Joined(delivered, a)) = Joined(Frames(delivered), Frames(a))
      BY <1>12, <3>2, <3>3, FramesBoth
    <3> QED
      BY <2>9, <2>10, <3>4, <3>6, <3>7 DEF Joined
  <2>12. Frames(delivered) = taken
    BY <2>1 DEF PeakData
  <2>13. (taken \o b) \o q = taken \o (b \o q)
    <3>1. taken \in Seq(Received)
      BY DEF PeakData
    <3> QED
      BY <2>6, <3>1, JoinedBoth DEF Joined
  <2> QED
    BY <1>7, <1>9, <1>11, <1>16, <1>18, <2>8, <2>11, <2>12, <2>13
<1> QED
  BY <1>8, <1>15, <1>19, <1>20, <1>21 DEF PeakData

LEMMA PeakDataStarts ==
  ASSUME P!Init
  PROVE  PeakData
<1>1. Frames(<<>>) = <<>>
  BY DEF Frames
<1>2. restarts \in 0 .. MaxRestart
  BY InterfaceAssumption DEF P!Init
<1>3. queue \in Seq(Found) /\ taken \in Seq(Received) /\ delivered \in Seq(P!Object)
  <2>1. <<>> \in Seq(Found) /\ <<>> \in Seq(Received) /\ <<>> \in Seq(P!Object)
    OBVIOUS
  <2> QED
    BY <2>1 DEF P!Init
<1> QED
  BY <1>1, <1>2, <1>3 DEF P!Init, PeakData

LEMMA PeakDataStep ==
  ASSUME PeakInv, PeakData, P!Next
  PROVE  PeakData'
<1>1. queue \in Seq(Found) /\ <<>> \in Seq(Found)
  BY DEF PeakData
<1>2. P!Restart => restarts' \in 0 .. MaxRestart
  BY InterfaceAssumption DEF P!Restart, PeakData
<1>3. CASE P!onTimerEvent
  <2> DEFINE r == P!Result(queue)
  <2>1. restarts' = restarts
    BY <1>3 DEF P!onTimerEvent
  <2>2. CASE P!IsNone(r) /\ attached /\ P!NetworkReads(P!Content(r, p.clRcvFrameP), Tail(queue))
    BY <2>1, <2>2, PeakReadsOn
  <2>3. CASE UNCHANGED <<queue, taken, delivered, glitch, failed>>
    BY <2>1, <2>3 DEF PeakData
  <2>4. CASE P!LastRead(p, r, queue) /\ UNCHANGED <<taken, delivered, glitch>>
    <3>1. queue' \in Seq(Found)
      BY <1>1, <2>4, PeakQueue
    <3> QED
      BY <2>1, <2>4, <3>1 DEF PeakData
  <2> QED
    BY <1>3, <2>2, <2>3, <2>4 DEF P!onTimerEvent
<1>4. CASE P!stopInterface
  BY <1>1, <1>2, <1>4 DEF P!stopInterface, PeakData
<1>5. ASSUME NEW ok \in BOOLEAN, NEW fd \in BOOLEAN, NEW connects \in BOOLEAN,
             P!startInterface(connects, fd, ok)
      PROVE  PeakData'
  BY <1>1, <1>2, <1>5 DEF P!startInterface, PeakData
<1>6. ASSUME NEW ok \in BOOLEAN, NEW fd \in BOOLEAN, P!changeBitrate(fd, ok)
      PROVE  PeakData'
  BY <1>1, <1>2, <1>6 DEF P!changeBitrate, PeakData
<1>7. ASSUME NEW ok \in BOOLEAN, P!reset(ok)
      PROVE  PeakData'
  BY <1>1, <1>2, <1>7 DEF P!reset, PeakData
<1>8. ASSUME NEW r \in Found, P!Arrive(r)
      PROVE  PeakData'
  <2>1. Append(queue, r) \in Seq(Found)
    BY <1>1
  <2> QED
    BY <1>8, <2>1 DEF P!Arrive, PeakData
<1> QED
  BY <1>3, <1>4, <1>5, <1>6, <1>7, <1>8 DEF P!Next, Found

LEMMA PeakTypes ==
  ASSUME PeakInv, PeakData
  PROVE  P!TypeOK /\ P!ReadExactly
<1>1. P!TypeOK
  BY DEF PeakInv, PeakData, PeakMembers, P!TypeOK, Found
<1>2. P!ReadExactly
  BY DEF PeakData, P!ReadExactly, Frames
<1> QED
  BY <1>1, <1>2

------------------------------------------------------------------------------
(* The line and the polling of VCI 4.                                      *)
VciMembers ==
  [teConnectedP : BOOLEAN, ptsRcvFifoP : Nat, ptsCanControlP : BOOLEAN,
   teCanModeP : {"stop", "start"}, ulDeviceEventP : BOOLEAN]

(* An interface of no network is not connected.                            *)
VciInv ==
  /\ v \in VciMembers /\ line \in BOOLEAN /\ attached \in BOOLEAN /\ timers \in Nat
  /\ ~attached => ~v.teConnectedP
  /\ fifo \in Seq(Seq(V!Messages)) /\ v.ptsRcvFifoP \in 0 .. Len(fifo)
  /\ V!LineIsUsed /\ V!Polled

(* The state d of the interface and the state run of the line after        *)
(* setMode(): the line runs only for an interface that controls it and has *)
(* the mode "start", and the rest is as it was.                            *)
VciMode(d, e, run) ==
  /\ e \in VciMembers /\ run \in BOOLEAN
  /\ e.teConnectedP = d.teConnectedP /\ e.ptsCanControlP = d.ptsCanControlP
  /\ e.ptsRcvFifoP = d.ptsRcvFifoP
  /\ run => e.ptsCanControlP /\ e.teCanModeP = "start"

LEMMA VciModeSet ==
  ASSUME NEW d \in VciMembers, NEW run \in BOOLEAN, NEW mode \in {"stop", "start"},
         run => d.ptsCanControlP
  PROVE  VciMode(d, V!setMode(d, run, mode).s, V!setMode(d, run, mode).run)
BY DEF VciMode, VciMembers, V!setMode

LEMMA VciStopped ==
  ASSUME NEW d \in VciMembers, NEW run \in BOOLEAN, run => d.ptsCanControlP
  PROVE  /\ V!Stopped(d, run).s \in VciMembers /\ V!Stopped(d, run).run = FALSE
         /\ ~V!Stopped(d, run).s.teConnectedP
         /\ V!Stopped(d, run).s.ptsRcvFifoP = d.ptsRcvFifoP
BY DEF V!Stopped, V!setMode, V!disconnect, VciMembers

LEMMA VciFailed ==
  ASSUME VciInv, NEW failure \in BOOLEAN, V!Failed(failure), timers' \in Nat,
         attached' /\ V!reader # 0 => timers' = timers, fifo' \in Seq(Seq(V!Messages)), Len(fifo') = Len(fifo)
  PROVE  VciInv'
<1>1. CASE failure /\ attached
  <2>1. line => v.ptsCanControlP
    BY DEF VciInv, V!LineIsUsed
  <2>2. v' \in VciMembers /\ line' = FALSE /\ ~v'.teConnectedP /\ v'.ptsRcvFifoP = v.ptsRcvFifoP
    BY <1>1, <2>1, VciStopped DEF V!Failed, VciInv
  <2>3. attached' = FALSE
    BY <1>1 DEF V!Failed
  <2> QED
    BY <2>2, <2>3 DEF VciInv, V!LineIsUsed, V!Polled, V!Working
<1>2. CASE ~(failure /\ attached)
  BY <1>2 DEF V!Failed, VciInv, V!LineIsUsed, V!Polled, V!Working, V!reader
<1> QED
  BY <1>1, <1>2

(* There is a first "info" message, or an end, of what waits in a reader.  *)
LEMMA VciReads ==
  ASSUME NEW q \in Seq(V!Messages)
  PROVE  /\ V!Reads(q) \in 0 .. Len(q) /\ V!Rest(q) \in Seq(V!Messages)
         /\ \A j \in 1 .. V!Reads(q) : q[j] # "info"
         /\ V!Reads(q) < Len(q) => q[V!Reads(q) + 1] = "info"
<1> DEFINE T == {k \in 0 .. Len(q) : k < Len(q) => q[k + 1] = "info"}
<1>1. T \subseteq Nat /\ Len(q) \in T /\ Len(q) \in Nat
  OBVIOUS
<1>2. PICK k \in T : \A j \in T : k <= j
  <2> HIDE DEF T
  <2> QED BY <1>1, LeastMember
<1>3. /\ k \in 0 .. Len(q) /\ \A j \in 1 .. k : q[j] # "info"
      /\ k < Len(q) => q[k + 1] = "info"
  <2>1. ASSUME NEW j \in 1 .. k, q[j] = "info" PROVE FALSE
    <3>1. j - 1 \in 0 .. Len(q) /\ q[(j - 1) + 1] = "info"
      BY <1>1, <1>2, <2>1
    <3>2. j - 1 \in T
      BY <3>1
    <3>3. k <= j - 1
      BY <1>2, <3>2
    <3> QED
      BY <1>1, <3>3
  <2> QED
    BY <2>1
<1>4. /\ V!Reads(q) \in 0 .. Len(q) /\ \A j \in 1 .. V!Reads(q) : q[j] # "info"
      /\ V!Reads(q) < Len(q) => q[V!Reads(q) + 1] = "info"
  BY <1>3, Zenon DEF V!Reads
<1>5. \A m \in Nat \ {0} : SubSeq(q, m, Len(q)) \in Seq(V!Messages)
  OBVIOUS
<1> QED
  BY <1>4, <1>5 DEF V!Rest

LEMMA VciStep ==
  ASSUME VciInv, V!Next
  PROVE  VciInv'
<1>1. line => attached /\ v.ptsCanControlP /\ v.teCanModeP = "start"
  BY DEF VciInv, V!LineIsUsed
<1>2. /\ v \in VciMembers /\ line \in BOOLEAN /\ attached \in BOOLEAN /\ timers \in Nat
      /\ fifo \in Seq(Seq(V!Messages)) /\ v.ptsRcvFifoP \in 0 .. Len(fifo)
  BY DEF VciInv
<1>3. ASSUME NEW outcome, V!startInterface(outcome)
      PROVE  VciInv'
  <2> DEFINE d == V!Connected(outcome)
             started == outcome # "nodevice" /\ d.ptsCanControlP
  <2>1. outcome \in {"nodevice", "nochannel", "noreader", "nowriter", "ok"}
    BY <1>3 DEF V!startInterface
  <2>2. ~v.teConnectedP /\ attached' = TRUE /\ line = FALSE
    BY <1>1, <1>2, <1>3 DEF V!startInterface, VciInv
  <2>3. /\ d \in VciMembers
        /\ d.ptsRcvFifoP = IF outcome \in {"nowriter", "ok"} THEN Len(fifo) + 1 ELSE v.ptsRcvFifoP
        /\ d.teConnectedP => outcome \in {"nochannel", "ok"}
    <3>1. Len(fifo) + 1 \in Nat
      BY <1>2
    <3>2. CASE outcome = "nodevice"
      BY <1>2, <2>2, <3>2 DEF V!Connected, VciMembers
    <3>3. CASE outcome = "nochannel"
      BY <1>2, <2>2, <3>3 DEF V!Connected, VciMembers
    <3>4. CASE outcome = "noreader"
      BY <1>2, <2>2, <3>4 DEF V!Connected, VciMembers
    <3>5. CASE outcome = "nowriter"
      BY <1>2, <2>2, <3>1, <3>5 DEF V!Connected, VciMembers
    <3>6. CASE outcome = "ok"
      BY <1>2, <2>2, <3>1, <3>6 DEF V!Connected, VciMembers
    <3> QED
      BY <2>1, <3>2, <3>3, <3>4, <3>5, <3>6
  <2>4. fifo' \in Seq(Seq(V!Messages))
        /\ Len(fifo') = IF outcome \in {"nowriter", "ok"} THEN Len(fifo) + 1 ELSE Len(fifo)
    <3>1. <<>> \in Seq(V!Messages)
      OBVIOUS
    <3> QED
      BY <1>2, <1>3, <3>1 DEF V!startInterface
  <2>5. VciMode(d, V!setMode(d, line, "start").s, V!setMode(d, line, "start").run)
    <3> HIDE DEF d
    <3> QED BY <2>2, <2>3, VciModeSet
  <2>6. /\ v' = IF started THEN V!setMode(d, line, "start").s ELSE d
        /\ line' = IF started THEN V!setMode(d, line, "start").run ELSE line
        /\ timers' = IF outcome \in {"nochannel", "ok"} THEN timers + 1 ELSE timers
    BY <1>3 DEF V!startInterface
  <2> HIDE DEF d, started
  <2>7. /\ v' \in VciMembers /\ v'.teConnectedP = d.teConnectedP
        /\ v'.ptsRcvFifoP = d.ptsRcvFifoP /\ line' \in BOOLEAN
        /\ line' => v'.ptsCanControlP /\ v'.teCanModeP = "start"
    <3>1. CASE started
      BY <2>5, <2>6, <3>1 DEF VciMode
    <3>2. CASE ~started
      BY <2>2, <2>3, <2>6, <3>2
    <3> QED
      BY <3>1, <3>2
  <2>8. timers' \in Nat /\ (v'.teConnectedP => timers' > 0)
    BY <1>2, <2>3, <2>6, <2>7
  <2>9. v'.ptsRcvFifoP \in 0 .. Len(fifo')
    BY <1>2, <2>3, <2>4, <2>7
  <2> QED
    BY <2>2, <2>4, <2>7, <2>8, <2>9 DEF VciInv, V!LineIsUsed, V!Polled, V!Working
<1>4. CASE V!stopInterface
  <2>1. v' \in VciMembers /\ line' = FALSE /\ ~v'.teConnectedP /\ v'.ptsRcvFifoP = v.ptsRcvFifoP
    BY <1>1, <1>2, <1>4, VciStopped DEF V!stopInterface
  <2>2. attached' = FALSE /\ timers' = timers /\ fifo' = fifo
    BY <1>4 DEF V!stopInterface
  <2> QED
    BY <1>2, <2>1, <2>2 DEF VciInv, V!LineIsUsed, V!Polled, V!Working
<1>5. ASSUME attached, attached' = attached, timers' = timers, fifo' = fifo, VciMode(v, v', line')
      PROVE  VciInv'
  BY <1>2, <1>5 DEF VciInv, VciMode, V!LineIsUsed, V!Polled, V!Working, V!reader
<1>6. CASE V!reset
  <2>1. PICK run \in BOOLEAN : run = (line /\ ~v.ptsCanControlP)
    <3>1. (line /\ ~v.ptsCanControlP) \in BOOLEAN
      OBVIOUS
    <3> QED
      BY <3>1, Zenon
  <2>2. ~run /\ v.teCanModeP \in {"stop", "start"}
    BY <1>1, <1>2, <2>1 DEF VciMembers
  <2>3. VciMode(v, V!setMode(v, run, v.teCanModeP).s, V!setMode(v, run, v.teCanModeP).run)
    BY <1>2, <2>2, VciModeSet
  <2>4. line' = V!setMode(v, run, v.teCanModeP).run
    BY <1>6, <2>1 DEF V!reset
  <2>5. v' = V!setMode(v, run, v.teCanModeP).s
    BY <1>6 DEF V!reset, V!setMode
  <2>6. attached /\ attached' = attached /\ timers' = timers /\ fifo' = fifo
    BY <1>6 DEF V!reset, V!network
  <2> QED
    BY <1>5, <2>3, <2>4, <2>5, <2>6
<1>7. CASE V!setBitrate
  <2>1. PICK d, run : d = V!setMode(v, line, "stop").s /\ run = V!setMode(v, line, "stop").run
    OBVIOUS
  <2>2. VciMode(v, d, run)
    BY <1>1, <1>2, <2>1, VciModeSet
  <2>3. v' = V!setMode(d, run, "start").s /\ line' = V!setMode(d, run, "start").run
    BY <1>7, <2>1 DEF V!setBitrate
  <2>4. VciMode(d, v', line')
    BY <2>2, <2>3, VciModeSet DEF VciMode
  <2>5. attached /\ attached' = attached /\ timers' = timers /\ fifo' = fifo
    BY <1>7 DEF V!setBitrate, V!network
  <2> QED
    BY <1>5, <2>2, <2>4, <2>5 DEF VciMode
<1>8. ASSUME NEW filled \in BOOLEAN, V!onTimerEvent(filled)
      PROVE  VciInv'
  <2> DEFINE q == fifo[V!reader]
             asks == V!reader # 0 /\ IF plugged THEN q # <<>> ELSE filled
             reading == asks /\ attached /\ plugged
  <2>1. /\ timers > 0
        /\ timers' = IF V!reader = 0 \/ (asks /\ ~attached) THEN timers - 1 ELSE timers
        /\ fifo' = IF reading THEN [fifo EXCEPT ![V!reader] = V!Rest(q)] ELSE fifo
        /\ V!Failed(event \/ (asks /\ attached /\ ~plugged))
    BY <1>8 DEF V!onTimerEvent
  <2>2. fifo' \in Seq(Seq(V!Messages)) /\ Len(fifo') = Len(fifo)
    <3>1. CASE reading
      <4>1. V!reader \in 1 .. Len(fifo)
        BY <1>2, <3>1 DEF V!reader
      <4>2. V!Rest(q) \in Seq(V!Messages)
        BY <1>2, <4>1, VciReads
      <4>3. fifo' = [fifo EXCEPT ![V!reader] = V!Rest(q)]
        BY <2>1, <3>1
      <4> HIDE DEF q
      <4> QED
        BY <1>2, <4>1, <4>2, <4>3
    <3>2. CASE ~reading
      BY <1>2, <2>1, <3>2
    <3> QED
      BY <3>1, <3>2
  <2>3. PICK failure \in BOOLEAN : failure = (event \/ (asks /\ attached /\ ~plugged))
    <3> HIDE DEF asks
    <3>1. (event \/ (asks /\ attached /\ ~plugged)) \in BOOLEAN
      OBVIOUS
    <3> QED
      BY <3>1, Zenon
  <2>4. V!Failed(failure)
    BY <2>1, <2>3
  <2>5. attached' => attached
    BY <2>4 DEF V!Failed
  <2>6. timers' \in Nat
    BY <1>2, <2>1
  <2>7. attached' /\ V!reader # 0 => timers' = timers
    BY <2>1, <2>5
  <2> HIDE DEF q, asks, reading
  <2> QED
    BY <2>2, <2>4, <2>6, <2>7, VciFailed
<1>9. ASSUME NEW r \in V!Messages, V!Arrive(r)
      PROVE  VciInv'
  <2>1. fifo' \in Seq(Seq(V!Messages)) /\ Len(fifo') = Len(fifo)
    <3>1. V!reader \in 1 .. Len(fifo)
      BY <1>2, <1>9 DEF V!Arrive, V!reader
    <3>2. Append(fifo[V!reader], r) \in Seq(V!Messages)
      BY <1>2, <3>1
    <3>3. fifo' = [fifo EXCEPT ![V!reader] = Append(fifo[V!reader], r)]
      BY <1>9 DEF V!Arrive
    <3> QED
      BY <1>2, <3>1, <3>2, <3>3
  <2> QED
    BY <1>2, <1>9, <2>1 DEF VciInv, V!Arrive, V!network, V!LineIsUsed, V!Polled, V!Working, V!reader
<1>10. ASSUME NEW mine \in BOOLEAN, V!DevicesChange(mine)
       PROVE  VciInv'
  <2>1. line' \in BOOLEAN /\ (line' => line)
    BY <1>10 DEF V!DevicesChange
  <2> QED
    BY <1>2, <1>10, <2>1
       DEF VciInv, V!DevicesChange, V!network, V!LineIsUsed, V!Polled, V!Working, V!reader
<1> QED
  BY <1>3, <1>4, <1>6, <1>7, <1>8, <1>9, <1>10 DEF V!Next

(* What VCI 4 hands out, reader by reader.                                 *)
Noted(m) == [frame : Received, reader : 1 .. m]
Exact(d, q, t, n) ==
  Frames(Only(d, V!OfReader(n))) \o Only(q, Received) = Frames(Only(t, V!OfReader(n)))

LEMMA OfReaderIs ==
  ASSUME NEW m, NEW e \in Noted(m), NEW n
  PROVE  (e \in V!OfReader(n) <=> e.reader = n) /\ e.frame \in Received
BY DEF Noted, V!OfReader, V!Messages

(* One frame more.                                                         *)
LEMMA FramesLonger ==
  ASSUME NEW T, NEW U, \A e \in T : e.frame \in U, NEW s \in Seq(T), NEW x \in T
  PROVE  Frames(Longer(s, x)) = Longer(Frames(s), x.frame)
<1>0. PICK f : f = x.frame
  OBVIOUS
<1>1. PICK h, a, c, d : h = Longer(s, x) /\ a = Frames(s) /\ c = Frames(h) /\ d = Longer(a, f)
  OBVIOUS
<1>2. /\ Longer(s, x) \in Seq(T) /\ Len(Longer(s, x)) = Len(s) + 1
      /\ Longer(s, x)[Len(s) + 1] = x /\ \A k \in 1 .. Len(s) : Longer(s, x)[k] = s[k]
  BY LongerType
<1>3. a \in Seq(U) /\ Len(a) = Len(s) /\ \A k \in 1 .. Len(s) : a[k] = s[k].frame
  BY <1>1, FramesType
<1>4. f \in U
  BY <1>0
<1>5. /\ d \in Seq(U) /\ Len(d) = Len(a) + 1
      /\ d[Len(a) + 1] = f /\ \A k \in 1 .. Len(a) : d[k] = a[k]
  <2>2. a \in Seq(U) /\ f \in U
    BY <1>3, <1>4
  <2>3. d = Longer(a, f)
    BY <1>1
  <2>4. Longer(a, f) \in Seq(U) /\ Len(Longer(a, f)) = Len(a) + 1
    BY <2>2, LongerType
  <2>5. Longer(a, f)[Len(a) + 1] = f
    BY <2>2, LongerType
  <2>6. \A k \in 1 .. Len(a) : Longer(a, f)[k] = a[k]
    BY <2>2, LongerType
  <2> QED
    BY <2>3, <2>4, <2>5, <2>6
<1>6. h \in Seq(T)
  BY <1>1, <1>2
<1>7. c \in Seq(U) /\ Len(c) = Len(h) /\ \A k \in 1 .. Len(h) : c[k] = h[k].frame
  BY <1>1, <1>6, FramesType
<1>8. /\ Len(c) = Len(d) /\ Len(s) \in Nat
      /\ \A k \in 1 .. Len(c) : k = Len(s) + 1 \/ k \in 1 .. Len(s)
  BY <1>1, <1>2, <1>3, <1>5, <1>7
<1>9. ASSUME NEW k \in 1 .. Len(c) PROVE c[k] = d[k]
  <2>1. CASE k = Len(s) + 1
    BY <1>0, <1>1, <1>2, <1>3, <1>5, <1>7, <2>1
  <2>2. CASE k \in 1 .. Len(s)
    BY <1>1, <1>2, <1>3, <1>5, <1>7, <2>2
  <2> QED
    BY <1>8, <2>1, <2>2
<1>10. c = d
  BY <1>5, <1>7, <1>8, <1>9, SameSequence
<1> QED
  BY <1>0, <1>1, <1>10

LEMMA ReaderTypes ==
  ASSUME NEW m, NEW s \in Seq(Noted(m)), NEW n
  PROVE  /\ Only(s, V!OfReader(n)) \in Seq(Noted(m))
         /\ Frames(Only(s, V!OfReader(n))) \in Seq(Received)
<1>1. PICK T, S : T = Noted(m) /\ S = V!OfReader(n)
  OBVIOUS
<1>2. PICK o : o = Only(s, S)
  OBVIOUS
<1>3. o \in Seq(T)
  BY <1>1, <1>2, OnlyType
<1>4. \A e \in T : e.frame \in Received
  BY <1>1, OfReaderIs
<1>5. Frames(o) \in Seq(Received)
  BY <1>3, <1>4, FramesType
<1> QED
  BY <1>1, <1>2, <1>3, <1>5

(* The history and the reader grow together.                               *)
LEMMA FrameArrives ==
  ASSUME NEW m, NEW d \in Seq(Noted(m)), NEW t \in Seq(Noted(m)), NEW q \in Seq(V!Messages),
         NEW n, Exact(d, q, t, n), NEW e \in Noted(m)
  PROVE  Exact(d, IF e.reader = n THEN Longer(q, e.frame) ELSE q, Longer(t, e), n)
<1>1. PICK T, S : T = Noted(m) /\ S = V!OfReader(n)
  OBVIOUS
<1>2. (e \in S <=> e.reader = n) /\ e.frame \in Received /\ e \in T /\ t \in Seq(T)
  BY <1>1, OfReaderIs
<1>3. Only(Longer(t, e), S) = IF e \in S THEN Longer(Only(t, S), e) ELSE Only(t, S)
  BY <1>2, OnlyOneMore
<1>4. CASE e.reader = n
  <2>1. PICK o, x, y : o = Only(t, S) /\ x = Frames(Only(d, S)) /\ y = Only(q, Received)
    OBVIOUS
  <2>2. o \in Seq(T) /\ x \in Seq(Received)
    BY <1>1, <2>1, ReaderTypes
  <2>3. \A r \in T : r.frame \in Received
    BY <1>1, OfReaderIs
  <2>4. Frames(Longer(o, e)) = Longer(Frames(o), e.frame)
    BY <1>2, <2>2, <2>3, FramesLonger
  <2>5. y \in Seq(Received)
    BY <2>1, OnlyType
  <2>6. Only(Longer(q, e.frame), Received) = Longer(y, e.frame)
    <3>1. PICK f : f = e.frame
      OBVIOUS
    <3>2. f \in Received /\ f \in V!Messages
      BY <1>2, <3>1 DEF V!Messages
    <3>3. Only(Longer(q, f), Received) = IF f \in Received THEN Longer(Only(q, Received), f) ELSE Only(q, Received)
      BY <3>2, OnlyOneMore
    <3> QED
      BY <2>1, <3>1, <3>2, <3>3
  <2>7. Joined(x, y) = Frames(o)
    BY <1>1, <2>1 DEF Exact, Joined
  <2>8. Longer(Joined(x, y), e.frame) = Joined(x, Longer(y, e.frame))
    BY <1>2, <2>2, <2>5, AppendBoth
  <2> QED
    BY <1>1, <1>2, <1>3, <1>4, <2>1, <2>4, <2>6, <2>7, <2>8 DEF Exact, Joined
<1>5. CASE e.reader # n
  BY <1>1, <1>2, <1>3, <1>5 DEF Exact
<1> QED
  BY <1>4, <1>5

LEMMA NoteArrives ==
  ASSUME NEW d, NEW t, NEW n, NEW q \in Seq(V!Messages), Exact(d, q, t, n)
  PROVE  Exact(d, Longer(q, "info"), t, n)
<1>1. "info" \in V!Messages /\ "info" \notin Received
  BY ResultsAssumption DEF V!Messages
<1>2. PICK i : i = "info"
  OBVIOUS
<1>3. Only(Longer(q, i), Received) = IF i \in Received THEN Longer(Only(q, Received), i) ELSE Only(q, Received)
  BY <1>1, <1>2, OnlyOneMore
<1> QED
  BY <1>1, <1>2, <1>3 DEF Exact

LEMMA SplitAt ==
  ASSUME NEW T, NEW q \in Seq(T), NEW k \in 0 .. Len(q)
  PROVE  q = SubSeq(q, 1, k) \o SubSeq(q, k + 1, Len(q))
<1>1. PICK a, b : a = SubSeq(q, 1, k) /\ b = SubSeq(q, k + 1, Len(q))
  OBVIOUS
<1>2. /\ a \in Seq(T) /\ Len(a) = k /\ \A j \in 1 .. k : a[j] = q[j]
      /\ b \in Seq(T) /\ Len(b) = Len(q) - k /\ \A j \in 1 .. Len(q) - k : b[j] = q[k + j]
  BY <1>1
<1>3. PICK c : c = a \o b
  OBVIOUS
<1>4. /\ c \in Seq(T) /\ Len(c) = Len(a) + Len(b) /\ \A j \in 1 .. Len(a) : c[j] = a[j]
      /\ \A j \in 1 .. Len(b) : c[Len(a) + j] = b[j]
  <2>1. a \in Seq(T) /\ b \in Seq(T)
    BY <1>2
  <2> QED
    BY <1>3, <2>1
<1>5. Len(c) = Len(q) /\ Len(q) \in Nat
  BY <1>2, <1>4
<1>6. ASSUME NEW j \in 1 .. Len(c) PROVE c[j] = q[j]
  <2>1. CASE j \in 1 .. k
    BY <1>2, <1>4, <2>1
  <2>2. CASE j \notin 1 .. k
    <3>1. j - k \in 1 .. Len(b) /\ j = Len(a) + (j - k)
      BY <1>2, <1>5, <2>2
    <3>2. c[j] = b[j - k]
      BY <1>4, <3>1
    <3>3. b[j - k] = q[k + (j - k)]
      BY <1>2, <3>1
    <3> QED
      BY <1>5, <3>2, <3>3
  <2> QED
    BY <2>1, <2>2
<1>7. c = q
  BY <1>4, <1>5, <1>6, SameSequence
<1> QED
  BY <1>1, <1>3, <1>7

(* What the network reads at once is what waits, up to a note.             *)
LEMMA ReadAtOnce ==
  ASSUME NEW q \in Seq(V!Messages)
  PROVE  /\ \A j \in 1 .. V!Reads(q) : q[j] \in Received
         /\ Only(V!Rest(q), Received) \in Seq(Received)
         /\ SubSeq(q, 1, V!Reads(q)) \in Seq(Received)
         /\ Only(q, Received) = SubSeq(q, 1, V!Reads(q)) \o Only(V!Rest(q), Received)
<1>1. PICK k : k = V!Reads(q)
  OBVIOUS
<1>2. /\ k \in 0 .. Len(q) /\ \A j \in 1 .. k : q[j] # "info"
      /\ k < Len(q) => q[k + 1] = "info"
  BY <1>1, VciReads
<1>3. \A j \in 1 .. k : q[j] \in Received
  BY <1>2 DEF V!Messages
<1>4. PICK a, b, r : a = SubSeq(q, 1, k) /\ b = SubSeq(q, k + 1, Len(q)) /\ r = SubSeq(q, k + 2, Len(q))
  OBVIOUS
<1>5. /\ a \in Seq(V!Messages) /\ Len(a) = k /\ \A j \in 1 .. k : a[j] = q[j]
      /\ b \in Seq(V!Messages) /\ r \in Seq(V!Messages)
  BY <1>2, <1>4
<1>6. a \in Seq(Received)
  BY <1>3, <1>5, Narrow
<1>7. q = a \o b
  BY <1>2, <1>4, SplitAt
<1>8. Only(q, Received) = Only(a, Received) \o Only(b, Received)
  <2>1. Only(Joined(a, b), Received) = Joined(Only(a, Received), Only(b, Received))
    BY <1>5, OnlyBoth
  <2> QED
    BY <1>7, <2>1 DEF Joined
<1>9. Only(a, Received) = a
  BY <1>6, OnlyAll
<1>10. Only(b, Received) = Only(r, Received)
  <2>1. CASE k < Len(q)
    <3>1. PICK i : i = <<"info">>
      OBVIOUS
    <3>2. b = i \o r
      <4>1. b \in Seq(V!Messages) /\ 1 \in 0 .. Len(b) /\ b[1] = "info" /\ Len(b) = Len(q) - k
        BY <1>2, <1>4, <2>1
      <4>2. b = SubSeq(b, 1, 1) \o SubSeq(b, 2, Len(b))
        BY <4>1, SplitAt
      <4>3. SubSeq(b, 1, 1) = i
        <5>1. PICK j : j = SubSeq(b, 1, 1)
          OBVIOUS
        <5>2. j \in Seq(V!Messages) /\ Len(j) = 1 /\ j[1] = "info"
          BY <4>1, <5>1
        <5>3. i \in Seq(V!Messages) /\ Len(i) = 1 /\ i[1] = "info"
          BY <3>1 DEF V!Messages
        <5>4. Len(j) = Len(i) /\ \A m \in 1 .. Len(j) : j[m] = i[m]
          BY <5>2, <5>3
        <5> QED
          BY <5>1, <5>2, <5>3, <5>4, SameSequence
      <4>4. SubSeq(b, 2, Len(b)) = r
        BY <1>2, <1>4, <2>1, <4>1
      <4> QED
        BY <4>2, <4>3, <4>4
    <3>3. PICK T : T = {"info"}
      OBVIOUS
    <3>4. i \in Seq(T) /\ i \in Seq(V!Messages)
      BY <3>1, <3>3 DEF V!Messages
    <3>5. Only(i, Received) = <<>>
      <4>1. Received \cap T = {}
        BY <3>3, ResultsAssumption
      <4> QED
        BY <3>4, <4>1, OnlyOutside
    <3>6. Only(b, Received) = Only(i, Received) \o Only(r, Received)
      <4>1. Only(Joined(i, r), Received) = Joined(Only(i, Received), Only(r, Received))
        BY <1>5, <3>4, OnlyBoth
      <4> QED
        BY <3>2, <4>1 DEF Joined
    <3>7. PICK o : o = Only(r, Received)
      OBVIOUS
    <3>8. o \in Seq(Received)
      BY <1>5, <3>7, OnlyType
    <3>9. <<>> \o o = o
      BY <3>8
    <3> QED
      BY <3>5, <3>6, <3>7, <3>9
  <2>2. CASE ~(k < Len(q))
    <3>1. k = Len(q) /\ Len(q) \in Nat
      BY <1>2, <2>2
    <3>2. SubSeq(q, Len(q) + 1, Len(q)) = <<>> /\ SubSeq(q, Len(q) + 2, Len(q)) = <<>>
      OBVIOUS
    <3> QED
      BY <1>4, <3>1, <3>2
  <2> QED
    BY <2>1, <2>2
<1>11. Only(r, Received) \in Seq(Received)
  BY <1>5, OnlyType
<1> QED
  BY <1>1, <1>3, <1>4, <1>6, <1>8, <1>9, <1>10, <1>11 DEF V!Rest

(* The network reads the reader m, the newest one, up to a note: what is   *)
(* read comes before the rest, and the other readers have no part in it.   *)
OneReader(m) == [frame : Received, reader : {m}]
Now(q, m) == [k \in 1 .. V!Reads(q) |-> [frame |-> q[k], reader |-> m]]

LEMMA RecordsRead ==
  ASSUME NEW m \in Nat \ {0}, NEW q \in Seq(V!Messages), NEW x, x = Now(q, m)
  PROVE  /\ x \in Seq(Noted(m)) /\ x \in Seq(OneReader(m))
         /\ Len(x) = V!Reads(q) /\ V!Reads(q) \in 0 .. Len(q)
         /\ \A j \in 1 .. V!Reads(q) : x[j].frame = q[j]
<1>1. PICK T, k : T = Noted(m) /\ k = V!Reads(q)
  OBVIOUS
<1>2. k \in 0 .. Len(q) /\ \A j \in 1 .. k : q[j] \in Received
  BY <1>1, VciReads, ReadAtOnce
<1>3. ASSUME NEW M, NEW j \in 1 .. k, m \in M PROVE [frame |-> q[j], reader |-> m] \in [frame : Received, reader : M]
  BY <1>2, <1>3
<1> DEFINE N == OneReader(m)
<1>4. k \in Nat /\ x = [j \in 1 .. k |-> [frame |-> q[j], reader |-> m]]
  BY <1>1, <1>2 DEF Now
<1>5. /\ x = [j \in 1 .. k |-> x[j]]
       /\ \A j \in 1 .. k : x[j] = [frame |-> q[j], reader |-> m]
  BY <1>4, Zenon
<1>6. x \in Seq(N) /\ Len(x) = k /\ \A j \in 1 .. k : x[j].frame = q[j] /\ x[j] \in N
  <2>1. \A j \in 1 .. k : [frame |-> q[j], reader |-> m] \in N
    BY <1>3 DEF OneReader
  <2> HIDE DEF N
  <2>2. ASSUME NEW j \in 1 .. k PROVE x[j].frame = q[j] /\ x[j] \in N
    <3>1. x[j] = [frame |-> q[j], reader |-> m]
      BY <1>5
    <3>2. x[j] \in N
      BY <2>1, <3>1
    <3> QED
      BY <3>1, <3>2
  <2>3. x \in Seq(N) /\ Len(x) = k
    BY <1>4, <1>5, <2>2, Listed
  <2> QED
    BY <2>2, <2>3
<1>7. x \in Seq(T)
  <2>1. m \in 1 .. m
    OBVIOUS
  <2>2. \A j \in 1 .. k : [frame |-> q[j], reader |-> m] \in T
    BY <1>1, <1>3, <2>1 DEF Noted
  <2>3. \A j \in 1 .. k : x[j] \in T
    BY <1>5, <2>2
  <2> QED
    BY <1>4, <1>5, <2>3, Listed
<1> QED
  BY <1>1, <1>2, <1>6, <1>7

LEMMA FramesRead ==
  ASSUME NEW m \in Nat \ {0}, NEW d \in Seq(Noted(m)), NEW t, NEW q \in Seq(V!Messages),
         NEW x, x = Now(q, m), Exact(d, q, t, m)
  PROVE  Exact(d \o x, V!Rest(q), t, m)
<1>1. PICK T, S, N, k, a : /\ T = Noted(m) /\ S = V!OfReader(m) /\ N = OneReader(m)
                           /\ k = V!Reads(q) /\ a = SubSeq(q, 1, k)
  OBVIOUS
<1>2. /\ x \in Seq(T) /\ x \in Seq(N) /\ k \in 0 .. Len(q) /\ Len(x) = k
      /\ \A j \in 1 .. k : x[j].frame = q[j]
  BY <1>1, RecordsRead
<1>3. a \in Seq(Received) /\ Len(a) = k /\ \A j \in 1 .. k : a[j] = q[j]
  BY <1>1, <1>2, ReadAtOnce
<1>4. d \in Seq(T) /\ \A e \in T : e.frame \in Received
  BY <1>1, OfReaderIs
<1>5. Only(Joined(d, x), S) = Joined(Only(d, S), Only(x, S))
  BY <1>2, <1>4, OnlyBoth
<1>6. PICK o, f, y, r : /\ o = Only(d, S) /\ f = Frames(o) /\ y = Only(q, Received)
                        /\ r = Only(V!Rest(q), Received)
  OBVIOUS
<1>7. o \in Seq(T) /\ f \in Seq(Received)
  BY <1>1, <1>4, <1>6, ReaderTypes
<1>8. Only(x, S) = x
  <2>1. N \subseteq S
    BY <1>1 DEF OneReader, V!OfReader, V!Messages
  <2>2. \A j \in 1 .. Len(x) : x[j] \in N
    <3>1. x \in Seq(N)
      BY <1>2
    <3> QED
      BY <3>1
  <2>3. x \in Seq(S)
    BY <1>2, <2>1, <2>2, Narrow
  <2> QED
    BY <2>3, OnlyAll
<1>9. Frames(x) = a
  <2>1. PICK c : c = Frames(x)
    OBVIOUS
  <2>2. c \in Seq(Received) /\ Len(c) = Len(x) /\ \A j \in 1 .. Len(x) : c[j] = x[j].frame
    BY <1>2, <1>4, <2>1, FramesType
  <2>3. Len(c) = Len(a) /\ \A j \in 1 .. Len(c) : c[j] = a[j]
    BY <1>2, <1>3, <2>2
  <2> QED
    BY <1>3, <2>1, <2>2, <2>3, SameSequence
<1>10. Frames(Joined(o, x)) = Joined(f, a)
  <2>1. Frames(Joined(o, x)) = Joined(Frames(o), Frames(x))
    BY <1>2, <1>4, <1>7, FramesBoth
  <2> QED
    BY <1>6, <1>9, <2>1
<1>11. r \in Seq(Received) /\ y = Joined(a, r)
  BY <1>1, <1>6, ReadAtOnce DEF Joined
<1>12. Joined(Joined(f, a), r) = Joined(f, Joined(a, r))
  BY <1>3, <1>7, <1>11, JoinedBoth
<1>13. Joined(f, y) = Frames(Only(t, S))
  BY <1>1, <1>6 DEF Exact, Joined
<1>14. Joined(Frames(Only(Joined(d, x), S)), r) = Frames(Only(t, S))
  BY <1>5, <1>6, <1>8, <1>10, <1>11, <1>12, <1>13
<1> QED
  BY <1>1, <1>6, <1>14 DEF Exact, Joined

LEMMA OthersRead ==
  ASSUME NEW m \in Nat \ {0}, NEW d \in Seq(Noted(m)), NEW t, NEW q \in Seq(V!Messages),
         NEW x, x = Now(q, m), NEW n, n # m, NEW o, Exact(d, o, t, n)
  PROVE  Exact(d \o x, o, t, n)
<1>1. PICK T, S, N : T = Noted(m) /\ S = V!OfReader(n) /\ N = OneReader(m)
  OBVIOUS
<1>2. x \in Seq(T) /\ x \in Seq(N) /\ d \in Seq(T)
  BY <1>1, RecordsRead
<1>3. Only(Joined(d, x), S) = Joined(Only(d, S), Only(x, S))
  BY <1>2, OnlyBoth
<1>4. Only(x, S) = <<>>
  <2>1. S \cap N = {}
    BY <1>1 DEF OneReader, V!OfReader
  <2> QED
    BY <1>2, <2>1, OnlyOutside
<1>5. PICK e : e = Only(d, S)
  OBVIOUS
<1>6. e \in Seq(T)
  BY <1>2, <1>5, OnlyType
<1>7. e \o <<>> = e
  BY <1>6
<1>8. Only(Joined(d, x), S) = Only(d, S)
  BY <1>3, <1>4, <1>5, <1>7 DEF Joined
<1> QED
  BY <1>1, <1>8 DEF Exact, Joined

(* The reader in use is the newest one, and the histories know no later.   *)
VciData ==
  /\ taken \in Seq(Noted(Len(fifo))) /\ delivered \in Seq(Noted(Len(fifo)))
  /\ event \in BOOLEAN /\ broken \in BOOLEAN
  /\ ~broken => /\ V!reader = Len(fifo)
                /\ \A n \in 1 .. Len(fifo) : Exact(delivered, fifo[n], taken, n)

(* A step that leaves the readers and the histories alone.                 *)
LEMMA VciDataSame ==
  ASSUME VciData, UNCHANGED <<taken, delivered, fifo, broken>>, event' \in BOOLEAN,
         v'.ptsRcvFifoP = v.ptsRcvFifoP
  PROVE  VciData'
BY DEF VciData, V!reader

LEMMA VciDataStarts ==
  ASSUME V!Init
  PROVE  VciData
<1>1. fifo = <<>> /\ Len(fifo) = 0 /\ taken = <<>> /\ delivered = <<>>
  BY DEF V!Init
<1>2. <<>> \in Seq(Noted(0))
  OBVIOUS
<1>3. event \in BOOLEAN /\ broken \in BOOLEAN /\ V!reader = 0
  BY DEF V!Init, V!reader
<1>4. \A n \in 1 .. 0 : Exact(delivered, fifo[n], taken, n)
  OBVIOUS
<1> QED
  BY <1>1, <1>2, <1>3, <1>4 DEF VciData

(* A new reader holds nothing.                                             *)
LEMMA NewReader ==
  ASSUME NEW m \in Nat, NEW d \in Seq(Noted(m)), NEW t \in Seq(Noted(m))
  PROVE  /\ Exact(d, <<>>, t, m + 1)
         /\ d \in Seq(Noted(m + 1)) /\ t \in Seq(Noted(m + 1))
<1>1. PICK T, S : T = Noted(m) /\ S = V!OfReader(m + 1)
  OBVIOUS
<1>2. S \cap T = {}
  <2>1. \A e \in T : e \notin S
    <3> SUFFICES ASSUME NEW e \in T PROVE e.reader # m + 1
      BY <1>1, OfReaderIs
    <3> QED
      BY <1>1 DEF Noted
  <2> QED
    BY <2>1
<1>3. Only(d, S) = <<>> /\ Only(t, S) = <<>>
  BY <1>1, <1>2, OnlyOutside
<1>4. Only(<<>>, Received) = <<>> /\ Frames(<<>>) = <<>> /\ <<>> \o <<>> = <<>>
  BY OnlyNone DEF Frames
<1>5. Exact(d, <<>>, t, m + 1)
  BY <1>1, <1>3, <1>4 DEF Exact
<1>6. Noted(m) \subseteq Noted(m + 1)
  BY DEF Noted
<1>7. ASSUME NEW s \in Seq(Noted(m)) PROVE s \in Seq(Noted(m + 1))
  <2>1. \A k \in 1 .. Len(s) : s[k] \in Noted(m)
    OBVIOUS
  <2>2. \A k \in 1 .. Len(s) : s[k] \in Noted(m + 1)
    BY <1>6, <2>1
  <2> QED
    BY <2>2, Narrow
<1> QED
  BY <1>5, <1>7

LEMMA VciDataStarted ==
  ASSUME VciInv, VciData, NEW outcome, V!startInterface(outcome)
  PROVE  VciData'
<1>1. PICK m \in Nat : m = Len(fifo)
  BY DEF VciInv
<1>2. /\ UNCHANGED <<taken, delivered, event>> /\ broken' = (broken \/ outcome # "ok")
      /\ fifo' = IF outcome \in {"nowriter", "ok"} THEN Append(fifo, <<>>) ELSE fifo
  BY DEF V!startInterface
<1>3. broken' \in BOOLEAN
  <2>1. (broken \/ outcome # "ok") \in BOOLEAN
    OBVIOUS
  <2> QED
    BY <1>2, <2>1, Zenon
<1>4. taken \in Seq(Noted(m)) /\ delivered \in Seq(Noted(m))
  BY <1>1 DEF VciData
<1>5. /\ taken \in Seq(Noted(m + 1)) /\ delivered \in Seq(Noted(m + 1))
      /\ Exact(delivered, <<>>, taken, m + 1)
  BY <1>1, <1>4, NewReader
<1>6. CASE fifo' = Append(fifo, <<>>)
  <2>1. /\ Len(fifo') = m + 1 /\ fifo'[m + 1] = <<>> /\ \A n \in 1 .. m : fifo'[n] = fifo[n]
    <3>1. <<>> \in Seq(V!Messages) /\ fifo \in Seq(Seq(V!Messages))
      BY DEF VciInv
    <3> QED
      BY <1>1, <1>6, <3>1
  <2>2. ASSUME ~broken' PROVE V!reader' = m + 1
    <3>1. outcome = "ok"
      BY <1>2, <2>2
    <3>2. v' = V!setMode(V!Connected("ok"), line, "start").s \/ v' = V!Connected("ok")
      BY <3>1 DEF V!startInterface
    <3> QED
      BY <1>1, <3>2 DEF V!reader, V!setMode, V!Connected, VciInv, VciMembers
  <2>3. ASSUME ~broken', NEW n \in 1 .. m + 1 PROVE Exact(delivered, fifo'[n], taken, n)
    <3>1. CASE n = m + 1
      BY <1>5, <2>1, <3>1
    <3>2. CASE n # m + 1
      <4>1. n \in 1 .. m
        BY <3>2
      <4> QED
        BY <1>1, <1>2, <2>1, <2>3, <4>1 DEF VciData
    <3> QED
      BY <3>1, <3>2
  <2> QED
    BY <1>2, <1>3, <1>5, <2>1, <2>2, <2>3 DEF VciData
<1>7. CASE fifo' = fifo /\ outcome \notin {"nowriter", "ok"}
  <2>1. broken'
    BY <1>2, <1>7
  <2> QED
    BY <1>2, <1>3, <1>7, <2>1 DEF VciData
<1> QED
  BY <1>2, <1>6, <1>7

LEMMA VciDataPolled ==
  ASSUME VciInv, VciData, NEW filled \in BOOLEAN, V!onTimerEvent(filled)
  PROVE  VciData'
<1> DEFINE q == fifo[V!reader]
           asks == V!reader # 0 /\ IF plugged THEN q # <<>> ELSE filled
           reading == asks /\ attached /\ plugged
<1>1. /\ fifo' = IF reading THEN [fifo EXCEPT ![V!reader] = V!Rest(q)] ELSE fifo
      /\ delivered' = IF reading THEN delivered \o
                         [k \in 1 .. V!Reads(q) |-> [frame |-> q[k], reader |-> Len(fifo)]]
                      ELSE delivered
      /\ event' = FALSE /\ UNCHANGED <<taken, broken>>
      /\ V!Failed(event \/ (asks /\ attached /\ ~plugged))
  BY DEF V!onTimerEvent
<1>2. v'.ptsRcvFifoP = v.ptsRcvFifoP
  <2>1. PICK failure : failure = (event \/ (asks /\ attached /\ ~plugged))
    OBVIOUS
  <2>2. V!Failed(failure)
    BY <1>1, <2>1
  <2>3. CASE failure /\ attached
    <3>1. line => v.ptsCanControlP
      BY DEF VciInv, V!LineIsUsed
    <3> QED
      BY <2>2, <2>3, <3>1, VciStopped DEF V!Failed, VciInv
  <2>4. CASE ~(failure /\ attached)
    BY <2>2, <2>4 DEF V!Failed
  <2> QED
    BY <2>3, <2>4
<1>3. PICK m \in Nat : m = Len(fifo)
  BY DEF VciInv
<1>4. V!reader \in 0 .. m /\ V!reader' = V!reader
  BY <1>2, <1>3 DEF VciInv, V!reader
<1>5. CASE reading
  <2>1. V!reader \in 1 .. m /\ fifo \in Seq(Seq(V!Messages))
    BY <1>4, <1>5 DEF VciInv
  <2>2. q \in Seq(V!Messages)
    BY <1>3, <2>1
  <2>3. fifo' = [fifo EXCEPT ![V!reader] = V!Rest(q)]
    BY <1>1, <1>5
  <2>4. V!Rest(q) \in Seq(V!Messages)
    BY <2>2, VciReads
  <2> HIDE DEF q, asks, reading
  <2>5. /\ Len(fifo') = m /\ fifo'[V!reader] = V!Rest(q)
        /\ \A n \in 1 .. m : n # V!reader => fifo'[n] = fifo[n]
    BY <1>3, <2>1, <2>3, <2>4
  <2>6. PICK x : x = Now(q, m)
    OBVIOUS
  <2>7. delivered' = delivered \o x
    BY <1>1, <1>3, <1>5, <2>6 DEF Now
  <2>8. taken \in Seq(Noted(m)) /\ delivered \in Seq(Noted(m))
    BY <1>3 DEF VciData
  <2>9. delivered \o x \in Seq(Noted(m))
    <3>1. m \in Nat \ {0}
      BY <2>1
    <3>2. x \in Seq(Noted(m))
      BY <2>2, <2>6, <3>1, RecordsRead
    <3> QED
      BY <2>8, <3>2
  <2>10. ASSUME ~broken, NEW n \in 1 .. m PROVE Exact(delivered', fifo'[n], taken, n)
    <3>1. V!reader = m /\ Exact(delivered, fifo[n], taken, n)
      BY <1>3, <2>10 DEF VciData
    <3>2. m \in Nat \ {0}
      BY <2>10
    <3>3. CASE n = m
      <4>1. q = fifo[n]
        BY <3>1, <3>3 DEF q
      <4>2. Exact(delivered \o x, V!Rest(q), taken, n)
        BY <2>2, <2>6, <2>8, <2>10, <3>1, <3>2, <3>3, <4>1, FramesRead
      <4> QED
        BY <2>5, <2>7, <3>1, <3>3, <4>2
    <3>4. CASE n # m
      <4>1. Exact(delivered \o x, fifo[n], taken, n)
        <5>1. PICK o : o = fifo[n]
          OBVIOUS
        <5>2. Exact(delivered, o, taken, n)
          BY <3>1, <5>1
        <5>3. Exact(delivered \o x, o, taken, n)
          BY <2>2, <2>6, <2>8, <3>2, <3>4, <5>2, OthersRead
        <5> QED
          BY <5>1, <5>3
      <4> QED
        BY <2>5, <2>7, <3>1, <3>4, <4>1
    <3> QED
      BY <3>3, <3>4
  <2> QED
    BY <1>1, <1>3, <1>4, <2>5, <2>7, <2>8, <2>9, <2>10 DEF VciData
<1>6. CASE ~reading
  BY <1>1, <1>2, <1>6, VciDataSame
<1> QED
  BY <1>5, <1>6

LEMMA VciDataArrives ==
  ASSUME VciInv, VciData, NEW r \in V!Messages, V!Arrive(r)
  PROVE  VciData'
<1>1. PICK m \in Nat : m = Len(fifo)
  BY DEF VciInv
<1>2. /\ V!reader \in 1 .. m /\ V!reader' = V!reader /\ fifo \in Seq(Seq(V!Messages))
      /\ UNCHANGED <<delivered, event, broken>>
  BY <1>1 DEF VciInv, V!Arrive, V!reader, V!network
<1>3. fifo[V!reader] \in Seq(V!Messages)
  BY <1>1, <1>2
<1>4. fifo' = [fifo EXCEPT ![V!reader] = Longer(fifo[V!reader], r)]
  BY <1>2 DEF V!Arrive, Longer
<1>5. Longer(fifo[V!reader], r) \in Seq(V!Messages)
  BY <1>3, LongerType
<1>6. /\ Len(fifo') = m /\ fifo'[V!reader] = Longer(fifo[V!reader], r)
      /\ \A n \in 1 .. m : n # V!reader => fifo'[n] = fifo[n]
  BY <1>1, <1>2, <1>4, <1>5
<1>7. taken \in Seq(Noted(m)) /\ delivered \in Seq(Noted(m))
  BY <1>1 DEF VciData
<1>8. ASSUME ~broken, NEW n \in 1 .. m
      PROVE  /\ V!reader = m /\ Exact(delivered, fifo[n], taken, n) /\ fifo[n] \in Seq(V!Messages)
             /\ fifo'[n] = IF V!reader = n THEN Longer(fifo[n], r) ELSE fifo[n]
  BY <1>1, <1>2, <1>6, <1>8 DEF VciData
<1>9. CASE r \in Received
  <2>1. PICK e : e = [frame |-> r, reader |-> V!reader]
    OBVIOUS
  <2>2. e \in Noted(m) /\ e.frame = r /\ e.reader = V!reader
    BY <1>2, <1>9, <2>1 DEF Noted
  <2>3. taken' = Longer(taken, e)
    BY <1>9, <2>1 DEF V!Arrive, Longer
  <2>4. taken' \in Seq(Noted(m))
    BY <1>7, <2>2, <2>3, LongerType
  <2>5. ASSUME ~broken, NEW n \in 1 .. m PROVE Exact(delivered, fifo'[n], taken', n)
    <3>1. Exact(delivered, IF e.reader = n THEN Longer(fifo[n], e.frame) ELSE fifo[n], Longer(taken, e), n)
      BY <1>7, <1>8, <2>2, <2>5, FrameArrives
    <3> QED
      BY <1>8, <2>2, <2>3, <2>5, <3>1
  <2> QED
    BY <1>1, <1>2, <1>6, <1>7, <2>4, <2>5 DEF VciData
<1>10. CASE r \notin Received
  <2>1. r = "info" /\ taken' = taken
    BY <1>10 DEF V!Arrive, V!Messages
  <2>2. ASSUME ~broken, NEW n \in 1 .. m PROVE Exact(delivered, fifo'[n], taken, n)
    <3>1. Exact(delivered, fifo[n], taken, n) /\ fifo[n] \in Seq(V!Messages)
      BY <1>8, <2>2
    <3>2. Exact(delivered, Longer(fifo[n], "info"), taken, n)
      BY <3>1, NoteArrives
    <3> QED
      BY <1>8, <2>1, <2>2, <3>1, <3>2
  <2> QED
    BY <1>1, <1>2, <1>6, <1>7, <2>1, <2>2 DEF VciData
<1> QED
  BY <1>9, <1>10

LEMMA VciDataStep ==
  ASSUME VciInv, VciData, V!Next
  PROVE  VciData'
<1>1. event \in BOOLEAN /\ v \in VciMembers
  BY DEF VciData, VciInv
<1>2. CASE V!stopInterface
  <2>1. line => v.ptsCanControlP
    BY DEF VciInv, V!LineIsUsed
  <2>2. v'.ptsRcvFifoP = v.ptsRcvFifoP
    BY <1>2, <2>1, VciStopped DEF V!stopInterface, VciInv
  <2> QED
    BY <1>1, <1>2, <2>2, VciDataSame DEF V!stopInterface
<1>3. CASE V!reset
  <2>1. v'.ptsRcvFifoP = v.ptsRcvFifoP
    BY <1>1, <1>3 DEF V!reset, V!setMode, VciMembers
  <2> QED
    BY <1>1, <1>3, <2>1, VciDataSame DEF V!reset, V!network
<1>4. CASE V!setBitrate
  <2>1. v'.ptsRcvFifoP = v.ptsRcvFifoP
    BY <1>1, <1>4 DEF V!setBitrate, V!setMode, VciMembers
  <2> QED
    BY <1>1, <1>4, <2>1, VciDataSame DEF V!setBitrate, V!network
<1>5. ASSUME NEW mine \in BOOLEAN, V!DevicesChange(mine)
      PROVE  VciData'
  <2>1. v.ulDeviceEventP \in BOOLEAN
    BY <1>1 DEF VciMembers
  <2> QED
    BY <1>5, <2>1, VciDataSame DEF V!DevicesChange, V!network
<1> QED
  BY <1>2, <1>3, <1>4, <1>5, VciDataStarted, VciDataPolled, VciDataArrives DEF V!Next

LEMMA VciTypes ==
  ASSUME VciInv, VciData
  PROVE  V!TypeOK /\ V!ReadExactly
<1>1. V!TypeOK
  <2>1. PICK m \in Nat : m = Len(fifo)
    BY DEF VciInv
  <2>2. Noted(m) \subseteq [frame : Received, reader : Nat]
    BY DEF Noted
  <2>3. ASSUME NEW s \in Seq(Noted(m)) PROVE s \in Seq([frame : Received, reader : Nat])
    <3>1. \A k \in 1 .. Len(s) : s[k] \in Noted(m)
      OBVIOUS
    <3>2. PICK S : S = [frame : Received, reader : Nat]
      OBVIOUS
    <3>3. \A k \in 1 .. Len(s) : s[k] \in S
      BY <2>2, <3>1, <3>2
    <3>4. s \in Seq(S)
      BY <3>3, Narrow
    <3> QED
      BY <3>2, <3>4
  <2>4. taken \in Seq(Noted(m)) /\ delivered \in Seq(Noted(m))
    BY <2>1 DEF VciData
  <2>5. taken \in Seq([frame : Received, reader : Nat]) /\ delivered \in Seq([frame : Received, reader : Nat])
    BY <2>3, <2>4
  <2>6. /\ v.teConnectedP \in BOOLEAN /\ v.ptsCanControlP \in BOOLEAN
        /\ v.teCanModeP \in {"stop", "start"}
    BY DEF VciInv, VciMembers
  <2> QED
    BY <2>5, <2>6 DEF VciInv, VciData, V!TypeOK
<1>2. V!ReadExactly
  <2> SUFFICES ASSUME ~broken, NEW n \in 1 .. Len(fifo)
               PROVE  [k \in DOMAIN V!DeliveredFrom(n) |-> V!DeliveredFrom(n)[k].frame] \o V!FramesIn(n)
                        = [k \in DOMAIN V!TakenFrom(n) |-> V!TakenFrom(n)[k].frame]
    BY DEF V!ReadExactly
  <2>1. Exact(delivered, fifo[n], taken, n)
    BY DEF VciData
  <2>2. /\ V!DeliveredFrom(n) = Only(delivered, V!OfReader(n))
        /\ V!TakenFrom(n) = Only(taken, V!OfReader(n)) /\ V!FramesIn(n) = Only(fifo[n], Received)
    BY OnlyIs DEF V!DeliveredFrom, V!TakenFrom, V!FramesIn
  <2> QED
    BY <2>1, <2>2 DEF Exact, Frames
<1> QED
  BY <1>1, <1>2

------------------------------------------------------------------------------
(* Three sequences that follow each other in the order of a history t.     *)
Distinct(t) == \A j, k \in DOMAIN t : t[j] = t[k] => j = k
Rising(a, t) ==
  /\ \A k \in DOMAIN a : a[k] \in Elements(t)
  /\ \A j, k \in DOMAIN a : j < k => Position(a[j], t) < Position(a[k], t)
Before(a, b, t) ==
  \A j \in DOMAIN a, k \in DOMAIN b : Position(a[j], t) < Position(b[k], t)
Follow(a, b, d, t) ==
  /\ Rising(a, t) /\ Rising(b, t) /\ Rising(d, t)
  /\ Before(a, b, t) /\ Before(a, d, t) /\ Before(b, d, t)

LEMMA OneFrame ==
  ASSUME NEW S, NEW f \in S, NEW s \in Seq(S)
  PROVE  /\ <<f>> \in Seq(S) /\ Len(<<f>>) = 1 /\ <<f>>[1] = f
         /\ s \o <<f>> = Append(s, f)
<1>1. <<f>> \in Seq(S) /\ Len(<<f>>) = 1 /\ <<f>>[1] = f
  OBVIOUS
<1>2. s \o <<f>> = Append(s, f)
  OBVIOUS
<1> QED
  BY <1>1, <1>2

LEMMA TwoFrames ==
  ASSUME NEW S, NEW f \in S, NEW g \in S
  PROVE  <<f, g>> \in Seq(S) /\ Len(<<f, g>>) = 2 /\ <<f, g>> # <<>>
OBVIOUS

LEMMA PositionIs ==
  ASSUME NEW S, NEW t \in Seq(S), Distinct(t), NEW k \in DOMAIN t
  PROVE  Position(t[k], t) = k
BY DEF Position, Distinct

LEMMA FollowIsOrder ==
  ASSUME NEW S, NEW a \in Seq(S), NEW b \in Seq(S), NEW d \in Seq(S), NEW t, Follow(a, b, d, t)
  PROVE  InOrder(a \o b \o d, t)
<1> DEFINE q == a \o b \o d
<1>1. /\ q \in Seq(S) /\ Len(q) = Len(a) + Len(b) + Len(d)
      /\ Len(a) \in Nat /\ Len(b) \in Nat /\ Len(d) \in Nat
      /\ DOMAIN q = 1 .. Len(q) /\ DOMAIN a = 1 .. Len(a) /\ DOMAIN b = 1 .. Len(b)
      /\ DOMAIN d = 1 .. Len(d)
  OBVIOUS
<1>2. \A k \in DOMAIN q :
        \/ k \in DOMAIN a /\ q[k] = a[k]
        \/ k > Len(a) /\ k - Len(a) \in DOMAIN b /\ q[k] = b[k - Len(a)]
        \/ k > Len(a) + Len(b) /\ k - Len(a) - Len(b) \in DOMAIN d /\ q[k] = d[k - Len(a) - Len(b)]
  OBVIOUS
<1> HIDE DEF q
<1>3. Elements(q) \subseteq Elements(t)
  BY <1>2 DEF Follow, Rising, Elements
<1>4. ASSUME NEW j \in DOMAIN q, NEW k \in DOMAIN q, j < k
      PROVE  Position(q[j], t) < Position(q[k], t)
  <2>1. CASE j \in DOMAIN a /\ q[j] = a[j]
    BY <1>1, <1>2, <1>4, <2>1 DEF Follow, Rising, Before
  <2>2. CASE j > Len(a) /\ j - Len(a) \in DOMAIN b /\ q[j] = b[j - Len(a)]
    BY <1>1, <1>2, <1>4, <2>2 DEF Follow, Rising, Before
  <2>3. CASE j > Len(a) + Len(b) /\ j - Len(a) - Len(b) \in DOMAIN d
             /\ q[j] = d[j - Len(a) - Len(b)]
    BY <1>1, <1>2, <1>4, <2>3 DEF Follow, Rising, Before
  <2> QED
    BY <1>2, <2>1, <2>2, <2>3
<1> QED
  BY <1>3, <1>4 DEF InOrder, q

(* What is dropped, and what moves on from one sequence to the next.       *)
LEMMA FollowLess ==
  ASSUME NEW S, NEW a \in Seq(S), NEW b \in Seq(S), NEW d \in Seq(S), NEW t, Follow(a, b, d, t)
  PROVE  /\ Follow(a, <<>>, d, t) /\ Follow(a, b, <<>>, t) /\ Follow(a, <<>>, <<>>, t)
         /\ b # <<>> => Follow(a, Tail(b), d, t)
         /\ d # <<>> => Follow(a, b, Tail(d), t)
BY DEF Follow, Rising, Before

LEMMA FollowMoves ==
  ASSUME NEW S, NEW a \in Seq(S), NEW b \in Seq(S), NEW d \in Seq(S), NEW t, Follow(a, b, d, t)
  PROVE  /\ b # <<>> => Follow(Append(a, Head(b)), Tail(b), d, t)
         /\ d # <<>> => Follow(a, Append(b, Head(d)), Tail(d), t)
<1>1. ASSUME b # <<>> PROVE Follow(Append(a, Head(b)), Tail(b), d, t)
  <2> DEFINE e == Append(a, Head(b))
             g == Tail(b)
  <2>1. /\ DOMAIN e = 1 .. Len(a) + 1 /\ Len(a) \in Nat /\ DOMAIN a = 1 .. Len(a)
        /\ e[Len(a) + 1] = b[1] /\ \A k \in DOMAIN a : e[k] = a[k]
    BY <1>1
  <2>2. \A k \in DOMAIN g : k \in Nat /\ k + 1 \in DOMAIN b /\ g[k] = b[k + 1] /\ 1 < k + 1
    BY <1>1
  <2>3. 1 \in DOMAIN b
    BY <1>1
  <2> HIDE DEF e, g
  <2>4. Rising(e, t)
    BY <2>1, <2>3, SMTT(30) DEF Follow, Rising, Before
  <2>5. Rising(g, t) /\ Before(e, g, t)
    BY <2>1, <2>2, <2>3 DEF Follow, Rising, Before
  <2>6. Before(e, d, t) /\ Before(g, d, t)
    BY <2>1, <2>2, <2>3 DEF Follow, Before
  <2> QED
    BY <2>4, <2>5, <2>6 DEF Follow, e, g
<1>2. ASSUME d # <<>> PROVE Follow(a, Append(b, Head(d)), Tail(d), t)
  <2> DEFINE e == Append(b, Head(d))
             g == Tail(d)
  <2>1. /\ DOMAIN e = 1 .. Len(b) + 1 /\ Len(b) \in Nat /\ DOMAIN b = 1 .. Len(b)
        /\ e[Len(b) + 1] = d[1] /\ \A k \in DOMAIN b : e[k] = b[k]
    BY <1>2
  <2>2. \A k \in DOMAIN g : k \in Nat /\ k + 1 \in DOMAIN d /\ g[k] = d[k + 1] /\ 1 < k + 1
    BY <1>2
  <2>3. 1 \in DOMAIN d
    BY <1>2
  <2> HIDE DEF e, g
  <2>4. \A k \in DOMAIN e : \/ k \in DOMAIN b /\ e[k] = b[k]
                            \/ k = Len(b) + 1 /\ e[k] = d[1]
    BY <2>1
  <2>5. Rising(b, t) /\ Rising(d, t) /\ Before(a, b, t) /\ Before(a, d, t) /\ Before(b, d, t)
    BY DEF Follow
  <2>6. Rising(e, t)
    <3>1. \A k \in DOMAIN e : e[k] \in Elements(t)
      BY <2>3, <2>4, <2>5 DEF Rising
    <3>2. ASSUME NEW j \in DOMAIN e, NEW k \in DOMAIN e, j < k
          PROVE  Position(e[j], t) < Position(e[k], t)
      <4>1. j \in DOMAIN b /\ e[j] = b[j]
        BY <2>1, <3>2
      <4>2. CASE k \in DOMAIN b /\ e[k] = b[k]
        BY <2>5, <3>2, <4>1, <4>2 DEF Rising
      <4>3. CASE e[k] = d[1]
        BY <2>3, <2>5, <4>1, <4>3 DEF Before
      <4> QED
        BY <2>4, <4>2, <4>3
    <3> QED
      BY <3>1, <3>2 DEF Rising
  <2>7. Rising(g, t)
    BY <2>2, <2>5 DEF Rising
  <2>8. Before(e, g, t)
    <3> SUFFICES ASSUME NEW j \in DOMAIN e, NEW k \in DOMAIN g
                 PROVE  Position(e[j], t) < Position(g[k], t)
      BY DEF Before
    <3>1. k + 1 \in DOMAIN d /\ g[k] = d[k + 1] /\ 1 < k + 1
      BY <2>2
    <3>2. CASE j \in DOMAIN b /\ e[j] = b[j]
      BY <2>5, <3>1, <3>2 DEF Before
    <3>3. CASE e[j] = d[1]
      BY <2>3, <2>5, <3>1, <3>3 DEF Rising
    <3> QED
      BY <2>4, <3>2, <3>3
  <2>9. Before(a, e, t)
    BY <2>3, <2>4, <2>5 DEF Before
  <2>10. Before(a, g, t)
    BY <2>2, <2>5 DEF Before
  <2> QED
    BY <2>6, <2>7, <2>8, <2>9, <2>10 DEF Follow, e, g
<1> QED
  BY <1>1, <1>2

(* All of the second sequence goes to the end of the first.                *)
LEMMA FollowRead ==
  ASSUME NEW S, NEW a \in Seq(S), NEW b \in Seq(S), NEW d \in Seq(S), NEW t, Follow(a, b, d, t)
  PROVE  Follow(a \o b, <<>>, d, t)
<1> DEFINE e == a \o b
<1>1. /\ Len(a) \in Nat /\ DOMAIN a = 1 .. Len(a)
      /\ \A k \in DOMAIN e :
           \/ k \in DOMAIN a /\ e[k] = a[k]
           \/ k > Len(a) /\ k \in Nat /\ k - Len(a) \in DOMAIN b /\ e[k] = b[k - Len(a)]
  OBVIOUS
<1>2. \A k \in DOMAIN b : k \in Nat
  OBVIOUS
<1> HIDE DEF e
<1>3. Rising(e, t)
  <2>1. \A k \in DOMAIN e : e[k] \in Elements(t)
    BY <1>1 DEF Follow, Rising
  <2>2. ASSUME NEW j \in DOMAIN e, NEW k \in DOMAIN e, j < k
        PROVE  Position(e[j], t) < Position(e[k], t)
    <3>1. CASE j \in DOMAIN a /\ k \in DOMAIN a /\ e[j] = a[j] /\ e[k] = a[k]
      BY <2>2, <3>1 DEF Follow, Rising
    <3>2. CASE j \in DOMAIN a /\ k - Len(a) \in DOMAIN b /\ e[j] = a[j] /\ e[k] = b[k - Len(a)]
      BY <3>2 DEF Follow, Before
    <3>3. CASE /\ j > Len(a) /\ j \in Nat /\ k > Len(a) /\ k \in Nat
               /\ j - Len(a) \in DOMAIN b /\ k - Len(a) \in DOMAIN b
               /\ e[j] = b[j - Len(a)] /\ e[k] = b[k - Len(a)]
      <4>1. j - Len(a) < k - Len(a)
        BY <1>1, <2>2, <3>3
      <4> QED
        BY <3>3, <4>1 DEF Follow, Rising
    <3>4. ~(j > Len(a) /\ j \in Nat /\ k \in DOMAIN a)
      BY <1>1, <2>2
    <3> QED
      BY <1>1, <3>1, <3>2, <3>3, <3>4
  <2> QED
    BY <2>1, <2>2 DEF Rising
<1>4. Before(e, d, t)
  BY <1>1 DEF Follow, Before
<1> QED
  BY <1>3, <1>4 DEF Follow, Rising, Before, e

(* New frames at the end of the history and of the last sequence.          *)
NewTo(new, t) == Distinct(t) /\ Distinct(new) /\ Elements(new) \cap Elements(t) = {}
FollowedBy(a, b, d, t, new, h) ==
  /\ Distinct(h) /\ Follow(a, b, d \o new, h)
  /\ \A k \in DOMAIN new : Position(new[k], h) = Len(t) + k
  /\ \A f \in Elements(t) : Position(f, h) = Position(f, t)

LEMMA FollowMore ==
  ASSUME NEW S, NEW a \in Seq(S), NEW b \in Seq(S), NEW d \in Seq(S), NEW t \in Seq(S),
         NEW new \in Seq(S), NewTo(new, t), Follow(a, b, d, t), NEW h, h = t \o new
  PROVE  FollowedBy(a, b, d, t, new, h)
<1>0. Distinct(t) /\ Distinct(new) /\ Elements(new) \cap Elements(t) = {}
  BY DEF NewTo
<1>1. /\ h \in Seq(S) /\ Len(t) \in Nat /\ DOMAIN t = 1 .. Len(t) /\ DOMAIN new = 1 .. Len(new)
      /\ Len(new) \in Nat /\ DOMAIN h = 1 .. Len(t) + Len(new)
      /\ \A k \in DOMAIN t : h[k] = t[k]
      /\ \A k \in DOMAIN new : h[Len(t) + k] = new[k]
      /\ \A k \in DOMAIN h : k \in DOMAIN t \/ k - Len(t) \in DOMAIN new
  OBVIOUS
<1>2. Distinct(h)
  <2> SUFFICES ASSUME NEW j \in DOMAIN h, NEW k \in DOMAIN h, h[j] = h[k] PROVE j = k
    BY DEF Distinct
  <2>1. \A m \in DOMAIN h : \/ m \in DOMAIN t /\ h[m] = t[m] /\ h[m] \in Elements(t)
                            \/ m - Len(t) \in DOMAIN new /\ h[m] = new[m - Len(t)]
                                 /\ h[m] \in Elements(new)
    <3> SUFFICES ASSUME NEW m \in DOMAIN h
                 PROVE  \/ m \in DOMAIN t /\ h[m] = t[m] /\ h[m] \in Elements(t)
                        \/ m - Len(t) \in DOMAIN new /\ h[m] = new[m - Len(t)]
                             /\ h[m] \in Elements(new)
      OBVIOUS
    <3>1. CASE m \in DOMAIN t
      BY <1>1, <3>1 DEF Elements
    <3>2. CASE m - Len(t) \in DOMAIN new
      <4>1. PICK i \in DOMAIN new : i = m - Len(t)
        BY <3>2
      <4>2. Len(t) + i = m
        BY <1>1, <4>1
      <4>3. h[Len(t) + i] = new[i]
        BY <1>1
      <4>4. h[m] = new[m - Len(t)]
        BY <4>1, <4>2, <4>3
      <4> QED
        BY <3>2, <4>4 DEF Elements
    <3> QED
      BY <1>1, <3>1, <3>2
  <2>2. CASE j \in DOMAIN t /\ k \in DOMAIN t
    BY <1>0, <1>1, <2>2 DEF Distinct
  <2>3. CASE j - Len(t) \in DOMAIN new /\ k - Len(t) \in DOMAIN new
             /\ new[j - Len(t)] = new[k - Len(t)]
    BY <1>0, <1>1, <2>3 DEF Distinct
  <2> QED
    BY <1>0, <2>1, <2>2, <2>3
<1>3. ASSUME NEW k \in DOMAIN new PROVE Position(new[k], h) = Len(t) + k
  <2>1. Len(t) + k \in DOMAIN h /\ h[Len(t) + k] = new[k]
    BY <1>1
  <2>2. Position(h[Len(t) + k], h) = Len(t) + k
    BY <1>1, <1>2, <2>1, PositionIs
  <2> QED
    BY <2>1, <2>2
<1>4. ASSUME NEW k \in DOMAIN t PROVE Position(t[k], h) = k /\ Position(t[k], t) = k
  <2>1. k \in DOMAIN h /\ h[k] = t[k]
    BY <1>1
  <2>2. Position(h[k], h) = k
    BY <1>1, <1>2, <2>1, PositionIs
  <2>3. Position(t[k], t) = k
    BY <1>0, PositionIs
  <2> QED
    BY <2>1, <2>2, <2>3
<1>5. \A f \in Elements(t) : Position(f, h) = Position(f, t) /\ Position(f, t) \in 1 .. Len(t)
                             /\ f \in Elements(h)
  BY <1>1, <1>4 DEF Elements
<1>6. Rising(a, h) /\ Rising(b, h) /\ Rising(d, h) /\ Before(a, b, h) /\ Before(a, d, h)
      /\ Before(b, d, h)
  BY <1>5 DEF Follow, Rising, Before
<1> DEFINE e == d \o new
<1>7. /\ Len(d) \in Nat /\ DOMAIN d = 1 .. Len(d)
      /\ \A k \in DOMAIN e :
           \/ k \in DOMAIN d /\ e[k] = d[k]
           \/ k > Len(d) /\ k \in Nat /\ k - Len(d) \in DOMAIN new /\ e[k] = new[k - Len(d)]
  OBVIOUS
<1> HIDE DEF e
<1>8. \A k \in DOMAIN new : new[k] \in Elements(h)
  <2> SUFFICES ASSUME NEW k \in DOMAIN new PROVE new[k] \in Elements(h)
    OBVIOUS
  <2>1. Len(t) + k \in DOMAIN h /\ h[Len(t) + k] = new[k]
    BY <1>1
  <2> QED
    BY <2>1 DEF Elements
<1>9. /\ \A k \in DOMAIN a : Position(a[k], h) \in 1 .. Len(t)
      /\ \A k \in DOMAIN b : Position(b[k], h) \in 1 .. Len(t)
      /\ \A k \in DOMAIN d : Position(d[k], h) \in 1 .. Len(t)
  BY <1>5 DEF Follow, Rising
<1>10. \A k \in DOMAIN e : \/ k \in DOMAIN d /\ e[k] = d[k]
                           \/ k > Len(d) /\ k \in Nat /\ k - Len(d) \in DOMAIN new
                                /\ e[k] \in Elements(h)
                                /\ Position(e[k], h) = Len(t) + (k - Len(d))
  BY <1>3, <1>7, <1>8
<1>11. Rising(e, h)
  <2>1. \A k \in DOMAIN e : e[k] \in Elements(h)
    BY <1>6, <1>10 DEF Rising
  <2>2. ASSUME NEW j \in DOMAIN e, NEW k \in DOMAIN e, j < k
        PROVE  Position(e[j], h) < Position(e[k], h)
    <3>1. CASE j \in DOMAIN d /\ e[j] = d[j] /\ k \in DOMAIN d /\ e[k] = d[k]
      BY <1>6, <2>2, <3>1 DEF Rising
    <3>2. CASE j \in DOMAIN d /\ e[j] = d[j] /\ k > Len(d)
      <4>1. Position(e[j], h) \in 1 .. Len(t)
        BY <1>9, <3>2
      <4>2. Position(e[k], h) = Len(t) + (k - Len(d)) /\ k \in Nat
        BY <1>7, <1>10, <3>2
      <4> QED
        BY <1>1, <1>7, <3>2, <4>1, <4>2
    <3>3. CASE j > Len(d)
      <4>1. Position(e[j], h) = Len(t) + (j - Len(d)) /\ j \in Nat
        BY <1>7, <1>10, <3>3
      <4>2. k > Len(d) /\ k \in Nat
        BY <1>7, <1>10, <2>2, <3>3, <4>1
      <4>3. Position(e[k], h) = Len(t) + (k - Len(d))
        BY <1>7, <1>10, <4>2
      <4> QED
        BY <1>1, <1>7, <2>2, <4>1, <4>2, <4>3
    <3> QED
      BY <1>7, <1>10, <3>1, <3>2, <3>3
  <2> QED
    BY <2>1, <2>2 DEF Rising
<1>12. ASSUME NEW q, \A m \in DOMAIN q : Position(q[m], h) \in 1 .. Len(t), Before(q, d, h)
       PROVE  Before(q, e, h)
  <2> SUFFICES ASSUME NEW j \in DOMAIN q, NEW k \in DOMAIN e
               PROVE  Position(q[j], h) < Position(e[k], h)
    BY DEF Before
  <2>1. CASE k \in DOMAIN d /\ e[k] = d[k]
    BY <1>12, <2>1 DEF Before
  <2>2. CASE k > Len(d) /\ k \in Nat /\ Position(e[k], h) = Len(t) + (k - Len(d))
    <3>1. Position(q[j], h) \in 1 .. Len(t)
      BY <1>12
    <3> QED
      BY <1>1, <1>7, <2>2, <3>1
  <2> QED
    BY <1>10, <2>1, <2>2
<1>13. Before(a, e, h) /\ Before(b, e, h)
  BY <1>6, <1>9, <1>12
<1> QED
  BY <1>2, <1>3, <1>5, <1>6, <1>11, <1>13 DEF Follow, FollowedBy, e
------------------------------------------------------------------------------
(* The lists, the serial port and the driver library of the USART plug-in. *)
UsartMembers ==
  [ubDrvInfo : {"off", "init"}, ubPhyIf : Channel,
   atsCanMsgS : [Channel -> [Buffer -> BufferType]], usart : {0} \cup Channel,
   open : BOOLEAN, in : Seq(Incoming), out : Seq(Outgoing),
   clUartTrmBufG : Frame \cup {None}, pending : BOOLEAN,
   readList : Seq(Incoming), writeList : Seq(Outgoing),
   connected : [Interface -> BOOLEAN], mode : [Interface -> {"stop", "start"}]]

(* Only buffer 1 transmits.                                                *)
ReceiveOnly(d) == \A c \in Channel : \A b \in Buffer \ {TrmBuffer} : ~d.atsCanMsgS[c][b].trm

(* Buffer 1 of channel 1 answers for the frame written last.               *)
Answers(d) ==
  LET m == d.atsCanMsgS[1][TrmBuffer]
  IN m.val /\ m.trm /\ m.msg = d.clUartTrmBufG /\ m.ext = (d.clUartTrmBufG \in Ext)

Histories ==
  /\ attached \subseteq Interface /\ timers \in [Interface -> Nat]
  /\ wire \in Seq(Outgoing) /\ accepted \in Seq(Outgoing)
  /\ arrived \in Seq([frame : Incoming, epoch : Nat])
  /\ delivered \in Seq([frame : Incoming, epoch : Nat])
  /\ epoch \in Nat /\ partly \in BOOLEAN /\ disturbed \in BOOLEAN

(* As long as the plug-in is used in a way it survives: the flag is set    *)
(* only for a frame in the port, whose buffer answers when it has left; a  *)
(* driver in use has an open port and channel 1, and only such a driver    *)
(* has something to send.                                                  *)
InUseWell(d) ==
  /\ d.pending => d.out # <<>>
  /\ d.out # <<>> => Answers(d)
  /\ CheckParam(d) => d.open /\ d.ubPhyIf = 1
  /\ ~CheckParam(d) => d.writeList = <<>>
Ready ==
  ~disturbed => InUseWell(u) /\ \A i \in attached : ChannelOf[i] = 1

(* At most one interface is connected, and it is attached, has the driver  *)
(* and is polled.                                                          *)
Connections == \A i \in Interface : u.connected[i] =>
  /\ CheckParam(u) /\ i \in attached /\ timers[i] > 0
  /\ \A j \in Interface : u.connected[j] => j = i

(* What is on its way was received since the last connection.              *)
EpochOf(f) == arrived[Position(f, Frames(arrived))].epoch
Fresh == \A f \in Elements(u.readList) \cup Elements(u.in) : EpochOf(f) = epoch

UsartInv ==
  /\ u \in UsartMembers /\ ReceiveOnly(u) /\ Histories
  /\ OneUnderWay /\ Ready /\ Connections
  /\ Follow(wire, u.out, u.writeList, accepted) /\ Distinct(accepted)
  /\ Follow(Frames(delivered), u.readList, u.in, Frames(arrived)) /\ Distinct(Frames(arrived))
  /\ Fresh /\ NothingOld

(* What the operations of the library and of the plug-in leave behind.     *)
BufferSet(d, e) ==
  /\ e \in UsartMembers
  /\ e.ubDrvInfo = d.ubDrvInfo /\ e.ubPhyIf = d.ubPhyIf /\ e.usart = d.usart /\ e.open = d.open
  /\ e.in = d.in /\ e.out = d.out /\ e.clUartTrmBufG = d.clUartTrmBufG /\ e.pending = d.pending
  /\ e.readList = d.readList /\ e.writeList = d.writeList
  /\ e.connected = d.connected /\ e.mode = d.mode

ReceivesStill(d, e, b, trm) ==
  ReceiveOnly(d) /\ (b # TrmBuffer => ~trm) => ReceiveOnly(e)

LEMMA BufferOfUsart == 1 \in Buffer /\ 3 \in Buffer /\ 4 \in Buffer /\ TrmBuffer = 1
                       /\ \A b \in Buffer : b \in {1, 3, 4}
BY DEF Buffer, TrmBuffer, RcvBuffer

LEMMA ConfigSets ==
  ASSUME NEW d \in UsartMembers, NEW b \in Buffer, NEW f \in Frame \cup {None},
         NEW all \in BOOLEAN, NEW ext \in BOOLEAN, NEW trm \in BOOLEAN,
         NEW e, e = CpCoreBufferConfig(d, b, f, all, ext, trm)
  PROVE  /\ BufferSet(d, e)
         /\ ReceivesStill(d, e, b, trm)
         /\ CheckParam(d) => e.atsCanMsgS[d.ubPhyIf][b]
              = [val |-> TRUE, trm |-> trm, all |-> all, ext |-> ext, msg |-> f]
<1>1. CASE ~CheckParam(d)
  BY <1>1 DEF CpCoreBufferConfig, BufferSet, ReceivesStill
<1>2. CASE CheckParam(d)
  <2> DEFINE m == [val |-> TRUE, trm |-> trm, all |-> all, ext |-> ext, msg |-> f]
             row == [d.atsCanMsgS[d.ubPhyIf] EXCEPT ![b] = m]
             table == [d.atsCanMsgS EXCEPT ![d.ubPhyIf] = row]
  <2>1. e = [d EXCEPT !.atsCanMsgS = table]
    BY <1>2 DEF CpCoreBufferConfig, UsartMembers
  <2>2. m \in BufferType /\ m.trm = trm
    BY DEF BufferType
  <2> HIDE DEF m
  <2>3. d.atsCanMsgS \in [Channel -> [Buffer -> BufferType]] /\ d.ubPhyIf \in Channel
    BY DEF UsartMembers
  <2>4. row \in [Buffer -> BufferType] /\ row[b] = m
        /\ \A c \in Buffer : c # b => row[c] = d.atsCanMsgS[d.ubPhyIf][c]
    BY <2>2, <2>3
  <2> HIDE DEF row
  <2>5. table \in [Channel -> [Buffer -> BufferType]] /\ table[d.ubPhyIf] = row
        /\ \A c \in Channel : c # d.ubPhyIf => table[c] = d.atsCanMsgS[c]
    BY <2>3, <2>4
  <2> HIDE DEF table
  <2>6. BufferSet(d, e) /\ e.atsCanMsgS = table
    BY <2>1, <2>5, ZenonT(40) DEF UsartMembers, BufferSet
  <2>7. ASSUME ReceiveOnly(d), b # TrmBuffer => ~trm
        PROVE  ReceiveOnly(e)
    BY <2>2, <2>3, <2>4, <2>5, <2>6, <2>7 DEF ReceiveOnly
  <2> QED
    BY <2>4, <2>5, <2>6, <2>7 DEF m, ReceivesStill
<1> QED
  BY <1>1, <1>2

LEMMA EmptyLists == <<>> \in Seq(Incoming) /\ <<>> \in Seq(Outgoing)
OBVIOUS

LEMMA ReceiveBufferIs ==
  ASSUME NEW d \in UsartMembers, NEW ext \in BOOLEAN, NEW e, e = RcvConfig(d, ext)
  PROVE  BufferSet(d, e) /\ (ReceiveOnly(d) => ReceiveOnly(e))
<1>1. PICK b \in Buffer : b = RcvBuffer(ext) /\ b # TrmBuffer
  BY DEF Buffer, RcvBuffer, TrmBuffer
<1>2. PICK all \in BOOLEAN : all = TRUE
  OBVIOUS
<1>3. PICK trm \in BOOLEAN : ~trm
  OBVIOUS
<1>4. PICK f \in Frame \cup {None} : f = None
  OBVIOUS
<1>5. trm = FALSE
  BY <1>3
<1>6. e = CpCoreBufferConfig(d, b, f, all, ext, trm)
  BY <1>1, <1>2, <1>4, <1>5 DEF RcvConfig
<1>7. BufferSet(d, e)
  BY <1>6, ConfigSets
<1>8. ReceivesStill(d, e, b, trm)
  BY <1>6, ConfigSets
<1> QED
  BY <1>3, <1>7, <1>8 DEF ReceivesStill

(* connect() of interface i: a driver in use, with empty lists.            *)
ConnectSet(d, e, i) ==
  /\ e \in UsartMembers /\ (ReceiveOnly(d) => ReceiveOnly(e))
  /\ CheckParam(e) /\ e.ubPhyIf = ChannelOf[i]
  /\ e.open = d.open /\ e.in = d.in /\ e.out = d.out
  /\ e.clUartTrmBufG = d.clUartTrmBufG /\ e.pending = d.pending
  /\ e.readList = <<>> /\ e.writeList = <<>>
  /\ e.connected = [d.connected EXCEPT ![i] = TRUE] /\ e.mode = d.mode

LEMMA ConnectIs ==
  ASSUME NEW d \in UsartMembers, NEW i \in Interface, NEW e, e = connect(d, i)
  PROVE  ConnectSet(d, e, i)
<1>1. ChannelOf[i] \in Channel
  BY InterfaceAssumption
<1>2. PICK d1 : d1 = CpCoreDriverInit(d, ChannelOf[i])
  OBVIOUS
<1>3. /\ d1 \in UsartMembers /\ (ReceiveOnly(d) => ReceiveOnly(d1))
      /\ CheckParam(d1) /\ d1.ubPhyIf = ChannelOf[i]
      /\ d1.open = d.open /\ d1.in = d.in /\ d1.out = d.out
      /\ d1.clUartTrmBufG = d.clUartTrmBufG /\ d1.pending = d.pending
      /\ d1.connected = d.connected /\ d1.mode = d.mode
  <2> DEFINE row == [b \in Buffer |-> ClearBuffer]
             table == [d.atsCanMsgS EXCEPT ![ChannelOf[i]] = row]
  <2>1. row \in [Buffer -> BufferType] /\ \A b \in Buffer : ~row[b].trm
    BY DEF ClearBuffer, BufferType
  <2>2. d1 = [d EXCEPT !.ubDrvInfo = "init", !.ubPhyIf = ChannelOf[i], !.atsCanMsgS = table]
    BY <1>2 DEF CpCoreDriverInit, UsartMembers
  <2> HIDE DEF row
  <2>3. table \in [Channel -> [Buffer -> BufferType]] /\ table[ChannelOf[i]] = row
        /\ \A c \in Channel : c # ChannelOf[i] => table[c] = d.atsCanMsgS[c]
    BY <1>1, <2>1 DEF UsartMembers
  <2> HIDE DEF table
  <2>4. /\ d1 \in UsartMembers /\ d1.atsCanMsgS = table
        /\ CheckParam(d1) /\ d1.ubPhyIf = ChannelOf[i]
        /\ d1.open = d.open /\ d1.in = d.in /\ d1.out = d.out
        /\ d1.clUartTrmBufG = d.clUartTrmBufG /\ d1.pending = d.pending
        /\ d1.connected = d.connected /\ d1.mode = d.mode
    BY <1>1, <2>2, <2>3 DEF UsartMembers, CheckParam
  <2>5. ReceiveOnly(d) => ReceiveOnly(d1)
    BY <2>1, <2>3, <2>4 DEF ReceiveOnly
  <2> QED
    BY <2>4, <2>5
<1>4. PICK d2 : d2 = CpCoreIntFunctions(d1)
  OBVIOUS
<1>5. /\ d2 \in UsartMembers /\ d2.atsCanMsgS = d1.atsCanMsgS /\ d2.ubDrvInfo = d1.ubDrvInfo
      /\ d2.ubPhyIf = d1.ubPhyIf /\ d2.open = d1.open /\ d2.in = d1.in /\ d2.out = d1.out
      /\ d2.clUartTrmBufG = d1.clUartTrmBufG /\ d2.pending = d1.pending
      /\ d2.connected = d1.connected /\ d2.mode = d1.mode
  BY <1>3, <1>4 DEF CpCoreIntFunctions, UsartMembers
<1>6. PICK d3 : d3 = RcvConfig(d2, FALSE)
  OBVIOUS
<1>7. BufferSet(d2, d3) /\ (ReceiveOnly(d2) => ReceiveOnly(d3))
  BY <1>5, <1>6, ReceiveBufferIs, ZenonT(40) DEF BufferSet
<1>8. PICK d4 : d4 = RcvConfig(d3, TRUE)
  OBVIOUS
<1>9. BufferSet(d3, d4) /\ (ReceiveOnly(d3) => ReceiveOnly(d4))
  <2>1. d3 \in UsartMembers
    BY <1>7 DEF BufferSet
  <2>2. PICK ext \in BOOLEAN : ext = TRUE
    OBVIOUS
  <2>3. d4 = RcvConfig(d3, ext)
    BY <1>8, <2>2
  <2> QED
    BY <2>1, <2>3, ReceiveBufferIs
<1>10. e = [d4 EXCEPT !.readList = <<>>, !.writeList = <<>>, !.connected[i] = TRUE]
  BY <1>2, <1>4, <1>6, <1>8 DEF connect
<1>11. ReceiveOnly(d) => ReceiveOnly(d4)
  BY <1>3, <1>5, <1>7, <1>9 DEF ReceiveOnly
<1>12. d4 \in UsartMembers
  BY <1>9 DEF BufferSet
<1>13. PICK table : table = [d4.connected EXCEPT ![i] = TRUE]
  OBVIOUS
<1>14. table \in [Interface -> BOOLEAN]
  BY <1>12, <1>13 DEF UsartMembers
<1>15. e = [d4 EXCEPT !.readList = <<>>, !.writeList = <<>>, !.connected = table]
  BY <1>10, <1>12, <1>13 DEF UsartMembers
<1>16. /\ e \in UsartMembers /\ e.atsCanMsgS = d4.atsCanMsgS /\ e.ubDrvInfo = d4.ubDrvInfo
       /\ e.ubPhyIf = d4.ubPhyIf /\ e.open = d4.open /\ e.in = d4.in /\ e.out = d4.out
       /\ e.clUartTrmBufG = d4.clUartTrmBufG /\ e.pending = d4.pending
       /\ e.readList = <<>> /\ e.writeList = <<>>
       /\ e.connected = table /\ e.mode = d4.mode
  BY <1>12, <1>14, <1>15, EmptyLists DEF UsartMembers
<1>17. ReceiveOnly(d) => ReceiveOnly(e)
  BY <1>11, <1>16 DEF ReceiveOnly
<1> QED
  BY <1>3, <1>5, <1>7, <1>9, <1>16, <1>17, <1>13 DEF ConnectSet, BufferSet, CheckParam

(* CpCoreBitrate() and setConfig() open the port again, with nothing in it. *)
ConfigSet(d, e, opens) ==
  /\ e \in UsartMembers /\ (ReceiveOnly(d) => ReceiveOnly(e))
  /\ e.ubDrvInfo = d.ubDrvInfo /\ e.ubPhyIf = d.ubPhyIf
  /\ e.open = opens /\ e.in = <<>> /\ e.out = <<>>
  /\ e.clUartTrmBufG = d.clUartTrmBufG /\ e.pending = d.pending
  /\ e.readList = d.readList /\ e.writeList = d.writeList
  /\ e.connected = d.connected

LEMMA ConfigIs ==
  ASSUME NEW d \in UsartMembers, NEW opens \in BOOLEAN, NEW e, e = setConfig(d, opens)
  PROVE  ConfigSet(d, e, opens)
<1>1. /\ e \in UsartMembers /\ e.atsCanMsgS = d.atsCanMsgS
      /\ e.ubDrvInfo = d.ubDrvInfo /\ e.ubPhyIf = d.ubPhyIf
      /\ e.open = opens /\ e.in = <<>> /\ e.out = <<>>
      /\ e.clUartTrmBufG = d.clUartTrmBufG /\ e.pending = d.pending
      /\ e.readList = d.readList /\ e.writeList = d.writeList
      /\ e.connected = d.connected /\ e.mode = d.mode
  BY EmptyLists DEF setConfig, UsartMembers
<1>2. ReceiveOnly(d) => ReceiveOnly(e)
  BY <1>1 DEF ReceiveOnly
<1> QED
  BY <1>1, <1>2 DEF ConfigSet

LEMMA BitrateIs ==
  ASSUME NEW d \in UsartMembers, NEW opens \in BOOLEAN, NEW e, e = CpCoreBitrate(d, opens)
  PROVE  IF CheckParam(d) THEN ConfigSet(d, e, opens) ELSE e = d
BY ConfigIs DEF CpCoreBitrate

(* setMode() *)
ModeSet(d, e) ==
  /\ e \in UsartMembers /\ e.atsCanMsgS = d.atsCanMsgS
  /\ e.ubDrvInfo = d.ubDrvInfo /\ e.ubPhyIf = d.ubPhyIf
  /\ e.open = d.open /\ e.in = d.in /\ e.out = d.out
  /\ e.clUartTrmBufG = d.clUartTrmBufG /\ e.pending = d.pending
  /\ e.readList = d.readList /\ e.writeList = d.writeList /\ e.connected = d.connected

LEMMA ModeIs ==
  ASSUME NEW d \in UsartMembers, NEW i \in Interface, NEW m \in {"stop", "start"},
         NEW e, e = setMode(d, i, m)
  PROVE  ModeSet(d, e)
<1>1. CASE e = d
  BY <1>1 DEF ModeSet
<1>2. CASE e = [d EXCEPT !.mode[i] = m]
  <2>1. PICK table : table = [d.mode EXCEPT ![i] = m]
    OBVIOUS
  <2>2. table \in [Interface -> {"stop", "start"}]
    BY <2>1 DEF UsartMembers
  <2>3. e = [d EXCEPT !.mode = table]
    BY <1>2, <2>1 DEF UsartMembers
  <2> QED
    BY <2>2, <2>3 DEF ModeSet, UsartMembers
<1> QED
  BY <1>1, <1>2 DEF setMode

(* disconnect() of interface i *)
DisconnectSet(d, e, i) ==
  /\ e \in UsartMembers /\ e.atsCanMsgS = d.atsCanMsgS
  /\ ~CheckParam(e) /\ e.ubPhyIf = d.ubPhyIf
  /\ e.open = d.open /\ e.in = d.in /\ e.out = d.out
  /\ e.clUartTrmBufG = d.clUartTrmBufG /\ e.pending = d.pending
  /\ e.readList = <<>> /\ e.writeList = <<>>
  /\ e.connected = [d.connected EXCEPT ![i] = FALSE] /\ e.mode = d.mode

LEMMA DisconnectIs ==
  ASSUME NEW d \in UsartMembers, NEW i \in Interface, CheckParam(d), NEW e, e = disconnect(d, i)
  PROVE  DisconnectSet(d, e, i)
<1>1. PICK d1 : d1 = CpCoreDriverRelease(d)
  OBVIOUS
<1>2. /\ d1 \in UsartMembers /\ d1.atsCanMsgS = d.atsCanMsgS /\ d1.ubDrvInfo = "off"
      /\ d1.ubPhyIf = d.ubPhyIf /\ d1.open = d.open /\ d1.in = d.in /\ d1.out = d.out
      /\ d1.clUartTrmBufG = d.clUartTrmBufG /\ d1.pending = d.pending
      /\ d1.connected = d.connected /\ d1.mode = d.mode
  BY <1>1 DEF CpCoreDriverRelease, UsartMembers
<1>3. e = [d1 EXCEPT !.readList = <<>>, !.writeList = <<>>, !.connected[i] = FALSE]
  BY <1>1 DEF disconnect
<1>4. PICK table : table = [d1.connected EXCEPT ![i] = FALSE]
  OBVIOUS
<1>5. table \in [Interface -> BOOLEAN]
  BY <1>2, <1>4 DEF UsartMembers
<1>6. e = [d1 EXCEPT !.readList = <<>>, !.writeList = <<>>, !.connected = table]
  BY <1>2, <1>3, <1>4 DEF UsartMembers
<1>7. /\ e \in UsartMembers /\ e.atsCanMsgS = d1.atsCanMsgS /\ e.ubDrvInfo = d1.ubDrvInfo
      /\ e.ubPhyIf = d1.ubPhyIf /\ e.open = d1.open /\ e.in = d1.in /\ e.out = d1.out
      /\ e.clUartTrmBufG = d1.clUartTrmBufG /\ e.pending = d1.pending
      /\ e.readList = <<>> /\ e.writeList = <<>>
      /\ e.connected = table /\ e.mode = d1.mode
  BY <1>2, <1>5, <1>6, EmptyLists DEF UsartMembers
<1> QED
  BY <1>2, <1>4, <1>7 DEF DisconnectSet, CheckParam

(* transmitFrame() with the flag clear and a frame in the list: the frame  *)
(* goes to the port if the driver is in use and the port is open.          *)
SentSet(d, e) ==
  /\ e \in UsartMembers /\ (ReceiveOnly(d) => ReceiveOnly(e))
  /\ e.ubDrvInfo = d.ubDrvInfo /\ e.ubPhyIf = d.ubPhyIf /\ e.open = d.open
  /\ e.in = d.in /\ e.readList = d.readList /\ e.connected = d.connected
  /\ e.pending = TRUE /\ e.writeList = Tail(d.writeList)
  /\ ~CheckParam(d) => e.out = d.out /\ e.clUartTrmBufG = d.clUartTrmBufG
  /\ CheckParam(d) => /\ e.clUartTrmBufG = Head(d.writeList)
                      /\ d.ubPhyIf = 1 => Answers(e)
                      /\ d.open => e.out = Append(d.out, Head(d.writeList))
                      /\ ~d.open => e.out = d.out
TransmitSet(d, e) ==
  \/ e = d /\ (d.pending \/ d.writeList = <<>>)
  \/ ~d.pending /\ d.writeList # <<>> /\ SentSet(d, e)

LEMMA FrameOfList ==
  ASSUME NEW d \in UsartMembers, d.writeList # <<>>
  PROVE  Head(d.writeList) \in Outgoing /\ Tail(d.writeList) \in Seq(Outgoing)
BY DEF UsartMembers

LEMMA DevWriteIs ==
  ASSUME NEW d \in UsartMembers, NEW f \in Outgoing, NEW e, e = DevWrite(d, f)
  PROVE  /\ e \in UsartMembers /\ e.atsCanMsgS = d.atsCanMsgS
         /\ e.ubDrvInfo = d.ubDrvInfo /\ e.ubPhyIf = d.ubPhyIf /\ e.open = d.open
         /\ e.in = d.in /\ e.readList = d.readList /\ e.connected = d.connected
         /\ e.pending = d.pending /\ e.writeList = d.writeList
         /\ e.clUartTrmBufG = f
         /\ d.open => e.out = Append(d.out, f)
         /\ ~d.open => e.out = d.out
<1>1. PICK out \in Seq(Outgoing) : /\ d.open => out = Append(d.out, f)
                                   /\ ~d.open => out = d.out
  <2>1. d.out \in Seq(Outgoing) /\ Append(d.out, f) \in Seq(Outgoing)
    BY DEF UsartMembers
  <2>2. CASE d.open
    BY <2>1, <2>2
  <2>3. CASE ~d.open
    BY <2>1, <2>3
  <2> QED
    BY <2>2, <2>3
<1>2. e = [d EXCEPT !.clUartTrmBufG = f, !.out = out]
  BY <1>1 DEF DevWrite, UsartMembers
<1>3. f \in Frame
  BY InterfaceAssumption
<1> QED
  BY <1>1, <1>2, <1>3, ZenonT(40) DEF UsartMembers

LEMMA TransmitIs ==
  ASSUME NEW d \in UsartMembers, NEW e, e = transmitFrame(d)
  PROVE  TransmitSet(d, e)
<1>1. CASE d.pending \/ d.writeList = <<>>
  BY <1>1 DEF transmitFrame, TransmitSet
<1>2. CASE ~(d.pending \/ d.writeList = <<>>)
  <2>1. PICK f \in Outgoing : f = Head(d.writeList)
    BY <1>2, FrameOfList
  <2>2. f \in Frame \cup {None}
    BY <2>1, InterfaceAssumption
  <2>3. PICK g : g = [d EXCEPT !.pending = TRUE, !.writeList = Tail(d.writeList)]
    OBVIOUS
  <2>4. /\ g \in UsartMembers /\ g.atsCanMsgS = d.atsCanMsgS
        /\ g.ubDrvInfo = d.ubDrvInfo /\ g.ubPhyIf = d.ubPhyIf /\ g.open = d.open
        /\ g.in = d.in /\ g.readList = d.readList /\ g.connected = d.connected
        /\ g.pending = TRUE /\ g.writeList = Tail(d.writeList)
        /\ g.out = d.out /\ g.clUartTrmBufG = d.clUartTrmBufG
    <3>1. Tail(d.writeList) \in Seq(Outgoing)
      BY <1>2, FrameOfList
    <3> QED
      BY <2>3, <3>1 DEF UsartMembers
  <2>5. PICK b \in Buffer : b = TrmBuffer
    BY DEF Buffer
  <2>6. PICK all \in BOOLEAN : all = FALSE
    OBVIOUS
  <2>7. PICK trm \in BOOLEAN : trm = TRUE
    OBVIOUS
  <2>8. PICK ext \in BOOLEAN : ext = (f \in Ext)
    <3>1. (f \in Ext) \in BOOLEAN
      OBVIOUS
    <3> QED
      BY <3>1, Zenon
  <2>9. PICK h : h = CpCoreBufferConfig(g, b, f, all, ext, trm)
    OBVIOUS
  <2>10. BufferSet(g, h)
    BY <2>2, <2>4, <2>9, ConfigSets
  <2>11. ReceivesStill(g, h, b, trm)
    <3>1. g \in UsartMembers
      BY <2>4
    <3> QED
      BY <2>2, <2>9, <3>1, ConfigSets, ZenonT(60)
  <2>12. CheckParam(g) => h.atsCanMsgS[g.ubPhyIf][b]
           = [val |-> TRUE, trm |-> trm, all |-> all, ext |-> ext, msg |-> f]
    BY <2>2, <2>4, <2>9, ConfigSets
  <2>13. e = CpCoreBufferSend(h, b)
    BY <1>2, <2>1, <2>3, <2>5, <2>6, <2>7, <2>8, <2>9 DEF transmitFrame
  <2>14. ReceiveOnly(d) => ReceiveOnly(h)
    BY <2>4, <2>5, <2>11 DEF ReceivesStill, ReceiveOnly
  <2>15. h \in UsartMembers /\ (CheckParam(h) <=> CheckParam(d))
    BY <2>4, <2>10 DEF BufferSet, CheckParam
  <2>16. CASE ~CheckParam(d)
    <3>1. e = h
      BY <2>13, <2>15, <2>16 DEF CpCoreBufferSend
    <3>2. SentSet(d, e)
      BY <2>4, <2>10, <2>14, <2>15, <2>16, <3>1 DEF SentSet, BufferSet
    <3> QED
      BY <1>2, <3>2 DEF TransmitSet
  <2>17. CASE CheckParam(d)
    <3>1. CheckParam(g)
      BY <2>4, <2>17 DEF CheckParam
    <3>2. h.ubPhyIf = g.ubPhyIf
      BY <2>10 DEF BufferSet
    <3>3. h.atsCanMsgS[h.ubPhyIf][b].msg = f
      BY <2>12, <3>1, <3>2
    <3>4. e = DevWrite(h, f)
      BY <2>13, <2>15, <2>17, <3>3 DEF CpCoreBufferSend
    <3>5. /\ e \in UsartMembers /\ e.atsCanMsgS = h.atsCanMsgS
          /\ e.ubDrvInfo = h.ubDrvInfo /\ e.ubPhyIf = h.ubPhyIf /\ e.open = h.open
          /\ e.in = h.in /\ e.readList = h.readList /\ e.connected = h.connected
          /\ e.pending = h.pending /\ e.writeList = h.writeList
          /\ e.clUartTrmBufG = f
          /\ h.open => e.out = Append(h.out, f)
          /\ ~h.open => e.out = h.out
      BY <2>15, <3>4, DevWriteIs
    <3>6. ReceiveOnly(d) => ReceiveOnly(e)
      BY <2>14, <3>5 DEF ReceiveOnly
    <3>7. d.ubPhyIf = 1 => Answers(e)
      BY <2>4, <2>5, <2>7, <2>8, <2>12, <3>1, <3>5 DEF Answers
    <3>8. SentSet(d, e)
      BY <2>1, <2>4, <2>10, <2>17, <3>5, <3>6, <3>7 DEF SentSet, BufferSet
    <3> QED
      BY <1>2, <3>8 DEF TransmitSet
  <2> QED
    BY <2>16, <2>17
<1> QED
  BY <1>1, <1>2

(* bytesWritten(): the buffer that answers for the frame clears the flag,  *)
(* and the next frame follows.                                             *)
ClearSet(d, e) ==
  /\ e \in UsartMembers /\ e.atsCanMsgS = d.atsCanMsgS
  /\ e.ubDrvInfo = d.ubDrvInfo /\ e.ubPhyIf = d.ubPhyIf
  /\ e.open = d.open /\ e.in = d.in /\ e.out = d.out
  /\ e.clUartTrmBufG = d.clUartTrmBufG /\ e.pending = FALSE
  /\ e.readList = d.readList /\ e.writeList = d.writeList /\ e.connected = d.connected

LEMMA ClearIs ==
  ASSUME NEW d \in UsartMembers, NEW e, e = [d EXCEPT !.pending = FALSE]
  PROVE  ClearSet(d, e)
BY DEF ClearSet, UsartMembers

LEMMA TrmHandlerIs ==
  ASSUME NEW d \in UsartMembers, ReceiveOnly(d), NEW e, e = CpUsart1TrmHandler(d)
  PROVE  \/ e = d /\ ~Answers(d)
         \/ \E g : ClearSet(d, g) /\ TransmitSet(g, e)
<1>1. CASE CpCanMsgFromBuffer(d, d.clUartTrmBufG, TRUE) = TrmBuffer
  <2>1. PICK g : g = [d EXCEPT !.pending = FALSE]
    OBVIOUS
  <2>2. ClearSet(d, g)
    BY <2>1, ClearIs
  <2>3. e = transmitFrame(g)
    BY <1>1, <2>1 DEF CpUsart1TrmHandler, AppCanTrmHandler
  <2>4. TransmitSet(g, e)
    BY <2>2, <2>3, TransmitIs DEF ClearSet
  <2> QED
    BY <2>2, <2>4
<1>2. CASE ~(CpCanMsgFromBuffer(d, d.clUartTrmBufG, TRUE) = TrmBuffer)
  <2>1. e = d
    BY <1>2 DEF CpUsart1TrmHandler
  <2>2. ASSUME Answers(d) PROVE FALSE
    <3> DEFINE hit == Hit(d, d.clUartTrmBufG, TRUE)
    <3>1. TrmBuffer \in Buffer /\ TrmBuffer = 1
      BY DEF Buffer, TrmBuffer
    <3>2. TrmBuffer \in hit
      BY <2>2, <3>1 DEF Answers, Hit
    <3>3. \A b \in hit : b = TrmBuffer
      <4> SUFFICES ASSUME NEW b \in hit, b # TrmBuffer PROVE FALSE
        OBVIOUS
      <4>1. b \in Buffer /\ d.atsCanMsgS[1][b].trm = TRUE
        BY DEF Hit
      <4>2. 1 \in Channel
        BY DEF Channel
      <4> QED
        BY <4>1, <4>2 DEF ReceiveOnly
    <3> HIDE DEF hit
    <3>4. (CHOOSE b \in hit : \A c \in hit : b <= c) = TrmBuffer
      <4>1. hit = {1}
        BY <3>1, <3>2, <3>3
      <4>2. (CHOOSE b \in {1} : \A c \in {1} : b <= c) = 1
        OBVIOUS
      <4> QED
        BY <3>1, <4>1, <4>2
    <3> QED
      BY <1>2, <3>2, <3>4 DEF CpCanMsgFromBuffer, hit
  <2> QED
    BY <2>1, <2>2
<1> QED
  BY <1>1, <1>2

(* readyRead(): the frame goes to the list of the plug-in, or no buffer    *)
(* takes it.                                                               *)
ReadSet(d, e, f) ==
  /\ e \in UsartMembers /\ e.atsCanMsgS = d.atsCanMsgS
  /\ e.ubDrvInfo = d.ubDrvInfo /\ e.ubPhyIf = d.ubPhyIf
  /\ e.open = d.open /\ e.in = d.in /\ e.out = d.out
  /\ e.clUartTrmBufG = d.clUartTrmBufG /\ e.pending = d.pending
  /\ e.readList = d.readList \/ e.readList = Append(d.readList, f)
  /\ e.writeList = d.writeList /\ e.connected = d.connected

LEMMA RcvHandlerIs ==
  ASSUME NEW d \in UsartMembers, NEW f \in Incoming, NEW e, e = CpUsart1RcvHandler(d, f)
  PROVE  ReadSet(d, e, f)
<1>1. CASE e = d
  BY <1>1 DEF ReadSet
<1>2. CASE e = [d EXCEPT !.readList = Append(d.readList, f)]
  <2>1. Append(d.readList, f) \in Seq(Incoming)
    BY DEF UsartMembers
  <2> QED
    BY <1>2, <2>1 DEF ReadSet, UsartMembers
<1> QED
  BY <1>1, <1>2 DEF CpUsart1RcvHandler

------------------------------------------------------------------------------
(* The steps of the USART plug-in.                                         *)
LEMMA UsartTypes ==
  ASSUME UsartInv
  PROVE  /\ u \in UsartMembers /\ ReceiveOnly(u)
         /\ wire \in Seq(Outgoing) /\ accepted \in Seq(Outgoing)
         /\ u.out \in Seq(Outgoing) /\ u.writeList \in Seq(Outgoing)
         /\ u.in \in Seq(Incoming) /\ u.readList \in Seq(Incoming)
         /\ Frames(delivered) \in Seq(Incoming) /\ Frames(arrived) \in Seq(Incoming)
         /\ Len(Frames(delivered)) = Len(delivered) /\ Len(Frames(arrived)) = Len(arrived)
         /\ u.connected \in [Interface -> BOOLEAN] /\ timers \in [Interface -> Nat]
<1>1. u \in UsartMembers /\ ReceiveOnly(u) /\ Histories
  BY DEF UsartInv
<1>2. ASSUME NEW s \in Seq([frame : Incoming, epoch : Nat])
      PROVE  Frames(s) \in Seq(Incoming) /\ Len(Frames(s)) = Len(s)
  <2>1. PICK R : R = [frame : Incoming, epoch : Nat]
    OBVIOUS
  <2>2. s \in Seq(R)
    BY <2>1
  <2>3. Len(s) \in Nat /\ DOMAIN s = 1 .. Len(s) /\ \A k \in DOMAIN s : s[k] \in R
    BY <2>2
  <2>4. \A k \in DOMAIN s : s[k].frame \in Incoming
    BY <2>1, <2>3
  <2>5. DOMAIN Frames(s) = 1 .. Len(s) /\ \A k \in 1 .. Len(s) : Frames(s)[k] \in Incoming
    BY <2>3, <2>4 DEF Frames
  <2>6. Frames(s) = [k \in 1 .. Len(s) |-> Frames(s)[k]]
    BY <2>3 DEF Frames
  <2>7. Frames(s) \in Seq(Incoming)
    BY <2>3, <2>5, <2>6
  <2> QED
    BY <2>3, <2>5, <2>7
<1> QED
  BY <1>1, <1>2 DEF UsartMembers, Histories

LEMMA NothingUnderWay ==
  ASSUME u'.out = <<>>
  PROVE  OneUnderWay'
BY DEF OneUnderWay

LEMMA NoElements == Elements(<<>>) = {}
BY DEF Elements

(* The state after connect() and CpCoreBitrate() of interface i.           *)
RenewedSet(d, e, i, opens) ==
  /\ e \in UsartMembers /\ (ReceiveOnly(d) => ReceiveOnly(e))
  /\ CheckParam(e) /\ e.ubPhyIf = ChannelOf[i] /\ e.open = opens
  /\ e.in = <<>> /\ e.out = <<>> /\ e.readList = <<>> /\ e.writeList = <<>>
  /\ e.pending = d.pending /\ e.connected = [d.connected EXCEPT ![i] = TRUE]

LEMMA RenewedIs ==
  ASSUME NEW d \in UsartMembers, NEW i \in Interface, NEW opens \in BOOLEAN,
         NEW m \in {"stop", "start"},
         NEW e, e = setMode(CpCoreBitrate(connect(d, i), opens), i, m)
  PROVE  RenewedSet(d, e, i, opens)
<1>1. PICK d1 : d1 = connect(d, i)
  OBVIOUS
<1>2. ConnectSet(d, d1, i)
  BY <1>1, ConnectIs
<1>3. d1 \in UsartMembers /\ CheckParam(d1)
  BY <1>2 DEF ConnectSet
<1>4. PICK d2 : d2 = CpCoreBitrate(d1, opens)
  OBVIOUS
<1>5. ConfigSet(d1, d2, opens)
  BY <1>3, <1>4, BitrateIs
<1>6. d2 \in UsartMembers
  BY <1>5 DEF ConfigSet
<1>7. e = setMode(d2, i, m)
  BY <1>1, <1>4
<1>8. ModeSet(d2, e)
  BY <1>6, <1>7, ModeIs
<1>9. ReceiveOnly(d2) => ReceiveOnly(e)
  BY <1>8 DEF ModeSet, ReceiveOnly
<1> QED
  BY <1>2, <1>5, <1>8, <1>9 DEF RenewedSet, ConnectSet, ConfigSet, ModeSet, CheckParam

(* A new connection: the network gets nothing that came before, and the    *)
(* pending flag is only left behind with a frame under way.                *)
LEMMA Renewal ==
  ASSUME UsartInv, NEW i \in Interface, NEW opens \in BOOLEAN, NEW d,
         RenewedSet(d, u', i, opens), ReceiveOnly(d), d.pending = u.pending,
         d.connected \in [Interface -> BOOLEAN], \A j \in Interface : d.connected[j] => j = i,
         attached' = attached \cup {i}, Poll(i), epoch' = epoch + 1,
         disturbed' \in BOOLEAN,
         ~disturbed' => ~disturbed /\ ~UnderWay /\ opens /\ ChannelOf[i] = 1,
         UNCHANGED <<seen, partly>>
  PROVE  UsartInv'
<1>1. u' \in UsartMembers /\ ReceiveOnly(u')
  BY DEF RenewedSet
<1>2. Histories'
  BY DEF UsartInv, Histories, Poll, seen
<1>3. OneUnderWay'
  BY NothingUnderWay DEF RenewedSet
<1>4. Ready'
  <2> SUFFICES ASSUME ~disturbed' PROVE InUseWell(u') /\ \A j \in attached' : ChannelOf[j] = 1
    BY DEF Ready
  <2>1. ~u.pending
    BY DEF UsartInv, Ready, InUseWell, UnderWay
  <2>2. InUseWell(u')
    BY <2>1 DEF RenewedSet, InUseWell
  <2> QED
    BY <2>2 DEF UsartInv, Ready
<1>5. Connections'
  <2>1. \A j \in Interface : u'.connected[j] => j = i
    BY DEF RenewedSet
  <2>2. timers'[i] > 0
    BY UsartTypes DEF Poll
  <2> QED
    BY <2>1, <2>2 DEF Connections, RenewedSet
<1>6. Follow(wire', u'.out, u'.writeList, accepted') /\ Distinct(accepted')
  <2>1. Follow(wire, u.out, u.writeList, accepted) /\ Distinct(accepted)
    BY DEF UsartInv
  <2>2. Follow(wire, <<>>, <<>>, accepted)
    BY <2>1, UsartTypes, FollowLess
  <2> QED
    BY <2>1, <2>2 DEF RenewedSet, seen
<1>7. Follow(Frames(delivered'), u'.readList, u'.in, Frames(arrived')) /\ Distinct(Frames(arrived'))
  <2>1. Follow(Frames(delivered), u.readList, u.in, Frames(arrived)) /\ Distinct(Frames(arrived))
    BY DEF UsartInv
  <2>2. Follow(Frames(delivered), <<>>, <<>>, Frames(arrived))
    BY <2>1, UsartTypes, FollowLess
  <2> QED
    BY <2>1, <2>2 DEF RenewedSet, seen
<1>8. Fresh'
  BY NoElements DEF Fresh, RenewedSet
<1>9. NothingOld'
  BY DEF UsartInv, NothingOld, seen
<1> QED
  BY <1>1, <1>2, <1>3, <1>4, <1>5, <1>6, <1>7, <1>8, <1>9 DEF UsartInv

(* startInterface() without the driver: nobody is connected.  With it, the *)
(* plug-in is used in a way it does not survive.                           *)
LEMMA StartStep ==
  ASSUME UsartInv, NEW i \in Interface, NEW opens \in BOOLEAN, startInterface(i, opens)
  PROVE  UsartInv'
<1>1. CASE /\ ~CheckParam(u)
           /\ u' = setMode(CpCoreBitrate(connect(u, i), opens), i, "start")
           /\ Poll(i) /\ epoch' = epoch + 1
           /\ disturbed' = (disturbed \/ UnderWay \/ ~opens \/ ChannelOf[i] # 1)
  <2>1. PICK m \in {"stop", "start"} : m = "start"
    OBVIOUS
  <2>2. u' = setMode(CpCoreBitrate(connect(u, i), opens), i, m)
    BY <1>1, <2>1
  <2>3. RenewedSet(u, u', i, opens)
    BY <2>2, UsartTypes, RenewedIs
  <2>4. \A j \in Interface : u.connected[j] => j = i
    BY <1>1 DEF UsartInv, Connections
  <2>5. attached' = attached \cup {i} /\ UNCHANGED <<seen, partly>>
    BY DEF startInterface
  <2>6. disturbed' \in BOOLEAN /\ (~disturbed' => ~disturbed /\ ~UnderWay /\ opens /\ ChannelOf[i] = 1)
    <3>1. disturbed' \in BOOLEAN
      BY <1>1, Zenon
    <3> QED
      BY <1>1, <3>1
  <2>7. Poll(i) /\ epoch' = epoch + 1
    BY <1>1
  <2>8. ReceiveOnly(u) /\ u.connected \in [Interface -> BOOLEAN]
    BY UsartTypes
  <2> QED
    BY <2>3, <2>4, <2>5, <2>6, <2>7, <2>8, Renewal
<1>2. CASE CheckParam(u) /\ opens /\ disturbed' = TRUE /\ UNCHANGED <<u, timers, epoch>>
  <2>1. attached' = attached \cup {i} /\ UNCHANGED <<seen, partly>>
    BY DEF startInterface
  <2>2. UNCHANGED <<wire, accepted, arrived, delivered, partly>>
    BY <2>1 DEF seen
  <2>3. u' \in UsartMembers /\ ReceiveOnly(u') /\ Histories'
    BY <1>2, <2>1, <2>2 DEF UsartInv, Histories
  <2>4. OneUnderWay' /\ Fresh' /\ NothingOld'
    BY <1>2, <2>2 DEF UsartInv, OneUnderWay, Fresh, NothingOld, EpochOf
  <2>5. Ready' /\ Connections'
    BY <1>2, <2>1 DEF UsartInv, Ready, Connections
  <2> QED
    BY <1>2, <2>2, <2>3, <2>4, <2>5 DEF UsartInv
<1> QED
  BY <1>1, <1>2 DEF startInterface

LEMMA ResetStep ==
  ASSUME UsartInv, NEW i \in Interface, NEW opens \in BOOLEAN, reset(i, opens)
  PROVE  UsartInv'
<1>1. u.connected[i] /\ i \in attached /\ CheckParam(u)
  BY DEF UsartInv, Connections, reset
<1>2. PICK d : d = disconnect(u, i)
  OBVIOUS
<1>3. DisconnectSet(u, d, i)
  BY <1>1, <1>2, UsartTypes, DisconnectIs
<1>4. PICK m \in {"stop", "start"} : m = u.mode[i]
  BY UsartTypes DEF UsartMembers
<1>5. u' = setMode(CpCoreBitrate(connect(d, i), opens), i, m)
  BY <1>2, <1>4 DEF reset
<1>6. d \in UsartMembers
  BY <1>3 DEF DisconnectSet
<1>7. RenewedSet(d, u', i, opens)
  BY <1>5, <1>6, RenewedIs
<1>8. ReceiveOnly(d) /\ d.pending = u.pending
  BY <1>3, UsartTypes DEF DisconnectSet, ReceiveOnly
<1>9. d.connected \in [Interface -> BOOLEAN] /\ \A j \in Interface : d.connected[j] => j = i
  BY <1>1, <1>3, UsartTypes DEF DisconnectSet, UsartInv, Connections
<1>10. attached' = attached \cup {i} /\ Poll(i) /\ epoch' = epoch + 1 /\ UNCHANGED <<seen, partly>>
  BY <1>1 DEF reset
<1>11. disturbed' \in BOOLEAN /\ (~disturbed' => ~disturbed /\ ~UnderWay /\ opens)
  <2>1. disturbed' = (disturbed \/ UnderWay \/ ~opens)
    BY DEF reset
  <2>2. disturbed' \in BOOLEAN
    BY <2>1, Zenon
  <2> QED
    BY <2>1, <2>2
<1>12. ~disturbed' => ChannelOf[i] = 1
  BY <1>1, <1>11 DEF UsartInv, Ready
<1> QED
  BY <1>7, <1>8, <1>9, <1>10, <1>11, <1>12, Renewal

(* setBitrate() and the dialog of the plug-in open the port again.         *)
LEMMA ConfigStep ==
  ASSUME UsartInv, NEW opens \in BOOLEAN, NEW d, ModeSet(u, d), ConfigSet(d, u', opens),
         disturbed' \in BOOLEAN, ~disturbed' => ~disturbed /\ ~UnderWay /\ opens,
         UNCHANGED <<attached, timers, seen, epoch, partly>>
  PROVE  UsartInv'
<1>1. /\ u' \in UsartMembers /\ u'.ubDrvInfo = u.ubDrvInfo /\ u'.ubPhyIf = u.ubPhyIf
      /\ u'.open = opens /\ u'.in = <<>> /\ u'.out = <<>> /\ u'.pending = u.pending
      /\ u'.readList = u.readList /\ u'.writeList = u.writeList /\ u'.connected = u.connected
  BY DEF ModeSet, ConfigSet
<1>2. ReceiveOnly(u')
  BY UsartTypes DEF ModeSet, ConfigSet, ReceiveOnly
<1>3. UNCHANGED <<wire, accepted, arrived, delivered>>
  BY DEF seen
<1>4. Histories'
  BY <1>3 DEF UsartInv, Histories
<1>5. OneUnderWay'
  BY <1>1, NothingUnderWay
<1>6. Ready'
  <2> SUFFICES ASSUME ~disturbed' PROVE InUseWell(u') /\ \A j \in attached' : ChannelOf[j] = 1
    BY DEF Ready
  <2>1. InUseWell(u) /\ u.out = <<>> /\ opens /\ \A j \in attached : ChannelOf[j] = 1
    BY DEF UsartInv, Ready, UnderWay
  <2>2. InUseWell(u')
    BY <1>1, <2>1 DEF InUseWell, CheckParam
  <2> QED
    BY <2>1, <2>2
<1>7. Connections'
  BY <1>1 DEF UsartInv, Connections, CheckParam
<1>8. Follow(wire', u'.out, u'.writeList, accepted') /\ Distinct(accepted')
  <2>1. Follow(wire, u.out, u.writeList, accepted) /\ Distinct(accepted)
    BY DEF UsartInv
  <2>2. Follow(wire, <<>>, u.writeList, accepted)
    BY <2>1, UsartTypes, FollowLess
  <2> QED
    BY <1>1, <1>3, <2>1, <2>2
<1>9. Follow(Frames(delivered'), u'.readList, u'.in, Frames(arrived')) /\ Distinct(Frames(arrived'))
  <2>1. Follow(Frames(delivered), u.readList, u.in, Frames(arrived)) /\ Distinct(Frames(arrived))
    BY DEF UsartInv
  <2>2. Follow(Frames(delivered), u.readList, <<>>, Frames(arrived))
    BY <2>1, UsartTypes, FollowLess
  <2> QED
    BY <1>1, <1>3, <2>1, <2>2
<1>10. Fresh'
  BY <1>1, <1>3, NoElements DEF UsartInv, Fresh, EpochOf
<1>11. NothingOld'
  BY <1>3 DEF UsartInv, NothingOld
<1> QED
  BY <1>1, <1>2, <1>4, <1>5, <1>6, <1>7, <1>8, <1>9, <1>10, <1>11 DEF UsartInv

(* Without the driver, setBitrate() opens nothing.                         *)
LEMMA ModeStep ==
  ASSUME UsartInv, ModeSet(u, u'), disturbed' \in BOOLEAN, ~disturbed' => ~disturbed,
         UNCHANGED <<attached, timers, seen, epoch, partly>>
  PROVE  UsartInv'
<1>1. /\ u' \in UsartMembers /\ u'.atsCanMsgS = u.atsCanMsgS /\ u'.ubDrvInfo = u.ubDrvInfo
      /\ u'.ubPhyIf = u.ubPhyIf /\ u'.open = u.open /\ u'.in = u.in /\ u'.out = u.out
      /\ u'.clUartTrmBufG = u.clUartTrmBufG /\ u'.pending = u.pending
      /\ u'.readList = u.readList /\ u'.writeList = u.writeList /\ u'.connected = u.connected
  BY DEF ModeSet
<1>2. UNCHANGED <<wire, accepted, arrived, delivered>>
  BY DEF seen
<1>3. ReceiveOnly(u') /\ Histories'
  BY <1>1, <1>2 DEF UsartInv, Histories, ReceiveOnly
<1>4. OneUnderWay' /\ Connections'
  BY <1>1 DEF UsartInv, OneUnderWay, Connections, CheckParam
<1>5. Ready'
  BY <1>1 DEF UsartInv, Ready, InUseWell, Answers, CheckParam
<1>6. Fresh' /\ NothingOld'
  BY <1>1, <1>2 DEF UsartInv, Fresh, EpochOf, NothingOld
<1> QED
  BY <1>1, <1>2, <1>3, <1>4, <1>5, <1>6 DEF UsartInv

LEMMA BitrateStep ==
  ASSUME UsartInv, NEW i \in Interface, NEW opens \in BOOLEAN, setBitrate(i, opens)
  PROVE  UsartInv'
<1>1. PICK m \in {"stop", "start"} : m = "start"
  OBVIOUS
<1>2. PICK n \in {"stop", "start"} : n = "stop"
  OBVIOUS
<1>3. PICK d : d = setMode(u, i, n)
  OBVIOUS
<1>4. ModeSet(u, d)
  BY <1>3, UsartTypes, ModeIs
<1>5. PICK e : e = CpCoreBitrate(d, opens)
  OBVIOUS
<1>6. u' = setMode(e, i, m)
  BY <1>1, <1>2, <1>3, <1>5 DEF setBitrate
<1>7. d \in UsartMembers
  BY <1>4 DEF ModeSet
<1>8. IF CheckParam(d) THEN ConfigSet(d, e, opens) ELSE e = d
  BY <1>5, <1>7, BitrateIs
<1>9. e \in UsartMembers
  BY <1>7, <1>8 DEF ConfigSet
<1>10. ModeSet(e, u')
  BY <1>6, <1>9, ModeIs
<1>11. UNCHANGED <<attached, timers, seen, epoch, partly>>
  BY DEF setBitrate
<1>12. disturbed' \in BOOLEAN /\ (~disturbed' => ~disturbed /\ ~UnderWay /\ opens)
  <2>1. disturbed' = (disturbed \/ UnderWay \/ ~opens)
    BY DEF setBitrate
  <2>2. disturbed' \in BOOLEAN
    BY <2>1, Zenon
  <2> QED
    BY <2>1, <2>2
<1>13. CASE CheckParam(d)
  <2>1. ConfigSet(d, u', opens)
    <3>1. ConfigSet(d, e, opens)
      BY <1>8, <1>13
    <3>2. ReceiveOnly(e) => ReceiveOnly(u')
      BY <1>10 DEF ModeSet, ReceiveOnly
    <3>3. ReceiveOnly(d) => ReceiveOnly(u')
      BY <3>1, <3>2 DEF ConfigSet
    <3>4. /\ u' \in UsartMembers /\ u'.ubDrvInfo = e.ubDrvInfo /\ u'.ubPhyIf = e.ubPhyIf
          /\ u'.open = e.open /\ u'.in = e.in /\ u'.out = e.out
          /\ u'.clUartTrmBufG = e.clUartTrmBufG /\ u'.pending = e.pending
          /\ u'.readList = e.readList /\ u'.writeList = e.writeList /\ u'.connected = e.connected
      BY <1>10 DEF ModeSet
    <3> QED
      BY <3>1, <3>3, <3>4 DEF ConfigSet
  <2> QED
    BY <1>4, <1>11, <1>12, <2>1, ConfigStep
<1>14. CASE ~CheckParam(d)
  <2>1. ModeSet(u, u')
    BY <1>4, <1>8, <1>10, <1>14 DEF ModeSet
  <2> QED
    BY <1>11, <1>12, <2>1, ModeStep
<1> QED
  BY <1>13, <1>14

LEMMA ConfigureStep ==
  ASSUME UsartInv, NEW i \in Interface, NEW opens \in BOOLEAN, configureDevice(i, opens)
  PROVE  UsartInv'
<1>1. ModeSet(u, u)
  BY UsartTypes DEF ModeSet
<1>2. ConfigSet(u, u', opens)
  BY UsartTypes, ConfigIs DEF configureDevice
<1>3. UNCHANGED <<attached, timers, seen, epoch, partly>>
  BY DEF configureDevice
<1>4. disturbed' \in BOOLEAN /\ (~disturbed' => ~disturbed /\ ~UnderWay /\ opens)
  <2>1. disturbed' = (disturbed \/ UnderWay \/ ~opens)
    BY DEF configureDevice
  <2>2. disturbed' \in BOOLEAN
    BY <2>1, Zenon
  <2> QED
    BY <2>1, <2>2
<1> QED
  BY <1>1, <1>2, <1>3, <1>4, ConfigStep

(* stopInterface(): the lists are emptied, the port keeps what it has, and *)
(* its buffer still answers.                                               *)
LEMMA StopStep ==
  ASSUME UsartInv, NEW i \in Interface, stopInterface(i)
  PROVE  UsartInv'
<1>1. PICK m \in {"stop", "start"} : m = "stop"
  OBVIOUS
<1>2. PICK d : d = setMode(u, i, m)
  OBVIOUS
<1>3. ModeSet(u, d)
  BY <1>2, UsartTypes, ModeIs
<1>4. UNCHANGED <<timers, wire, accepted, arrived, delivered, epoch, partly, disturbed>>
      /\ attached' = attached \ {i}
  BY DEF stopInterface, seen
<1>5. Histories'
  BY <1>4 DEF UsartInv, Histories
<1>6. NothingOld'
  BY <1>4 DEF UsartInv, NothingOld
<1>7. Follow(wire, u.out, u.writeList, accepted) /\ Distinct(accepted)
  BY DEF UsartInv
<1>8. Follow(Frames(delivered), u.readList, u.in, Frames(arrived)) /\ Distinct(Frames(arrived))
  BY DEF UsartInv
<1>9. CASE ~u.connected[i]
  <2>1. u' = d
    BY <1>1, <1>2, <1>9 DEF stopInterface
  <2>2. /\ u' \in UsartMembers /\ u'.atsCanMsgS = u.atsCanMsgS /\ u'.ubDrvInfo = u.ubDrvInfo
        /\ u'.ubPhyIf = u.ubPhyIf /\ u'.open = u.open /\ u'.in = u.in /\ u'.out = u.out
        /\ u'.clUartTrmBufG = u.clUartTrmBufG /\ u'.pending = u.pending
        /\ u'.readList = u.readList /\ u'.writeList = u.writeList /\ u'.connected = u.connected
    BY <1>3, <2>1 DEF ModeSet
  <2>3. ReceiveOnly(u') /\ OneUnderWay' /\ Fresh'
    BY <1>4, <2>2 DEF UsartInv, ReceiveOnly, OneUnderWay, Fresh, EpochOf
  <2>4. Ready'
    BY <1>4, <2>2 DEF UsartInv, Ready, InUseWell, Answers, CheckParam
  <2>5. Connections'
    BY <1>4, <1>9, <2>2 DEF UsartInv, Connections, CheckParam
  <2> QED
    BY <1>4, <1>5, <1>6, <1>7, <1>8, <2>2, <2>3, <2>4, <2>5 DEF UsartInv
<1>10. CASE u.connected[i]
  <2>1. u' = disconnect(d, i)
    BY <1>1, <1>2, <1>10 DEF stopInterface
  <2>2. d \in UsartMembers /\ CheckParam(d)
    BY <1>3, <1>10 DEF ModeSet, UsartInv, Connections, CheckParam
  <2>3. DisconnectSet(d, u', i)
    BY <2>1, <2>2, DisconnectIs
  <2>4. /\ u' \in UsartMembers /\ u'.atsCanMsgS = u.atsCanMsgS /\ ~CheckParam(u')
        /\ u'.open = u.open /\ u'.in = u.in /\ u'.out = u.out
        /\ u'.clUartTrmBufG = u.clUartTrmBufG /\ u'.pending = u.pending
        /\ u'.readList = <<>> /\ u'.writeList = <<>>
        /\ u'.connected = [u.connected EXCEPT ![i] = FALSE]
    BY <1>3, <2>3 DEF ModeSet, DisconnectSet
  <2>5. ReceiveOnly(u') /\ OneUnderWay' /\ Fresh'
    BY <1>4, <2>4, NoElements DEF UsartInv, ReceiveOnly, OneUnderWay, Fresh, EpochOf
  <2>6. Ready'
    BY <1>4, <2>4 DEF UsartInv, Ready, InUseWell, Answers
  <2>7. \A j \in Interface : ~u'.connected[j]
    BY <1>10, <2>4, UsartTypes DEF UsartInv, Connections
  <2>8. Connections'
    BY <2>7 DEF Connections
  <2>9. Follow(wire, u.out, <<>>, accepted)
    BY <1>7, UsartTypes, FollowLess
  <2>10. Follow(Frames(delivered), <<>>, u.in, Frames(arrived))
    BY <1>8, UsartTypes, FollowLess
  <2> QED
    BY <1>4, <1>5, <1>6, <1>7, <1>8, <2>4, <2>5, <2>6, <2>8, <2>9, <2>10 DEF UsartInv
<1> QED
  BY <1>9, <1>10

(* The frame at the head of the list, or nothing, goes to the port.        *)
LEMMA TransmitFollows ==
  ASSUME NEW d \in UsartMembers, NEW e, TransmitSet(d, e), NEW s \in Seq(Outgoing), NEW t,
         Follow(s, d.out, d.writeList, t)
  PROVE  Follow(s, e.out, e.writeList, t)
<1>1. d.out \in Seq(Outgoing) /\ d.writeList \in Seq(Outgoing)
  BY DEF UsartMembers
<1>2. CASE e = d
  BY <1>2
<1>3. CASE d.writeList # <<>> /\ SentSet(d, e)
  <2>1. Follow(s, Append(d.out, Head(d.writeList)), Tail(d.writeList), t)
    BY <1>1, <1>3, FollowMoves
  <2>2. Follow(s, d.out, Tail(d.writeList), t)
    BY <1>1, <1>3, FollowLess
  <2>3. e.writeList = Tail(d.writeList)
        /\ (e.out = d.out \/ e.out = Append(d.out, Head(d.writeList)))
    BY <1>3 DEF SentSet
  <2> QED
    BY <2>1, <2>2, <2>3
<1> QED
  BY <1>2, <1>3 DEF TransmitSet

(* With the flag clear, the port is empty unless bytesWritten() came early, *)
(* and then it holds one frame, that of the buffer.                        *)
LEMMA TransmitOne ==
  ASSUME NEW d \in UsartMembers, NEW e, TransmitSet(d, e), ~d.pending, d.out = <<>>
  PROVE  /\ Len(e.out) <= 1
         /\ e.out # <<>> => e.pending /\ e.clUartTrmBufG = Head(e.out)
<1>1. CASE e = d
  BY <1>1
<1>2. CASE d.writeList # <<>> /\ SentSet(d, e)
  <2>1. Head(d.writeList) \in Outgoing
    BY <1>2, FrameOfList
  <2>2. CASE CheckParam(d) /\ d.open
    <3>1. e.out = Append(<<>>, Head(d.writeList)) /\ e.pending = TRUE
          /\ e.clUartTrmBufG = Head(d.writeList)
      BY <1>2, <2>2 DEF SentSet
    <3> QED
      BY <2>1, <3>1
  <2>3. CASE ~(CheckParam(d) /\ d.open)
    <3>1. e.out = <<>>
      BY <1>2, <2>3 DEF SentSet
    <3> QED
      BY <3>1
  <2> QED
    BY <2>2, <2>3
<1> QED
  BY <1>1, <1>2 DEF TransmitSet

LEMMA TransmitWell ==
  ASSUME NEW d \in UsartMembers, NEW e, TransmitSet(d, e), InUseWell(d)
  PROVE  InUseWell(e)
<1>1. CASE e = d
  BY <1>1
<1>2. CASE d.writeList # <<>> /\ SentSet(d, e)
  <2>1. CheckParam(d) /\ d.open /\ d.ubPhyIf = 1
    BY <1>2 DEF InUseWell
  <2>2. Answers(e) /\ CheckParam(e) /\ e.open /\ e.ubPhyIf = 1
        /\ e.out = Append(d.out, Head(d.writeList))
    BY <1>2, <2>1 DEF SentSet, CheckParam
  <2>3. e.out # <<>>
    <3>1. d.out \in Seq(Outgoing) /\ Head(d.writeList) \in Outgoing
      BY <1>2, FrameOfList DEF UsartMembers
    <3> QED
      BY <2>2, <3>1
  <2> QED
    BY <2>2, <2>3 DEF InUseWell
<1> QED
  BY <1>1, <1>2 DEF TransmitSet

LEMMA TransmitKeeps ==
  ASSUME NEW d \in UsartMembers, NEW e, TransmitSet(d, e)
  PROVE  /\ e \in UsartMembers /\ (ReceiveOnly(d) => ReceiveOnly(e))
         /\ e.ubDrvInfo = d.ubDrvInfo /\ e.in = d.in /\ e.readList = d.readList
         /\ e.connected = d.connected
<1>1. CASE e = d
  BY <1>1
<1>2. CASE SentSet(d, e)
  BY <1>2 DEF SentSet
<1> QED
  BY <1>1, <1>2 DEF TransmitSet

(* write() of a frame that none of them has accepted yet.                  *)
LEMMA WriteStep ==
  ASSUME UsartInv, NEW i \in Interface, NEW f \in Outgoing, write(i, f)
  PROVE  UsartInv'
<1>1. PICK d : d = [u EXCEPT !.writeList = Append(u.writeList, f)]
  OBVIOUS
<1>2. /\ d \in UsartMembers /\ d.atsCanMsgS = u.atsCanMsgS /\ d.ubDrvInfo = u.ubDrvInfo
      /\ d.ubPhyIf = u.ubPhyIf /\ d.open = u.open /\ d.in = u.in /\ d.out = u.out
      /\ d.clUartTrmBufG = u.clUartTrmBufG /\ d.pending = u.pending /\ d.readList = u.readList
      /\ d.writeList = Append(u.writeList, f) /\ d.connected = u.connected
  <2>1. Append(u.writeList, f) \in Seq(Outgoing)
    BY UsartTypes
  <2> QED
    BY <1>1, <2>1, UsartTypes DEF UsartMembers
<1>3. u' = transmitFrame(d)
  BY <1>1, UsartTypes DEF write, UsartMembers
<1>4. TransmitSet(d, u')
  BY <1>2, <1>3, TransmitIs
<1>5. /\ u' \in UsartMembers /\ (ReceiveOnly(d) => ReceiveOnly(u'))
      /\ u'.ubDrvInfo = d.ubDrvInfo /\ u'.in = d.in /\ u'.readList = d.readList
      /\ u'.connected = d.connected
  BY <1>2, <1>4, TransmitKeeps
<1>6. UNCHANGED <<attached, timers, wire, arrived, delivered, epoch, partly>>
      /\ accepted' = Append(accepted, f) /\ disturbed' = (disturbed \/ ~u.connected[i])
      /\ f \notin Elements(accepted)
  BY DEF write
<1>7. disturbed' \in BOOLEAN /\ (~disturbed' => ~disturbed /\ u.connected[i])
  <2>1. disturbed' \in BOOLEAN
    BY <1>6, Zenon
  <2> QED
    BY <1>6, <2>1
<1>8. ReceiveOnly(u') /\ Histories'
  <2>1. accepted' \in Seq(Outgoing)
    BY <1>6, UsartTypes
  <2>2. ReceiveOnly(u')
    BY <1>2, <1>5, UsartTypes DEF ReceiveOnly
  <2> QED
    BY <1>6, <1>7, <2>1, <2>2 DEF UsartInv, Histories
<1>9. OneUnderWay'
  <2> SUFFICES ASSUME ~partly
               PROVE  /\ Len(u'.out) <= 1
                      /\ u'.out # <<>> => u'.pending /\ u'.clUartTrmBufG = Head(u'.out)
    BY <1>6 DEF OneUnderWay
  <2>1. Len(d.out) <= 1 /\ (d.out # <<>> => d.pending /\ d.clUartTrmBufG = Head(d.out))
    BY <1>2 DEF UsartInv, OneUnderWay
  <2>2. CASE u' = d
    BY <2>1, <2>2
  <2>3. CASE ~d.pending
    BY <1>2, <1>4, <2>1, <2>3, TransmitOne
  <2> QED
    BY <1>4, <2>2, <2>3 DEF TransmitSet
<1>10. Ready'
  <2> SUFFICES ASSUME ~disturbed' PROVE InUseWell(u') /\ \A j \in attached' : ChannelOf[j] = 1
    BY DEF Ready
  <2>1. InUseWell(u) /\ CheckParam(u) /\ \A j \in attached : ChannelOf[j] = 1
    BY <1>7 DEF UsartInv, Ready, Connections
  <2>2. InUseWell(d)
    BY <1>2, <2>1 DEF InUseWell, Answers, CheckParam
  <2>3. InUseWell(u')
    BY <1>2, <1>4, <2>2, TransmitWell
  <2> QED
    BY <1>6, <2>1, <2>3
<1>11. Connections'
  BY <1>2, <1>5, <1>6 DEF UsartInv, Connections, CheckParam
<1>12. Follow(wire', u'.out, u'.writeList, accepted') /\ Distinct(accepted')
  <2>1. PICK new : new = <<f>>
    OBVIOUS
  <2>2. new \in Seq(Outgoing) /\ Len(new) = 1 /\ new[1] = f
    BY <2>1, UsartTypes, OneFrame
  <2>3. Distinct(new) /\ Elements(new) \cap Elements(accepted) = {}
    BY <1>6, <2>2 DEF Distinct, Elements
  <2>4. Follow(wire, u.out, u.writeList, accepted) /\ NewTo(new, accepted)
    BY <2>3 DEF UsartInv, NewTo
  <2>5. Distinct(accepted \o new) /\ Follow(wire, u.out, u.writeList \o new, accepted \o new)
    <3>1. PICK a, b, d1 : a = wire /\ b = u.out /\ d1 = u.writeList
      OBVIOUS
    <3>2. PICK h : h = accepted \o new
      OBVIOUS
    <3>3. a \in Seq(Outgoing) /\ b \in Seq(Outgoing) /\ d1 \in Seq(Outgoing)
          /\ accepted \in Seq(Outgoing) /\ Follow(a, b, d1, accepted)
      BY <2>4, <3>1, UsartTypes
    <3>4. FollowedBy(a, b, d1, accepted, new, h)
      BY <2>2, <2>4, <3>2, <3>3, FollowMore
    <3> QED
      BY <3>1, <3>2, <3>4 DEF FollowedBy
  <2>6. accepted \o new = Append(accepted, f) /\ u.writeList \o new = Append(u.writeList, f)
    BY <2>1, UsartTypes, OneFrame
  <2>7. Follow(wire, d.out, d.writeList, accepted')
    BY <1>2, <1>6, <2>5, <2>6
  <2>8. Follow(wire, u'.out, u'.writeList, accepted')
    BY <1>2, <1>4, <2>7, UsartTypes, TransmitFollows
  <2> QED
    BY <1>6, <2>5, <2>6, <2>8
<1>13. Follow(Frames(delivered'), u'.readList, u'.in, Frames(arrived')) /\ Distinct(Frames(arrived'))
  BY <1>2, <1>5, <1>6 DEF UsartInv
<1>14. Fresh' /\ NothingOld'
  BY <1>2, <1>5, <1>6 DEF UsartInv, Fresh, EpochOf, NothingOld
<1> QED
  BY <1>5, <1>8, <1>9, <1>10, <1>11, <1>12, <1>13, <1>14 DEF UsartInv

(* bytesWritten() of the serial port, for a whole frame or for a part.     *)
LEMMA BytesStep ==
  ASSUME UsartInv, NEW complete \in BOOLEAN, onBytesWritten(complete)
  PROVE  UsartInv'
<1>1. u.out # <<>> /\ (complete \/ ~partly)
      /\ UNCHANGED <<attached, timers, accepted, arrived, delivered, epoch, disturbed>>
  BY DEF onBytesWritten
<1>2. Head(u.out) \in Outgoing /\ Tail(u.out) \in Seq(Outgoing)
  BY <1>1, UsartTypes
<1>3. PICK out \in Seq(Outgoing) : out = IF complete THEN Tail(u.out) ELSE u.out
  <2>1. CASE complete
    BY <1>2, <2>1
  <2>2. CASE ~complete
    BY <2>2, UsartTypes
  <2> QED
    BY <2>1, <2>2
<1>4. PICK d : d = [u EXCEPT !.out = out]
  OBVIOUS
<1>5. /\ d \in UsartMembers /\ d.atsCanMsgS = u.atsCanMsgS /\ d.ubDrvInfo = u.ubDrvInfo
      /\ d.ubPhyIf = u.ubPhyIf /\ d.open = u.open /\ d.in = u.in /\ d.out = out
      /\ d.clUartTrmBufG = u.clUartTrmBufG /\ d.pending = u.pending /\ d.readList = u.readList
      /\ d.writeList = u.writeList /\ d.connected = u.connected
  BY <1>4, UsartTypes DEF UsartMembers
<1>6. u' = CpUsart1TrmHandler(d)
  BY <1>3, <1>4, UsartTypes DEF onBytesWritten, UsartMembers
<1>7. ReceiveOnly(d)
  BY <1>5, UsartTypes DEF ReceiveOnly
<1>8. \/ u' = d /\ ~Answers(d)
      \/ \E g : ClearSet(d, g) /\ TransmitSet(g, u')
  BY <1>5, <1>6, <1>7, TrmHandlerIs
<1>9. /\ wire' \in Seq(Outgoing) /\ Follow(wire', d.out, d.writeList, accepted)
      /\ partly' \in BOOLEAN /\ (~partly' => ~partly /\ complete)
  <2>1. Follow(wire, u.out, u.writeList, accepted)
    BY DEF UsartInv
  <2>2. partly' = (partly \/ ~complete) /\ wire' = IF complete THEN Append(wire, Head(u.out)) ELSE wire
    BY DEF onBytesWritten
  <2>3. partly' \in BOOLEAN
    BY <2>2, Zenon
  <2>4. ~partly' => ~partly /\ complete
    BY <2>2
  <2>5. CASE complete
    <3>1. Follow(Append(wire, Head(u.out)), Tail(u.out), u.writeList, accepted)
      BY <1>1, <2>1, UsartTypes, FollowMoves
    <3>2. wire' = Append(wire, Head(u.out)) /\ d.out = Tail(u.out) /\ d.writeList = u.writeList
      BY <1>3, <1>5, <2>2, <2>5
    <3>3. wire' \in Seq(Outgoing)
      BY <1>2, <3>2, UsartTypes
    <3> QED
      BY <2>3, <2>4, <3>1, <3>2, <3>3
  <2>6. CASE ~complete
    <3>1. wire' = wire /\ d.out = u.out /\ d.writeList = u.writeList
      BY <1>3, <1>5, <2>2, <2>6
    <3> QED
      BY <2>1, <2>3, <2>4, <3>1, UsartTypes
  <2> QED
    BY <2>5, <2>6
<1>10. Histories'
  BY <1>1, <1>9 DEF UsartInv, Histories
<1>11. ~partly => Len(u.out) <= 1
  BY DEF UsartInv, OneUnderWay
<1>12. ~partly' => d.out = <<>>
  <2> SUFFICES ASSUME ~partly' PROVE d.out = <<>>
    OBVIOUS
  <2>1. Len(u.out) <= 1 /\ d.out = Tail(u.out)
    BY <1>3, <1>5, <1>9, <1>11
  <2> QED
    BY <1>1, <2>1, UsartTypes
<1>13. NothingOld'
  BY <1>1 DEF UsartInv, NothingOld
<1>14. /\ Distinct(accepted) /\ Distinct(Frames(arrived))
       /\ Follow(Frames(delivered), u.readList, u.in, Frames(arrived))
  BY DEF UsartInv
<1>15. CASE u' = d /\ ~Answers(d)
  <2>1. OneUnderWay'
    <3> SUFFICES ASSUME ~partly' PROVE u'.out = <<>>
      BY NothingUnderWay DEF OneUnderWay
    <3> QED
      BY <1>12, <1>15
  <2>2. Ready'
    <3> SUFFICES ASSUME ~disturbed PROVE FALSE
      BY <1>1 DEF Ready
    <3>1. Answers(u)
      BY <1>1 DEF UsartInv, Ready, InUseWell
    <3> QED
      BY <1>5, <1>15, <3>1 DEF Answers
  <2>3. Connections'
    BY <1>1, <1>5, <1>15 DEF UsartInv, Connections, CheckParam
  <2>4. Fresh'
    BY <1>1, <1>5, <1>15 DEF UsartInv, Fresh, EpochOf
  <2> QED
    BY <1>1, <1>5, <1>7, <1>9, <1>10, <1>13, <1>14, <1>15, <2>1, <2>2, <2>3, <2>4 DEF UsartInv
<1>16. ASSUME NEW g, ClearSet(d, g), TransmitSet(g, u')
       PROVE  UsartInv'
  <2>1. /\ g \in UsartMembers /\ g.atsCanMsgS = u.atsCanMsgS /\ g.ubDrvInfo = u.ubDrvInfo
        /\ g.ubPhyIf = u.ubPhyIf /\ g.open = u.open /\ g.in = u.in /\ g.out = d.out
        /\ g.clUartTrmBufG = u.clUartTrmBufG /\ g.pending = FALSE /\ g.readList = u.readList
        /\ g.writeList = d.writeList /\ g.writeList = u.writeList /\ g.connected = u.connected
    BY <1>5, <1>16 DEF ClearSet
  <2>2. /\ u' \in UsartMembers /\ (ReceiveOnly(g) => ReceiveOnly(u'))
        /\ u'.ubDrvInfo = g.ubDrvInfo /\ u'.in = g.in /\ u'.readList = g.readList
        /\ u'.connected = g.connected
    BY <1>16, <2>1, TransmitKeeps
  <2>3. ReceiveOnly(u')
    BY <2>1, <2>2, UsartTypes DEF ReceiveOnly
  <2>4. OneUnderWay'
    <3> SUFFICES ASSUME ~partly'
                 PROVE  /\ Len(u'.out) <= 1
                        /\ u'.out # <<>> => u'.pending /\ u'.clUartTrmBufG = Head(u'.out)
      BY DEF OneUnderWay
    <3>1. g.out = <<>> /\ ~g.pending
      BY <1>12, <2>1
    <3> QED
      BY <1>16, <2>1, <3>1, TransmitOne
  <2>5. Ready'
    <3> SUFFICES ASSUME ~disturbed PROVE InUseWell(u') /\ \A i \in attached : ChannelOf[i] = 1
      BY <1>1 DEF Ready
    <3>1. InUseWell(u) /\ \A i \in attached : ChannelOf[i] = 1
      BY DEF UsartInv, Ready
    <3>2. Answers(g)
      BY <1>1, <2>1, <3>1 DEF InUseWell, Answers
    <3>3. InUseWell(g)
      BY <2>1, <3>1, <3>2 DEF InUseWell, CheckParam
    <3>4. InUseWell(u')
      BY <1>16, <2>1, <3>3, TransmitWell
    <3> QED
      BY <3>1, <3>4
  <2>6. Connections'
    BY <1>1, <2>1, <2>2 DEF UsartInv, Connections, CheckParam
  <2>7. Fresh'
    BY <1>1, <2>1, <2>2 DEF UsartInv, Fresh, EpochOf
  <2>8. Follow(wire', g.out, g.writeList, accepted)
    BY <1>9, <2>1
  <2>9. Follow(wire', u'.out, u'.writeList, accepted)
    BY <1>9, <1>16, <2>1, <2>8, TransmitFollows
  <2> QED
    BY <1>1, <1>10, <1>13, <1>14, <2>1, <2>2, <2>3, <2>4, <2>5, <2>6, <2>7, <2>9 DEF UsartInv
<1> QED
  BY <1>8, <1>15, <1>16

Records == [frame : Incoming, epoch : Nat]

(* Frames in their epoch, appended to a history.                           *)
Stamped(fs) == [k \in DOMAIN fs |-> [frame |-> fs[k], epoch |-> epoch]]
LEMMA FramesMore ==
  ASSUME NEW s \in Seq(Records), NEW fs \in Seq(Incoming), epoch \in Nat
  PROVE  /\ s \o Stamped(fs) \in Seq(Records)
         /\ Frames(s \o Stamped(fs)) = Frames(s) \o fs
         /\ \A k \in DOMAIN s : (s \o Stamped(fs))[k] = s[k]
         /\ \A k \in DOMAIN fs : (s \o Stamped(fs))[Len(s) + k].epoch = epoch
         /\ Len(Frames(s)) = Len(s) /\ Frames(s) \in Seq(Incoming)
<1> DEFINE w == Stamped(fs)
<1>1. Len(fs) \in Nat /\ DOMAIN fs = 1 .. Len(fs) /\ \A k \in 1 .. Len(fs) : fs[k] \in Incoming
  OBVIOUS
<1>2. \A k \in 1 .. Len(fs) : [frame |-> fs[k], epoch |-> epoch] \in Records
  BY <1>1 DEF Records
<1>3. w \in Seq(Records) /\ Len(w) = Len(fs)
      /\ \A k \in 1 .. Len(fs) : w[k].frame = fs[k] /\ w[k].epoch = epoch
  <2>1. w = [k \in 1 .. Len(fs) |-> [frame |-> fs[k], epoch |-> epoch]]
    BY <1>1 DEF Stamped
  <2> QED
    BY <1>1, <1>2, <2>1
<1> HIDE DEF w
<1>4. Len(s) \in Nat /\ DOMAIN s = 1 .. Len(s) /\ \A k \in DOMAIN s : s[k] \in Records
  OBVIOUS
<1>5. PICK h : h = s \o w
  OBVIOUS
<1>6. /\ h \in Seq(Records) /\ Len(h) = Len(s) + Len(fs) /\ DOMAIN h = 1 .. Len(s) + Len(fs)
      /\ \A k \in 1 .. Len(s) : h[k] = s[k]
      /\ \A k \in 1 .. Len(fs) : h[Len(s) + k] = w[k]
      /\ \A k \in DOMAIN h : k \in 1 .. Len(s) \/ k - Len(s) \in 1 .. Len(fs)
  <2>1. h \in Seq(Records) /\ Len(h) = Len(s) + Len(w) /\ DOMAIN h = 1 .. Len(h)
    BY <1>3, <1>5
  <2>2. \A k \in 1 .. Len(s) : h[k] = s[k]
    BY <1>3, <1>4, <1>5
  <2>3. \A k \in 1 .. Len(w) : h[Len(s) + k] = w[k]
    BY <1>3, <1>4, <1>5
  <2>4. \A k \in DOMAIN h : k \in 1 .. Len(s) \/ k - Len(s) \in 1 .. Len(fs)
    BY <1>1, <1>3, <1>4, <2>1
  <2> QED
    BY <1>3, <2>1, <2>2, <2>3, <2>4
<1>7. ASSUME NEW r \in Seq(Records) PROVE Frames(r) \in Seq(Incoming) /\ Len(Frames(r)) = Len(r)
  <2>1. Len(r) \in Nat /\ DOMAIN r = 1 .. Len(r) /\ \A k \in DOMAIN r : r[k] \in Records
    OBVIOUS
  <2>2. \A k \in DOMAIN r : r[k].frame \in Incoming
    BY <2>1 DEF Records
  <2>3. Frames(r) = [k \in 1 .. Len(r) |-> r[k].frame]
    BY <2>1 DEF Frames
  <2> QED
    BY <2>1, <2>2, <2>3
<1>8. Frames(h) = Frames(s) \o fs
  <2>1. Frames(h) \in Seq(Incoming) /\ Len(Frames(h)) = Len(h)
    BY <1>6, <1>7
  <2>2. Frames(s) \in Seq(Incoming) /\ Len(Frames(s)) = Len(s)
    BY <1>7
  <2>3. PICK q : q = Frames(s) \o fs
    OBVIOUS
  <2>4. PICK b : b = Frames(s)
    OBVIOUS
  <2>5. /\ q \in Seq(Incoming) /\ Len(q) = Len(s) + Len(fs)
        /\ \A k \in 1 .. Len(s) : q[k] = b[k]
        /\ \A k \in 1 .. Len(fs) : q[Len(s) + k] = fs[k]
    BY <1>1, <1>4, <2>2, <2>3, <2>4
  <2>6. ASSUME NEW k \in 1 .. Len(h) PROVE Frames(h)[k] = q[k]
    <3>1. Frames(h)[k] = h[k].frame
      BY <1>6 DEF Frames
    <3>2. CASE k \in 1 .. Len(s)
      <4>1. h[k] = s[k] /\ q[k] = b[k]
        BY <1>6, <2>5, <3>2
      <4>2. b[k] = s[k].frame
        BY <1>4, <2>4, <3>2 DEF Frames
      <4> QED
        BY <3>1, <4>1, <4>2
    <3>3. CASE k - Len(s) \in 1 .. Len(fs)
      <4>1. PICK m \in 1 .. Len(fs) : m = k - Len(s)
        BY <3>3
      <4>2. k = Len(s) + m
        BY <1>4, <4>1
      <4>3. h[k] = w[m] /\ q[k] = fs[m] /\ w[m].frame = fs[m]
        BY <1>3, <1>6, <2>5, <4>2
      <4> QED
        BY <3>1, <4>3
    <3> QED
      BY <1>6, <3>2, <3>3
  <2>7. Len(Frames(h)) = Len(q)
    BY <1>6, <2>1, <2>5
  <2>8. PICK c : c = Frames(h)
    OBVIOUS
  <2>9. c = q
    BY <1>6, <2>1, <2>5, <2>6, <2>7, <2>8, SameSequence
  <2> QED
    BY <2>3, <2>8, <2>9
<1>9. \A k \in DOMAIN fs : h[Len(s) + k].epoch = epoch
  BY <1>1, <1>3, <1>6
<1> QED
  BY <1>4, <1>5, <1>6, <1>7, <1>8, <1>9 DEF w

LEMMA ArrivingFrames ==
  ASSUME NEW fs \in Singles \cup Pairs
  PROVE  /\ fs \in Seq(Incoming) /\ fs # <<>> /\ Distinct(fs)
<1>1. CASE fs \in Singles
  <2>1. PICK f \in Incoming : fs = <<f>>
    BY <1>1 DEF Singles
  <2>2. fs \in Seq(Incoming) /\ Len(fs) = 1
    BY <2>1, EmptyLists, OneFrame
  <2> QED
    BY <2>2 DEF Distinct
<1>2. CASE fs \in Pairs
  <2>1. fs \in Incoming \X Incoming /\ fs[1] # fs[2]
    BY <1>2 DEF Pairs
  <2>2. PICK f \in Incoming, g \in Incoming : fs = <<f, g>>
    BY <2>1
  <2>3. fs \in Seq(Incoming) /\ Len(fs) = 2 /\ fs # <<>>
    BY <2>2, TwoFrames
  <2>4. DOMAIN fs = {1, 2}
    BY <2>3
  <2>5. Distinct(fs)
    BY <2>1, <2>4 DEF Distinct
  <2> QED
    BY <2>3, <2>5
<1> QED
  BY <1>1, <1>2

(* The frame at the head of the port goes to the list, or is dropped.      *)
LEMMA ReadyReadIs ==
  ASSUME NEW d \in UsartMembers, d.in # <<>>, NEW e, e = onReadyRead(d),
         NEW s \in Seq(Incoming), NEW t, Follow(s, d.readList, d.in, t)
  PROVE  /\ e \in UsartMembers /\ e.atsCanMsgS = d.atsCanMsgS
         /\ e.ubDrvInfo = d.ubDrvInfo /\ e.ubPhyIf = d.ubPhyIf
         /\ e.open = d.open /\ e.out = d.out
         /\ e.clUartTrmBufG = d.clUartTrmBufG /\ e.pending = d.pending
         /\ e.writeList = d.writeList /\ e.connected = d.connected
         /\ Elements(e.readList) \cup Elements(e.in) \subseteq Elements(d.readList) \cup Elements(d.in)
         /\ Follow(s, e.readList, e.in, t)
<1>1. /\ d.in \in Seq(Incoming) /\ d.readList \in Seq(Incoming)
      /\ Head(d.in) \in Incoming /\ Tail(d.in) \in Seq(Incoming)
  BY DEF UsartMembers
<1>2. PICK g : g = [d EXCEPT !.in = Tail(d.in)]
  OBVIOUS
<1>3. /\ g \in UsartMembers /\ g.atsCanMsgS = d.atsCanMsgS /\ g.ubDrvInfo = d.ubDrvInfo
      /\ g.ubPhyIf = d.ubPhyIf /\ g.open = d.open /\ g.in = Tail(d.in) /\ g.out = d.out
      /\ g.clUartTrmBufG = d.clUartTrmBufG /\ g.pending = d.pending /\ g.readList = d.readList
      /\ g.writeList = d.writeList /\ g.connected = d.connected
  BY <1>1, <1>2 DEF UsartMembers
<1>4. e = CpUsart1RcvHandler(g, Head(d.in))
  BY <1>2 DEF onReadyRead, UsartMembers
<1>5. ReadSet(g, e, Head(d.in))
  BY <1>1, <1>3, <1>4, RcvHandlerIs
<1>6. /\ e \in UsartMembers /\ e.atsCanMsgS = d.atsCanMsgS
      /\ e.ubDrvInfo = d.ubDrvInfo /\ e.ubPhyIf = d.ubPhyIf
      /\ e.open = d.open /\ e.out = d.out
      /\ e.clUartTrmBufG = d.clUartTrmBufG /\ e.pending = d.pending
      /\ e.writeList = d.writeList /\ e.connected = d.connected
      /\ e.in = Tail(d.in)
      /\ e.readList = d.readList \/ e.readList = Append(d.readList, Head(d.in))
  BY <1>3, <1>5 DEF ReadSet
<1>7. Follow(s, e.readList, e.in, t)
  <2>1. Follow(s, Append(d.readList, Head(d.in)), Tail(d.in), t)
    BY <1>1, FollowMoves
  <2>2. Follow(s, d.readList, Tail(d.in), t)
    BY <1>1, FollowLess
  <2> QED
    BY <1>6, <2>1, <2>2
<1>8. Elements(Tail(d.in)) \subseteq Elements(d.in) /\ Head(d.in) \in Elements(d.in)
  BY <1>1 DEF Elements
<1>9. Elements(Append(d.readList, Head(d.in))) \subseteq Elements(d.readList) \cup {Head(d.in)}
  BY <1>1 DEF Elements
<1> QED
  BY <1>6, <1>7, <1>8, <1>9

(* The frames fs arrive, and readyRead() comes once.                       *)
LEMMA ArriveStep ==
  ASSUME UsartInv, NEW fs \in Singles \cup Pairs, Arrive(fs)
  PROVE  UsartInv'
<1>1. fs \in Seq(Incoming) /\ fs # <<>> /\ Distinct(fs)
  BY ArrivingFrames
<1>2. /\ Elements(fs) \cap Elements(Frames(arrived)) = {}
      /\ UNCHANGED <<attached, timers, wire, accepted, delivered, epoch, partly, disturbed>>
      /\ arrived' = arrived \o Stamped(fs)
  BY DEF Arrive, Stamped
<1>3. epoch \in Nat /\ arrived \in Seq(Records) /\ delivered \in Seq(Records)
  BY DEF UsartInv, Histories, Records
<1>4. /\ arrived' \in Seq(Records) /\ Frames(arrived') = Frames(arrived) \o fs
      /\ \A k \in DOMAIN arrived : arrived'[k] = arrived[k]
      /\ \A k \in DOMAIN fs : arrived'[Len(arrived) + k].epoch = epoch
      /\ Len(Frames(arrived)) = Len(arrived) /\ Frames(arrived) \in Seq(Incoming)
  BY <1>1, <1>2, <1>3, FramesMore
<1>5. Follow(Frames(delivered), u.readList, u.in, Frames(arrived)) /\ Distinct(Frames(arrived))
  BY DEF UsartInv
<1>6. /\ Distinct(Frames(arrived'))
      /\ Follow(Frames(delivered), u.readList, u.in \o fs, Frames(arrived'))
      /\ \A k \in DOMAIN fs : Position(fs[k], Frames(arrived')) = Len(Frames(arrived)) + k
      /\ \A f \in Elements(Frames(arrived)) :
           Position(f, Frames(arrived')) = Position(f, Frames(arrived))
  <2> DEFINE a == Frames(delivered)
             b == u.readList
             d == u.in
             t == Frames(arrived)
  <2>1. a \in Seq(Incoming) /\ b \in Seq(Incoming) /\ d \in Seq(Incoming) /\ t \in Seq(Incoming)
    BY <1>4, UsartTypes
  <2>2. fs \in Seq(Incoming) /\ NewTo(fs, t) /\ Follow(a, b, d, t)
    BY <1>1, <1>2, <1>5 DEF NewTo
  <2>3. PICK h : h = Frames(arrived')
    OBVIOUS
  <2>4. h = t \o fs
    BY <1>4, <2>3 DEF t
  <2> HIDE DEF a, b, d, t
  <2>5. FollowedBy(a, b, d, t, fs, h)
    BY <2>1, <2>2, <2>4, FollowMore
  <2> QED
    BY <2>3, <2>5 DEF FollowedBy, a, b, d, t
<1>7. PICK d : d = [u EXCEPT !.in = u.in \o fs]
  OBVIOUS
<1>8. u.in \o fs \in Seq(Incoming) /\ u.in \o fs # <<>>
  BY <1>1, UsartTypes
<1>9. /\ d \in UsartMembers /\ d.atsCanMsgS = u.atsCanMsgS /\ d.ubDrvInfo = u.ubDrvInfo
      /\ d.ubPhyIf = u.ubPhyIf /\ d.open = u.open /\ d.in = u.in \o fs /\ d.out = u.out
      /\ d.clUartTrmBufG = u.clUartTrmBufG /\ d.pending = u.pending /\ d.readList = u.readList
      /\ d.writeList = u.writeList /\ d.connected = u.connected
  BY <1>7, <1>8, UsartTypes DEF UsartMembers
<1>10. u' = onReadyRead(d)
  BY <1>7, UsartTypes DEF Arrive, UsartMembers
<1>11. Follow(Frames(delivered), d.readList, d.in, Frames(arrived'))
  BY <1>6, <1>9
<1>12. /\ u' \in UsartMembers /\ u'.atsCanMsgS = d.atsCanMsgS
       /\ u'.ubDrvInfo = d.ubDrvInfo /\ u'.ubPhyIf = d.ubPhyIf
       /\ u'.open = d.open /\ u'.out = d.out
       /\ u'.clUartTrmBufG = d.clUartTrmBufG /\ u'.pending = d.pending
       /\ u'.writeList = d.writeList /\ u'.connected = d.connected
       /\ Elements(u'.readList) \cup Elements(u'.in) \subseteq Elements(d.readList) \cup Elements(d.in)
       /\ Follow(Frames(delivered), u'.readList, u'.in, Frames(arrived'))
  BY <1>8, <1>9, <1>10, <1>11, UsartTypes, ReadyReadIs, ZenonT(40)
<1>13. ReceiveOnly(u') /\ Histories'
  <2>1. ReceiveOnly(u')
    BY <1>9, <1>12, UsartTypes DEF ReceiveOnly
  <2> QED
    BY <1>2, <1>4, <2>1 DEF UsartInv, Histories, Records
<1>14. OneUnderWay' /\ Connections'
  BY <1>2, <1>9, <1>12 DEF UsartInv, OneUnderWay, Connections, CheckParam
<1>15. Ready'
  BY <1>2, <1>9, <1>12 DEF UsartInv, Ready, InUseWell, Answers, CheckParam
<1>16. \A f \in Elements(Frames(arrived)) : EpochOf(f)' = EpochOf(f)
  <2> SUFFICES ASSUME NEW f \in Elements(Frames(arrived))
               PROVE  arrived'[Position(f, Frames(arrived'))] = arrived[Position(f, Frames(arrived))]
    BY DEF EpochOf
  <2>1. PICK k \in DOMAIN Frames(arrived) : f = Frames(arrived)[k]
    BY DEF Elements
  <2>2. Position(f, Frames(arrived)) = k
    BY <1>4, <1>5, <2>1, PositionIs
  <2>3. k \in DOMAIN arrived
    BY <1>3, <1>4, <2>1
  <2> QED
    BY <1>4, <1>6, <2>2, <2>3
<1>17. Fresh'
  <2> SUFFICES ASSUME NEW f \in Elements(d.readList) \cup Elements(d.in) PROVE EpochOf(f)' = epoch
    BY <1>2, <1>12 DEF Fresh
  <2>1. CASE f \in Elements(u.readList) \cup Elements(u.in)
    <3>1. f \in Elements(Frames(arrived))
      BY <1>5, <2>1 DEF Follow, Rising, Elements
    <3>2. EpochOf(f) = epoch
      BY <2>1 DEF UsartInv, Fresh
    <3> QED
      BY <1>16, <3>1, <3>2
  <2>2. CASE f \notin Elements(u.readList) \cup Elements(u.in)
    <3>1. f \in Elements(u.in \o fs) /\ f \notin Elements(u.in)
      BY <1>9, <2>2
    <3>2. \E k \in DOMAIN fs : f = fs[k]
      BY <1>1, <3>1, UsartTypes DEF Elements
    <3>3. PICK k \in DOMAIN fs : f = fs[k]
      BY <3>2
    <3>4. Position(f, Frames(arrived')) = Len(arrived) + k
      BY <1>4, <1>6, <3>3
    <3> QED
      BY <1>4, <3>3, <3>4 DEF EpochOf
  <2> QED
    BY <2>1, <2>2
<1>18. NothingOld'
  <2> SUFFICES ASSUME NEW k \in DOMAIN delivered
               PROVE  delivered[k].epoch
                        = arrived'[Position(delivered[k].frame, Frames(arrived'))].epoch
    BY <1>2 DEF NothingOld
  <2>1. PICK f : f = delivered[k].frame
    OBVIOUS
  <2>2. delivered[k].epoch = EpochOf(f)
    BY <2>1 DEF UsartInv, NothingOld, EpochOf
  <2>3. f \in Elements(Frames(arrived))
    <3>1. k \in DOMAIN Frames(delivered) /\ Frames(delivered)[k] = f
      BY <2>1 DEF Frames
    <3> QED
      BY <1>5, <3>1 DEF Follow, Rising
  <2>4. EpochOf(f)' = EpochOf(f)
    BY <1>16, <2>3
  <2>5. EpochOf(f)' = arrived'[Position(f, Frames(arrived'))].epoch
    BY DEF EpochOf
  <2> QED
    BY <2>1, <2>2, <2>4, <2>5
<1>19. Follow(wire', u'.out, u'.writeList, accepted') /\ Distinct(accepted')
  BY <1>2, <1>9, <1>12 DEF UsartInv
<1> QED
  BY <1>2, <1>6, <1>12, <1>13, <1>14, <1>15, <1>17, <1>18, <1>19 DEF UsartInv

(* The network reads the list when the timer of its interface expires.     *)
LEMMA TimerStep ==
  ASSUME UsartInv, NEW i \in Interface, onTimerEvent(i)
  PROVE  UsartInv'
<1>1. UNCHANGED <<attached, wire, accepted, arrived, epoch, partly, disturbed>>
  BY DEF onTimerEvent
<1>2. epoch \in Nat /\ arrived \in Seq(Records) /\ delivered \in Seq(Records)
  BY DEF UsartInv, Histories, Records
<1>3. /\ Follow(Frames(delivered), u.readList, u.in, Frames(arrived)) /\ Distinct(Frames(arrived))
      /\ Follow(wire, u.out, u.writeList, accepted) /\ Distinct(accepted)
  BY DEF UsartInv
<1>4. CASE /\ delivered' = delivered \o
                [k \in DOMAIN u.readList |-> [frame |-> u.readList[k], epoch |-> epoch]]
           /\ u' = [u EXCEPT !.readList = <<>>]
           /\ UNCHANGED timers
  <2>1. delivered' = delivered \o Stamped(u.readList)
    BY <1>4 DEF Stamped
  <2>2. /\ delivered' \in Seq(Records) /\ Frames(delivered') = Frames(delivered) \o u.readList
        /\ \A k \in DOMAIN delivered : delivered'[k] = delivered[k]
        /\ \A k \in DOMAIN u.readList : delivered'[Len(delivered) + k].epoch = epoch
    BY <1>2, <2>1, UsartTypes, FramesMore
  <2>3. /\ u' \in UsartMembers /\ u'.atsCanMsgS = u.atsCanMsgS /\ u'.ubDrvInfo = u.ubDrvInfo
        /\ u'.ubPhyIf = u.ubPhyIf /\ u'.open = u.open /\ u'.in = u.in /\ u'.out = u.out
        /\ u'.clUartTrmBufG = u.clUartTrmBufG /\ u'.pending = u.pending /\ u'.readList = <<>>
        /\ u'.writeList = u.writeList /\ u'.connected = u.connected
    BY <1>4, UsartTypes, EmptyLists DEF UsartMembers
  <2>4. Follow(Frames(delivered'), <<>>, u.in, Frames(arrived))
    BY <1>3, <2>2, UsartTypes, FollowRead
  <2>5. ReceiveOnly(u') /\ Histories'
    <3>1. ReceiveOnly(u')
      BY <2>3, UsartTypes DEF ReceiveOnly
    <3> QED
      BY <1>1, <1>4, <2>2, <3>1 DEF UsartInv, Histories, Records
  <2>6. OneUnderWay' /\ Connections'
    BY <1>1, <1>4, <2>3 DEF UsartInv, OneUnderWay, Connections, CheckParam
  <2>7. Ready'
    BY <1>1, <2>3 DEF UsartInv, Ready, InUseWell, Answers, CheckParam
  <2>8. Fresh'
    BY <1>1, <2>3, NoElements DEF UsartInv, Fresh, EpochOf
  <2>9. NothingOld'
    <3> SUFFICES ASSUME NEW k \in DOMAIN delivered'
                 PROVE  delivered'[k].epoch = EpochOf(delivered'[k].frame)
      BY <1>1 DEF NothingOld, EpochOf
    <3>1. CASE k \in DOMAIN delivered
      BY <2>2, <3>1 DEF UsartInv, NothingOld, EpochOf
    <3>2. CASE k \notin DOMAIN delivered
      <4>1. PICK m \in DOMAIN u.readList : k = Len(delivered) + m
        <5>1. PICK n : n = Len(delivered)
          OBVIOUS
        <5>2. n \in Nat /\ DOMAIN delivered = 1 .. n /\ DOMAIN u.readList = 1 .. Len(u.readList)
              /\ Len(u.readList) \in Nat
          BY <1>2, <5>1, UsartTypes
        <5>3. DOMAIN delivered' = 1 .. (n + Len(u.readList))
          <6>1. Len(Frames(delivered')) = n + Len(u.readList)
            BY <2>2, <5>1, UsartTypes
          <6>2. DOMAIN Frames(delivered') = 1 .. Len(Frames(delivered'))
            BY <2>2, UsartTypes
          <6>3. DOMAIN Frames(delivered') = DOMAIN delivered'
            BY DEF Frames
          <6> QED
            BY <6>1, <6>2, <6>3
        <5>4. k \in Nat /\ k - n \in 1 .. Len(u.readList)
          BY <3>2, <5>2, <5>3
        <5> QED
          BY <5>1, <5>2, <5>4
      <4>2. delivered'[k].epoch = epoch
        BY <2>2, <4>1
      <4>3. delivered'[k].frame = u.readList[m]
        <5>1. Frames(delivered')[k] = delivered'[k].frame
          BY DEF Frames
        <5>2. (Frames(delivered) \o u.readList)[Len(Frames(delivered)) + m] = u.readList[m]
          BY UsartTypes
        <5>3. Len(Frames(delivered)) = Len(delivered)
          BY UsartTypes
        <5> QED
          BY <2>2, <4>1, <5>1, <5>2, <5>3
      <4>4. EpochOf(u.readList[m]) = epoch
        BY DEF UsartInv, Fresh, Elements
      <4> QED
        BY <4>2, <4>3, <4>4
    <3> QED
      BY <3>1, <3>2
  <2> QED
    BY <1>1, <1>3, <2>3, <2>4, <2>5, <2>6, <2>7, <2>8, <2>9 DEF UsartInv
<1>5. CASE ~(i \in attached /\ u.connected[i]) /\ timers' = [timers EXCEPT ![i] = timers[i] - 1]
           /\ UNCHANGED <<u, delivered>>
  <2>1. timers[i] > 0
    BY DEF onTimerEvent
  <2>2. timers' \in [Interface -> Nat]
    BY <1>5, <2>1, UsartTypes
  <2>3. Histories'
    BY <1>1, <1>5, <2>2 DEF UsartInv, Histories
  <2>4. OneUnderWay' /\ Ready' /\ Fresh' /\ NothingOld'
    BY <1>1, <1>5 DEF UsartInv, OneUnderWay, Ready, Fresh, NothingOld, EpochOf
  <2>5. Connections'
    BY <1>1, <1>5, UsartTypes DEF UsartInv, Connections
  <2> QED
    BY <1>1, <1>3, <1>5, <2>3, <2>4, <2>5, UsartTypes DEF UsartInv
<1> QED
  BY <1>4, <1>5 DEF onTimerEvent

LEMMA UsartStep ==
  ASSUME UsartInv, Next
  PROVE  UsartInv'
BY StartStep, ResetStep, BitrateStep, ConfigureStep, StopStep, WriteStep, BytesStep, ArriveStep,
   TimerStep DEF Next

(* The bounds of the list and of the restarts.                             *)
UsartBounds == Len(u.writeList) <= ListMax /\ restarts \in 0 .. MaxRestart

(* A sending takes from the list.                                          *)
LEMMA TransmitShortens ==
  ASSUME NEW d \in UsartMembers, NEW e, TransmitSet(d, e), Len(d.writeList) <= ListMax
  PROVE  Len(e.writeList) <= ListMax
<1>1. d.writeList \in Seq(Outgoing) /\ ListMax \in Nat
  BY InterfaceAssumption DEF UsartMembers
<1>2. Len(d.writeList) \in Nat
      /\ (d.writeList # <<>> => Len(Tail(d.writeList)) = Len(d.writeList) - 1)
  BY <1>1
<1>3. e = d \/ (d.writeList # <<>> /\ e.writeList = Tail(d.writeList))
  BY Zenon DEF TransmitSet, SentSet
<1>4. PICK s, t : s = d.writeList /\ t = e.writeList
  OBVIOUS
<1>5. t = s \/ (s # <<>> /\ t = Tail(s))
  BY <1>3, <1>4
<1>6. Len(s) \in Nat /\ (s # <<>> => Len(Tail(s)) = Len(s) - 1) /\ Len(s) <= ListMax
  BY <1>2, <1>4
<1>7. ListMax \in Nat
  BY <1>1
<1>8. PICK n : n = Len(t)
  OBVIOUS
<1>9. n = Len(s) \/ n = Len(s) - 1
  <2>1. CASE t = s
    BY <1>8, <2>1
  <2>2. CASE s # <<>> /\ t = Tail(s)
    BY <1>6, <1>8, <2>2
  <2> QED
    BY <1>5, <2>1, <2>2
<1>10. n <= ListMax
  BY <1>6, <1>7, <1>9
<1> QED
  BY <1>4, <1>8, <1>10

LEMMA BoundsStart ==
  ASSUME Init
  PROVE  UsartBounds
<1>1. u.writeList = <<>> /\ restarts = 0
  BY DEF Init
<1>2. Len(u.writeList) = 0
  BY <1>1
<1> QED
  BY <1>1, <1>2, InterfaceAssumption DEF UsartBounds

LEMMA BoundsStep ==
  ASSUME UsartInv, UsartBounds, Next
  PROVE  UsartBounds'
<1>1. u \in UsartMembers /\ u.writeList \in Seq(Outgoing) /\ Len(u.writeList) \in Nat
  BY UsartTypes
<1>2. ListMax \in Nat \ {0} /\ MaxRestart \in Nat /\ Len(u.writeList) <= ListMax
  BY InterfaceAssumption DEF UsartBounds
<1>3. Restart => restarts' \in 0 .. MaxRestart
  BY <1>2 DEF Restart, UsartBounds
<1>4. ASSUME u'.writeList = <<>> \/ u'.writeList = u.writeList PROVE Len(u'.writeList) <= ListMax
  BY <1>1, <1>2, <1>4
<1>5. ASSUME NEW i \in Interface, NEW opens \in BOOLEAN, startInterface(i, opens)
      PROVE  UsartBounds'
  <2>1. CASE u' = setMode(CpCoreBitrate(connect(u, i), opens), i, "start")
    <3>1. PICK m \in {"stop", "start"} : m = "start"
      OBVIOUS
    <3>2. u' = setMode(CpCoreBitrate(connect(u, i), opens), i, m)
      BY <2>1, <3>1
    <3>3. RenewedSet(u, u', i, opens)
      BY <1>1, <3>2, RenewedIs
    <3>4. u'.writeList = <<>>
      BY <3>3 DEF RenewedSet
    <3> QED
      BY <1>3, <1>4, <1>5, <3>4 DEF startInterface, UsartBounds
  <2>2. CASE u' = u
    BY <1>3, <1>4, <1>5, <2>2 DEF startInterface, UsartBounds
  <2> QED
    BY <1>5, <2>1, <2>2 DEF startInterface
<1>6. ASSUME NEW i \in Interface, NEW opens \in BOOLEAN, reset(i, opens)
      PROVE  UsartBounds'
  <2>1. u.connected[i] /\ i \in attached /\ CheckParam(u)
    BY <1>6 DEF UsartInv, Connections, reset
  <2>2. PICK d : d = disconnect(u, i)
    OBVIOUS
  <2>3. DisconnectSet(u, d, i)
    BY <1>1, <2>1, <2>2, DisconnectIs
  <2>4. PICK m \in {"stop", "start"} : m = u.mode[i]
    BY <1>1 DEF UsartMembers
  <2>5. u' = setMode(CpCoreBitrate(connect(d, i), opens), i, m)
    BY <1>6, <2>2, <2>4 DEF reset
  <2>6. d \in UsartMembers
    BY <2>3 DEF DisconnectSet
  <2>7. RenewedSet(d, u', i, opens)
    BY <2>5, <2>6, RenewedIs
  <2>8. u'.writeList = <<>>
    BY <2>7 DEF RenewedSet
  <2> QED
    BY <1>3, <1>4, <1>6, <2>8 DEF reset, UsartBounds
<1>7. ASSUME NEW i \in Interface, NEW opens \in BOOLEAN, setBitrate(i, opens)
      PROVE  UsartBounds'
  <2>1. PICK m \in {"stop", "start"} : m = "start"
    OBVIOUS
  <2>2. PICK n \in {"stop", "start"} : n = "stop"
    OBVIOUS
  <2>3. PICK d : d = setMode(u, i, n)
    OBVIOUS
  <2>4. ModeSet(u, d)
    BY <1>1, <2>3, ModeIs
  <2>5. PICK e : e = CpCoreBitrate(d, opens)
    OBVIOUS
  <2>6. u' = setMode(e, i, m)
    BY <1>7, <2>1, <2>2, <2>3, <2>5 DEF setBitrate
  <2>7. d \in UsartMembers
    BY <2>4 DEF ModeSet
  <2>8. IF CheckParam(d) THEN ConfigSet(d, e, opens) ELSE e = d
    BY <2>5, <2>7, BitrateIs
  <2>9. e \in UsartMembers /\ e.writeList = d.writeList
    BY <2>7, <2>8 DEF ConfigSet
  <2>10. ModeSet(e, u')
    BY <2>6, <2>9, ModeIs
  <2>11. u'.writeList = u.writeList
    BY <2>4, <2>9, <2>10 DEF ModeSet
  <2> QED
    BY <1>3, <1>4, <1>7, <2>11 DEF setBitrate, UsartBounds
<1>8. ASSUME NEW i \in Interface, NEW opens \in BOOLEAN, configureDevice(i, opens)
      PROVE  UsartBounds'
  <2>1. ConfigSet(u, u', opens)
    BY <1>1, <1>8, ConfigIs DEF configureDevice
  <2>2. u'.writeList = u.writeList
    BY <2>1 DEF ConfigSet
  <2> QED
    BY <1>3, <1>4, <1>8, <2>2 DEF configureDevice, UsartBounds
<1>9. ASSUME NEW i \in Interface, stopInterface(i)
      PROVE  UsartBounds'
  <2>1. PICK m \in {"stop", "start"} : m = "stop"
    OBVIOUS
  <2>2. PICK d : d = setMode(u, i, m)
    OBVIOUS
  <2>3. ModeSet(u, d)
    BY <1>1, <2>2, ModeIs
  <2>4. u'.writeList = <<>> \/ u'.writeList = u.writeList
    <3>1. CASE u.connected[i]
      <4>1. CheckParam(u)
        BY <1>9, <3>1 DEF UsartInv, Connections
      <4>2. d \in UsartMembers /\ CheckParam(d)
        BY <2>3, <4>1 DEF ModeSet, CheckParam
      <4>3. u' = disconnect(d, i)
        BY <1>9, <2>1, <2>2, <3>1 DEF stopInterface
      <4>4. DisconnectSet(d, u', i)
        BY <4>2, <4>3, DisconnectIs
      <4> QED
        BY <4>4 DEF DisconnectSet
    <3>2. CASE ~u.connected[i]
      <4>1. u' = d
        BY <1>9, <2>1, <2>2, <3>2 DEF stopInterface
      <4> QED
        BY <2>3, <4>1 DEF ModeSet
    <3> QED
      BY <3>1, <3>2
  <2> QED
    BY <1>3, <1>4, <1>9, <2>4 DEF stopInterface, UsartBounds
<1>10. ASSUME NEW i \in Interface, NEW f \in Outgoing, write(i, f)
       PROVE  UsartBounds'
  <2>1. PICK d : d = [u EXCEPT !.writeList = Append(u.writeList, f)]
    OBVIOUS
  <2>2. d \in UsartMembers /\ d.writeList = Append(u.writeList, f)
    <3>1. Append(u.writeList, f) \in Seq(Outgoing)
      BY <1>1
    <3> QED
      BY <1>1, <2>1, <3>1 DEF UsartMembers
  <2>3. u' = transmitFrame(d)
    BY <1>1, <1>10, <2>1 DEF write, UsartMembers
  <2>4. TransmitSet(d, u')
    BY <2>2, <2>3, TransmitIs
  <2>5. Len(d.writeList) <= ListMax
    <3>1. Len(u.writeList) < ListMax
      BY <1>10 DEF write
    <3> QED
      BY <1>1, <1>2, <2>2, <3>1
  <2>6. Len(u'.writeList) <= ListMax
    BY <2>2, <2>4, <2>5, TransmitShortens
  <2> QED
    BY <1>10, <2>6 DEF write, UsartBounds
<1>11. ASSUME NEW complete \in BOOLEAN, onBytesWritten(complete)
       PROVE  UsartBounds'
  <2>1. PICK out \in Seq(Outgoing) : out = IF complete THEN Tail(u.out) ELSE u.out
    <3>1. Tail(u.out) \in Seq(Outgoing) /\ u.out \in Seq(Outgoing)
      BY <1>11, UsartTypes DEF onBytesWritten
    <3> QED
      BY <3>1
  <2>2. PICK d : d = [u EXCEPT !.out = out]
    OBVIOUS
  <2>3. /\ d \in UsartMembers /\ d.atsCanMsgS = u.atsCanMsgS /\ d.writeList = u.writeList
    BY <1>1, <2>2 DEF UsartMembers
  <2>4. u' = CpUsart1TrmHandler(d)
    BY <1>1, <1>11, <2>1, <2>2 DEF onBytesWritten, UsartMembers
  <2>5. ReceiveOnly(d)
    BY <2>3, UsartTypes DEF ReceiveOnly
  <2>6. \/ u' = d
        \/ \E g : ClearSet(d, g) /\ TransmitSet(g, u')
    BY <2>3, <2>4, <2>5, TrmHandlerIs
  <2>7. ASSUME NEW g, ClearSet(d, g), TransmitSet(g, u') PROVE Len(u'.writeList) <= ListMax
    <3>1. g \in UsartMembers /\ g.writeList = u.writeList
      BY <2>3, <2>7 DEF ClearSet
    <3> QED
      BY <1>2, <2>7, <3>1, TransmitShortens
  <2>8. Len(u'.writeList) <= ListMax
    BY <1>2, <2>3, <2>6, <2>7
  <2> QED
    BY <1>11, <2>8 DEF onBytesWritten, UsartBounds
<1>12. ASSUME NEW fs \in Singles \cup Pairs, Arrive(fs)
       PROVE  UsartBounds'
  <2>1. u'.writeList = u.writeList
    BY <1>1, <1>12 DEF Arrive, onReadyRead, CpUsart1RcvHandler, UsartMembers
  <2> QED
    BY <1>4, <1>12, <2>1 DEF Arrive, UsartBounds
<1>13. ASSUME NEW i \in Interface, onTimerEvent(i)
       PROVE  UsartBounds'
  <2>1. u'.writeList = u.writeList
    BY <1>1, <1>13 DEF onTimerEvent, UsartMembers
  <2> QED
    BY <1>4, <1>13, <2>1 DEF onTimerEvent, UsartBounds
<1> QED
  BY <1>5, <1>6, <1>7, <1>8, <1>9, <1>10, <1>11, <1>12, <1>13 DEF Next

LEMMA UsartTypeOK ==
  ASSUME UsartInv, UsartBounds
  PROVE  TypeOK
<1>1. u \in UsartMembers /\ Histories
  BY DEF UsartInv
<1> QED
  BY <1>1 DEF UsartMembers, Histories, UsartBounds, TypeOK

------------------------------------------------------------------------------
(* The three plug-ins, each with its networks.                             *)
PluginsInv ==
  /\ kind = "usart" => UsartInv /\ UsartBounds
  /\ kind = "peak" => PeakInv /\ PeakData
  /\ kind = "vci4" => VciInv /\ VciData

LEMMA UsartStarts ==
  ASSUME Init
  PROVE  UsartInv
<1>1. u \in UsartMembers
  <2>1. PICK table : table = [c \in Channel |-> [b \in Buffer |-> ClearBuffer]]
    OBVIOUS
  <2>2. ClearBuffer \in BufferType
    BY DEF ClearBuffer, BufferType
  <2>3. table \in [Channel -> [Buffer -> BufferType]]
    BY <2>1, <2>2
  <2>4. u = [ubDrvInfo |-> "off", ubPhyIf |-> 1, atsCanMsgS |-> table,
             usart |-> 0, open |-> FALSE, in |-> <<>>, out |-> <<>>, clUartTrmBufG |-> None,
             pending |-> FALSE, readList |-> <<>>, writeList |-> <<>>,
             connected |-> [i \in Interface |-> FALSE], mode |-> [i \in Interface |-> "stop"]]
    BY <2>1 DEF Init
  <2>5. 1 \in Channel
    BY DEF Channel
  <2> QED
    BY <2>3, <2>4, <2>5, EmptyLists DEF UsartMembers
<1>2. ReceiveOnly(u)
  BY DEF Init, ReceiveOnly, ClearBuffer
<1>3. Histories
  <2>1. <<>> \in Seq([frame : Incoming, epoch : Nat])
    OBVIOUS
  <2>2. timers \in [Interface -> Nat] /\ attached \subseteq Interface
    BY DEF Init
  <2>3. epoch \in Nat /\ partly \in BOOLEAN /\ disturbed \in BOOLEAN
    BY DEF Init
  <2> QED
    BY <2>1, <2>2, <2>3, EmptyLists DEF Init, Histories
<1>4. /\ u.out = <<>> /\ u.pending = FALSE /\ u.ubDrvInfo = "off" /\ u.in = <<>>
      /\ u.readList = <<>> /\ u.writeList = <<>> /\ \A i \in Interface : ~u.connected[i]
      /\ wire = <<>> /\ accepted = <<>> /\ arrived = <<>> /\ delivered = <<>>
      /\ attached = {}
  BY DEF Init
<1>5. OneUnderWay /\ Connections
  BY <1>4 DEF OneUnderWay, Connections
<1>6. Ready
  BY <1>4 DEF Ready, InUseWell, CheckParam
<1>7. Frames(<<>>) = <<>>
  BY DEF Frames
<1>8. Follow(<<>>, <<>>, <<>>, <<>>) /\ Distinct(<<>>)
  BY DEF Follow, Rising, Before, Distinct
<1>9. Fresh /\ NothingOld
  BY <1>4, NoElements DEF Fresh, NothingOld
<1> QED
  BY <1>1, <1>2, <1>3, <1>4, <1>5, <1>6, <1>7, <1>8, <1>9 DEF UsartInv

LEMMA PeakStarts ==
  ASSUME P!Init
  PROVE  PeakInv
<1>1. p \in PeakMembers
  BY DEF P!Init, PeakMembers, P!Object, P!NewFrame
<1> QED
  BY <1>1 DEF P!Init, PeakInv, P!Polled

LEMMA VciStarts ==
  ASSUME V!Init
  PROVE  VciInv
<1>1. v \in VciMembers /\ v.ptsRcvFifoP = 0 /\ ~v.teConnectedP
  BY DEF V!Init, VciMembers
<1>2. fifo \in Seq(Seq(V!Messages)) /\ Len(fifo) = 0
  BY DEF V!Init
<1>3. v.ptsRcvFifoP \in 0 .. Len(fifo)
  BY <1>1, <1>2
<1>4. line \in BOOLEAN /\ ~line /\ attached \in BOOLEAN /\ timers \in Nat
  BY DEF V!Init
<1>5. V!LineIsUsed /\ V!Polled
  BY <1>1, <1>4 DEF V!LineIsUsed, V!Polled, V!Working
<1> QED
  BY <1>1, <1>2, <1>3, <1>4, <1>5 DEF VciInv

LEMMA PluginsStart ==
  ASSUME MCInit
  PROVE  PluginsInv
BY UsartStarts, BoundsStart, PeakStarts, PeakDataStarts, VciStarts, VciDataStarts
   DEF MCInit, PluginsInv

LEMMA PluginsStep ==
  ASSUME PluginsInv, [MCNext]_MCvars
  PROVE  PluginsInv'
<1>1. CASE MCNext
  BY <1>1, UsartStep, BoundsStep, PeakStep, PeakDataStep, VciStep, VciDataStep
     DEF MCNext, PluginsInv
<1>2. CASE UNCHANGED MCvars
  <2>1. UsartInv => UsartInv'
    BY <1>2 DEF MCvars, usart, UsartInv, Histories, OneUnderWay, Ready, Connections, Fresh,
                EpochOf, NothingOld
  <2>2. PeakInv => PeakInv'
    BY <1>2 DEF MCvars, peak, PeakInv, P!Polled
  <2>3. VciInv => VciInv'
    BY <1>2 DEF MCvars, vci, VciInv, V!LineIsUsed, V!Polled, V!Working, V!reader
  <2>4. UsartBounds => UsartBounds'
    BY <1>2 DEF MCvars, usart, UsartBounds
  <2>5. PeakData => PeakData'
    BY <1>2 DEF MCvars, peak, PeakData
  <2>6. VciData => VciData'
    <3>1. event' = event /\ UNCHANGED <<taken, delivered, fifo, broken>> /\ v' = v
      BY <1>2 DEF MCvars, vci
    <3> QED
      BY <3>1, VciDataSame DEF VciData
  <2> QED
    BY <1>2, <2>1, <2>2, <2>3, <2>4, <2>5, <2>6 DEF MCvars, PluginsInv
<1> QED
  BY <1>1, <1>2

(* The inductive invariant of the plug-ins: what the driver library, the   *)
(* lists, the serial port and the timers hold at any time.                 *)
THEOREM PluginsInvariance == MCSpec => []PluginsInv
<1>1. MCInit => PluginsInv
  BY PluginsStart
<1>2. PluginsInv /\ [MCNext]_MCvars => PluginsInv'
  BY PluginsStep
<1> QED
  BY <1>1, <1>2, PTL DEF MCSpec

(* The state of each plug-in is one the code can hold: the interfaces, the *)
(* frames in the library and in the lists, which stay within what write()  *)
(* allows, and the readers of VCI 4 (the members of the plug-ins).         *)
THEOREM PluginsTypes == MCSpec => []TypesOK
<1>1. PluginsInv => TypesOK
  BY UsartTypeOK, PeakTypes, VciTypes DEF PluginsInv, TypesOK
<1> QED
  BY <1>1, PluginsInvariance, PTL

(* As long as no bus error is among the results, the network reads from    *)
(* PEAK the frames the library hands out, in their order and each once;    *)
(* and from VCI 4, as long as each connection has succeeded, the frames of *)
(* each reader, followed by those that wait in it, are the ones that       *)
(* arrived for it (read, onInterfaceNewData, connect).                     *)
THEOREM PluginsReadExactly == MCSpec => []ReadExactly
<1>1. PluginsInv => ReadExactly
  BY PeakTypes, VciTypes DEF PluginsInv, ReadExactly
<1> QED
  BY <1>1, PluginsInvariance, PTL

(* The USART plug-in hands frames to the serial port in the order write()  *)
(* accepted them and reads those that arrive in their order, none twice,   *)
(* whatever is added, removed, reset or configured (transmitFrame,         *)
(* onReadyRead, read).                                                     *)
THEOREM UsartKeepsOrder == MCSpec => []UsartInOrder
<1>1. PluginsInv => UsartInOrder
  <2> SUFFICES ASSUME UsartInv PROVE SentInOrder /\ ReadInOrder
    BY DEF PluginsInv, UsartInOrder
  <2>1. Follow(wire, u.out, u.writeList, accepted)
        /\ Follow(Frames(delivered), u.readList, u.in, Frames(arrived))
    BY DEF UsartInv
  <2>2. InOrder(wire \o u.out \o u.writeList, accepted)
    BY <2>1, UsartTypes, FollowIsOrder
  <2>3. InOrder(Frames(delivered) \o u.readList \o u.in, Frames(arrived))
    BY <2>1, UsartTypes, FollowIsOrder
  <2> QED
    BY <2>2, <2>3 DEF SentInOrder, ReadInOrder
<1> QED
  BY <1>1, PluginsInvariance, PTL

(* Nothing that arrived before a connection of the USART plug-in is read   *)
(* after it, although disconnect() leaves the serial port open (connect,   *)
(* setConfig).                                                             *)
THEOREM UsartReadsNothingOld == MCSpec => []UsartNothingOld
<1>1. PluginsInv => UsartNothingOld
  BY DEF PluginsInv, UsartNothingOld, UsartInv
<1> QED
  BY <1>1, PluginsInvariance, PTL

(* As long as bytesWritten() reports whole frames, the serial port never   *)
(* holds two of them (btWrtieIsPendingG, transmitFrame).                   *)
THEOREM UsartSendsOneByOne == MCSpec => []UsartOneUnderWay
<1>1. PluginsInv => UsartOneUnderWay
  BY DEF PluginsInv, UsartOneUnderWay, UsartInv
<1> QED
  BY <1>1, PluginsInvariance, PTL

(* The pending flag is not left behind without a frame under way, as long  *)
(* as the plug-in is used in a way it survives (transmitFrame,             *)
(* appCanTrmHandler, CpCanMsgFromBuffer).                                  *)
THEOREM UsartGoesOn == MCSpec => []UsartNotStuck
<1>1. PluginsInv => UsartNotStuck
  BY DEF PluginsInv, UsartNotStuck, UsartInv, Ready, InUseWell, NotStuck, PendingMeansUnderWay,
         UnderWay
<1> QED
  BY <1>1, PluginsInvariance, PTL

(* The line of VCI 4 runs only for an interface that is attached and       *)
(* controls it (setMode, the events of the device).                        *)
THEOREM VciUsesItsLine == MCSpec => []VciLineIsUsed
<1>1. PluginsInv => VciLineIsUsed
  BY DEF PluginsInv, VciLineIsUsed, VciInv
<1> QED
  BY <1>1, PluginsInvariance, PTL

(* In each plug-in, a connected interface of a network has a timer under   *)
(* way that polls it (connect, read, onTimerEvent).                        *)
THEOREM ConnectedIsPolled == MCSpec => []InterfacesPolled
<1>1. PluginsInv => InterfacesPolled
  <2>1. UsartInv => Polled
    BY DEF UsartInv, Histories, Connections, Polled
  <2> QED
    BY <2>1 DEF PluginsInv, InterfacesPolled, PeakInv, VciInv
<1> QED
  BY <1>1, PluginsInvariance, PTL
===============================================================================
