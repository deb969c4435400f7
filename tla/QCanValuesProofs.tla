--------------------------- MODULE QCanValuesProofs ----------------------------
(***************************************************************************)
(* Proofs about the value classes: for every list of filters a checked     *)
(* program can build, a frame passes exactly if the ranges the program     *)
(* asked for let it; for every width and unit, the time stamp of a program *)
(* that tests its results is the exact sum of what went into it; and every *)
(* frame and message goes through the other representation unchanged.      *)
(*                                                                         *)
(* The filters need that each filter of the list is the one rule that was  *)
(* in force when it was appended; no arithmetic is involved.  The time     *)
(* stamp needs that seconds and nano-seconds are ordered like their sum,   *)
(* and that what is cut to 32 bits fits them.  The conversions need that   *)
(* no frame and no message ever has a DLC its format does not allow, and   *)
(* that a 32-bit field is made of its four bytes.                          *)
(***************************************************************************)
EXTENDS MCQCanValues, SequenceTheorems, TLAPS

(* The filters: the object is the next rule, the list the given ones.      *)
Number == Int
FilterType ==
  [type : {"OFF", "ACCEPT", "REJECT"}, format : {Std, Ext}, low : Number, high : Number]

Matches(l, given) ==
  /\ Len(given) = Len(l)
  /\ \A i \in 1 .. Len(l) : given[i] = {l[i]} /\ l[i].type # "OFF"

FilterInv ==
  /\ filter \in FilterType /\ list \in Seq(FilterType)
  /\ rules \in [given : Seq(SUBSET FilterType), next : SUBSET FilterType]
  /\ rules.next = IF filter.type = "OFF" THEN {} ELSE {filter}
  /\ Matches(list, rules.given)

LEMMA FilterStart == L!FilterInit => FilterInv
<1> SUFFICES ASSUME L!FilterInit PROVE FilterInv OBVIOUS
<1>1. L!Off \in FilterType /\ L!Off.type = "OFF"
  <2>1. (CHOOSE f \in {Std, Ext} : TRUE) \in {Std, Ext} OBVIOUS
  <2> QED BY <2>1 DEF L!Off, FilterType, Number
<1>2. filter = L!Off /\ list = <<>> /\ rules = [given |-> <<>>, next |-> {}] BY DEF L!FilterInit
<1>3. <<>> \in Seq(FilterType) /\ <<>> \in Seq(SUBSET FilterType) OBVIOUS
<1>4. rules \in [given : Seq(SUBSET FilterType), next : SUBSET FilterType] BY <1>2, <1>3
<1>5. Matches(<<>>, <<>>) BY DEF Matches
<1>6. rules.given = <<>> /\ rules.next = {} BY <1>2
<1> QED BY <1>1, <1>2, <1>3, <1>4, <1>5, <1>6 DEF FilterInv

LEMMA ConfigureStep ==
  ASSUME FilterInv, NEW type \in {"ACCEPT", "REJECT"}, L!Configure(type)
  PROVE  FilterInv'
<1>1. PICK format \in {Std, Ext}, low \in 0 .. IdMax, high \in 0 .. IdMax :
        /\ filter' = L!Configured(filter, type, format, low, high)
        /\ rules' = [rules EXCEPT !.next = L!Rule(type, format, low, high)]
        /\ list' = list
  BY DEF L!Configure
<1> DEFINE new == [type |-> type, format |-> format, low |-> low, high |-> high]
<1>2. new \in FilterType BY DEF FilterType, Number
<1>3. rules'.next = L!Rule(type, format, low, high) /\ rules'.given = rules.given
  BY <1>1 DEF FilterInv
<1>4. CASE high >= low /\ high <= MCMaxOf[format]
  <2>1. filter' = new /\ rules'.next = {new} /\ new.type # "OFF"
    BY <1>1, <1>3, <1>4 DEF L!Configured, L!Rule
  <2>2. rules' \in [given : Seq(SUBSET FilterType), next : SUBSET FilterType]
    <3> HIDE DEF new
    <3>1. rules' = [rules EXCEPT !.next = {new}] BY <1>1, <1>3, <2>1 DEF FilterInv
    <3> QED BY <3>1, <1>2 DEF FilterInv
  <2> QED BY <1>1, <1>2, <1>3, <2>1, <2>2 DEF FilterInv
<1>5. CASE ~(high >= low /\ high <= MCMaxOf[format])
  <2>1. filter' = [filter EXCEPT !.type = "OFF"] /\ rules'.next = {}
    BY <1>1, <1>3, <1>5 DEF L!Configured, L!Rule
  <2>2. filter' \in FilterType /\ filter'.type = "OFF" BY <2>1 DEF FilterInv, FilterType
  <2>3. rules' \in [given : Seq(SUBSET FilterType), next : SUBSET FilterType]
    <3>1. rules' = [rules EXCEPT !.next = {}] BY <1>1, <1>3, <2>1 DEF FilterInv
    <3> QED BY <3>1 DEF FilterInv
  <2> QED BY <1>1, <1>3, <2>1, <2>2, <2>3 DEF FilterInv
<1> QED BY <1>4, <1>5

(* A sequence without the element behind position pos.                     *)
LEMMA Removed ==
  ASSUME NEW T, NEW s \in Seq(T), NEW pos \in Nat, pos < Len(s)
  PROVE  /\ L!RemoveAt(s, pos + 1) \in Seq(T)
         /\ Len(L!RemoveAt(s, pos + 1)) = Len(s) - 1
         /\ \A i \in 1 .. Len(s) - 1 :
              L!RemoveAt(s, pos + 1)[i] = IF i <= pos THEN s[i] ELSE s[i + 1]
<1> DEFINE a == SubSeq(s, 1, pos)
           b == SubSeq(s, pos + 2, Len(s))
<1>1. L!RemoveAt(s, pos + 1) = a \o b
  <2>1. (pos + 1) - 1 = pos /\ (pos + 1) + 1 = pos + 2 OBVIOUS
  <2> QED BY <2>1, Zenon DEF L!RemoveAt
<1>2. a \in Seq(T) /\ Len(a) = pos /\ \A i \in 1 .. pos : a[i] = s[i]
  BY SubSeqProperties
<1>3. /\ b \in Seq(T) /\ Len(b) = Len(s) - pos - 1
      /\ \A i \in 1 .. Len(s) - pos - 1 : b[i] = s[pos + 1 + i]
  BY SubSeqProperties
<1> HIDE DEF a, b
<1>4. /\ a \o b \in Seq(T) /\ Len(a \o b) = Len(a) + Len(b)
      /\ \A i \in 1 .. Len(a) + Len(b) :
           (a \o b)[i] = IF i <= Len(a) THEN a[i] ELSE b[i - Len(a)]
  BY <1>2, <1>3, ConcatProperties
<1>5. Len(a) + Len(b) = Len(s) - 1 BY <1>2, <1>3
<1>6. ASSUME NEW i \in 1 .. Len(s) - 1
      PROVE (a \o b)[i] = IF i <= pos THEN s[i] ELSE s[i + 1]
  <2>1. CASE i <= pos BY <1>2, <1>4, <1>5, <2>1
  <2>2. CASE ~(i <= pos)
    <3>1. (a \o b)[i] = b[i - pos] BY <1>2, <1>4, <1>5, <2>2
    <3>2. i - pos \in 1 .. Len(s) - pos - 1 BY <2>2
    <3>3. b[i - pos] = s[pos + 1 + (i - pos)] BY <1>3, <3>2
    <3>4. pos + 1 + (i - pos) = i + 1 OBVIOUS
    <3>5. (a \o b)[i] = s[i + 1] BY <3>1, <3>3, <3>4
    <3> QED BY <2>2, <3>5
  <2> QED BY <2>1, <2>2
<1> QED BY <1>1, <1>4, <1>5, <1>6

LEMMA ListStep ==
  ASSUME CheckedFilter, FilterInv,
         L!appendFilter \/ L!ClearList \/ (\E pos \in 0 .. (MaxFilters - 1) : L!removeFilter(pos))
  PROVE  FilterInv'
<1> DEFINE T == FilterType
           given == rules.given
<1>1. given \in Seq(SUBSET T) /\ list \in Seq(T) BY DEF FilterInv
<1>2. SUFFICES ASSUME NEW g \in Seq(SUBSET T), list' \in Seq(T), Matches(list', g),
                      rules' = [rules EXCEPT !.given = g], filter' = filter
               PROVE  FilterInv'
  <2>1. CASE L!appendFilter
    <3>1. filter.type # "OFF" /\ filter \in T /\ rules.next = {filter}
      BY <2>1 DEF L!appendFilter, FilterInv
    <3> DEFINE g == Append(given, {filter})
    <3>2. list' = Append(list, filter) /\ filter' = filter BY <2>1 DEF L!appendFilter
    <3>3. rules' = [rules EXCEPT !.given = g] BY <2>1, <3>1 DEF L!appendFilter
    <3> HIDE DEF T
    <3>4. g \in Seq(SUBSET T) /\ list' \in Seq(T) BY <1>1, <3>1, <3>2
    <3>5. Matches(list', g)
      <4>1. Len(g) = Len(given) + 1 /\ Len(list') = Len(list) + 1 BY <1>1, <3>2
      <4>2. Len(given) = Len(list) BY DEF FilterInv, Matches
      <4>3. ASSUME NEW i \in 1 .. Len(list')
            PROVE g[i] = {list'[i]} /\ list'[i].type # "OFF"
        <5>1. CASE i = Len(list) + 1
          <6>1. g[i] = {filter} /\ list'[i] = filter BY <5>1, <4>2, <1>1, <3>2
          <6> QED BY <6>1, <3>1
        <5>2. CASE i # Len(list) + 1
          <6>1. i \in 1 .. Len(list) BY <5>2, <4>1, <1>1
          <6>2. g[i] = given[i] /\ list'[i] = list[i] BY <6>1, <4>2, <1>1, <3>2
          <6> QED BY <6>1, <6>2 DEF FilterInv, Matches
        <5> QED BY <5>1, <5>2
      <4> HIDE DEF g
      <4> QED BY <4>1, <4>2, <4>3 DEF Matches
    <3> HIDE DEF g
    <3> QED BY <3>2, <3>3, <3>4, <3>5
  <2>2. CASE L!ClearList
    <3>1. list' = <<>> /\ rules' = [rules EXCEPT !.given = <<>>] /\ filter' = filter
      BY <2>2 DEF L!ClearList
    <3>2. <<>> \in Seq(SUBSET T) /\ <<>> \in Seq(T) OBVIOUS
    <3>3. Matches(<<>>, <<>>) BY DEF Matches
    <3> QED BY <3>1, <3>2, <3>3
  <2>3. ASSUME NEW pos \in 0 .. (MaxFilters - 1), L!removeFilter(pos) PROVE FilterInv'
    <3> DEFINE g == L!RemoveAt(given, pos + 1)
    <3>1. pos \in Nat /\ pos < Len(list) BY <2>3, ValuesAssumption DEF L!removeFilter
    <3>2. list' = L!RemoveAt(list, pos + 1) /\ filter' = filter BY <2>3 DEF L!removeFilter
    <3>3. rules' = [rules EXCEPT !.given = g] BY <2>3 DEF L!removeFilter
    <3>4. Len(given) = Len(list) BY DEF FilterInv, Matches
    <3> HIDE DEF T
    <3>5. /\ g \in Seq(SUBSET T) /\ Len(g) = Len(list) - 1
          /\ \A i \in 1 .. Len(list) - 1 : g[i] = IF i <= pos THEN given[i] ELSE given[i + 1]
      BY <1>1, <3>1, <3>4, Removed
    <3>6. /\ list' \in Seq(T) /\ Len(list') = Len(list) - 1
          /\ \A i \in 1 .. Len(list) - 1 : list'[i] = IF i <= pos THEN list[i] ELSE list[i + 1]
      BY <1>1, <3>1, <3>2, Removed
    <3> HIDE DEF g
    <3>7. ASSUME NEW i \in 1 .. Len(list')
          PROVE g[i] = {list'[i]} /\ list'[i].type # "OFF"
      <4>1. Len(list) \in Nat BY <1>1
      <4>2. i \in 1 .. Len(list) - 1 /\ i \in 1 .. Len(list) /\ i + 1 \in 1 .. Len(list)
        BY <3>6, <4>1
      <4>3. given[i] = {list[i]} /\ list[i].type # "OFF" BY <4>2 DEF FilterInv, Matches
      <4>4. given[i + 1] = {list[i + 1]} /\ list[i + 1].type # "OFF"
        BY <4>2 DEF FilterInv, Matches
      <4>5. CASE i <= pos BY <3>5, <3>6, <4>2, <4>3, <4>5
      <4>6. CASE ~(i <= pos) BY <3>5, <3>6, <4>2, <4>4, <4>6
      <4> QED BY <4>5, <4>6
    <3>8. Matches(list', g) BY <3>5, <3>6, <3>7 DEF Matches
    <3> QED BY <3>2, <3>3, <3>5, <3>6, <3>8
  <2> QED BY <2>1, <2>2, <2>3
<1>3. rules' \in [given : Seq(SUBSET T), next : SUBSET T] BY <1>2 DEF FilterInv
<1>4. rules'.given = g /\ rules'.next = rules.next BY <1>2 DEF FilterInv
<1> QED BY <1>2, <1>3, <1>4 DEF FilterInv

LEMMA FilterStep == CheckedFilter /\ FilterInv /\ L!FilterNext => FilterInv'
<1> SUFFICES ASSUME CheckedFilter, FilterInv, L!FilterNext PROVE FilterInv' OBVIOUS
<1>1. CASE L!acceptFrame BY <1>1, ConfigureStep DEF L!acceptFrame
<1>2. CASE L!rejectFrame BY <1>2, ConfigureStep DEF L!rejectFrame
<1>3. CASE L!appendFilter \/ L!ClearList
           \/ (\E pos \in 0 .. (MaxFilters - 1) : L!removeFilter(pos))
  BY <1>3, ListStep
<1> QED BY <1>1, <1>2, <1>3 DEF L!FilterNext

(* What the list lets pass is what its filters, taken as rules, cover.     *)
LEMMA ListDecides == FilterInv => L!FilterDecides
<1> SUFFICES ASSUME FilterInv PROVE L!FilterDecides OBVIOUS
<1>1. DOMAIN list = 1 .. Len(list) /\ DOMAIN rules.given = 1 .. Len(list) BY DEF FilterInv, Matches
<1>2. \A i \in DOMAIN list : list[i].type = "ACCEPT" \/ list[i].type = "REJECT"
  <2>1. \A i \in 1 .. Len(list) : list[i] \in FilterType BY DEF FilterInv
  <2> QED BY <1>1, <2>1 DEF FilterInv, Matches, FilterType
<1>3. \A r : r \in L!Given <=> \E i \in DOMAIN list : r = list[i]
  BY <1>1 DEF L!Given, L!Range, FilterInv, Matches
<1>4. ASSUME NEW f \in L!RealFrames, NEW type \in {"ACCEPT", "REJECT"}
      PROVE f \in L!Covered(type) <=> \E i \in DOMAIN list : list[i].type = type /\ L!match(list[i], f)
  BY <1>2, <1>3 DEF L!Covered, L!match
<1>5. L!Accepting <=> \E i \in DOMAIN list : list[i].type = "ACCEPT" BY <1>3 DEF L!Accepting
<1>6. ASSUME NEW f \in L!RealFrames
      PROVE ~L!IsFiltered(list, f) <=>
              /\ L!Accepting => f \in L!Covered("ACCEPT")
              /\ f \notin L!Covered("REJECT")
  BY <1>2, <1>4, <1>5 DEF L!IsFiltered
<1>7. L!Covered("ACCEPT") \subseteq L!RealFrames BY DEF L!Covered
<1> QED BY <1>6, <1>7 DEF L!FilterDecides

FilterKind == kind = "filter" => FilterInv

(* A frame passes a filter list exactly if the ranges the program asked to *)
(* accept or reject let it pass, for every list a program can build that   *)
(* appends only filters it could configure.                                *)
THEOREM FiltersDecide ==
  ASSUME CheckedFilter
  PROVE  MCSpec => []FilterDecides
<1>1. MCInit => FilterKind BY FilterStart DEF MCInit, FilterKind
<1>2. FilterKind /\ [MCNext]_MCvars => FilterKind'
  <2> SUFFICES ASSUME FilterKind, [MCNext]_MCvars, kind' = "filter" PROVE FilterInv'
    BY DEF FilterKind
  <2>1. kind = "filter" /\ FilterInv BY DEF FilterKind, MCNext, MCvars
  <2>2. L!FilterNext \/ UNCHANGED filterVars BY <2>1 DEF MCNext, MCvars
  <2>3. CASE L!FilterNext BY <2>1, <2>3, FilterStep
  <2>4. CASE UNCHANGED filterVars BY <2>1, <2>4 DEF filterVars, FilterInv, Matches
  <2> QED BY <2>2, <2>3, <2>4
<1>3. FilterKind => FilterDecides BY ListDecides DEF FilterKind, FilterDecides
<1> QED BY <1>1, <1>2, <1>3, PTL DEF MCSpec

------------------------------------------------------------------------------
(* Seconds and nano-seconds that are not yet a second are ordered, added   *)
(* and subtracted like the nano-seconds they stand for.                    *)
LEMMA Units ==
  /\ SecsLimit \in Nat /\ Invalid \in Nat /\ NanoPerSec \in Nat \ {0} /\ Width \in Nat \ {0}
  /\ SecsLimit < Invalid /\ NanoPerSec <= Invalid /\ Invalid < Width
  /\ 2 * NanoPerSec <= Width
BY UnitsAssumption

LEMMA Product == \A m, n \in Nat : m * n \in Nat
OBVIOUS

LEMMA MoreSeconds ==
  ASSUME NEW N \in Nat, NEW a \in Nat, NEW b \in Nat, a < b
  PROVE  a * N + N <= b * N
<1>1. PICK d \in Nat : b = a + 1 + d
  <2>1. b - a - 1 \in Nat /\ b = a + 1 + (b - a - 1) OBVIOUS
  <2> QED BY <2>1
<1>2. b * N = a * N + N + d * N BY <1>1
<1>3. d * N \in Nat BY Product
<1> QED BY <1>2, <1>3

Time == [secs : Nat, nanos : Nat]

LEMMA ValueType ==
  ASSUME NEW t \in Time
  PROVE  Value(t) \in Nat /\ Value(t) = t.secs * NanoPerSec + t.nanos /\ t.secs * NanoPerSec \in Nat
<1>1. t.secs \in Nat /\ t.nanos \in Nat BY DEF Time
<1>2. t.secs * NanoPerSec \in Nat BY <1>1, Units, Product
<1> QED BY <1>1, <1>2 DEF Value

LEMMA OrderedByValue ==
  ASSUME NEW t \in Time, NEW u \in Time, t.nanos < NanoPerSec, u.nanos < NanoPerSec
  PROVE  /\ Less(t, u) <=> Value(t) < Value(u)
         /\ t = u <=> Value(t) = Value(u)
<1>1. t.secs \in Nat /\ t.nanos \in Nat /\ u.secs \in Nat /\ u.nanos \in Nat BY DEF Time
<1>2. /\ Value(t) = t.secs * NanoPerSec + t.nanos /\ t.secs * NanoPerSec \in Nat
      /\ Value(u) = u.secs * NanoPerSec + u.nanos /\ u.secs * NanoPerSec \in Nat
  BY ValueType
<1>3. t = u <=> t.secs = u.secs /\ t.nanos = u.nanos BY DEF Time
<1>4. CASE t.secs < u.secs
  <2>1. t.secs * NanoPerSec + NanoPerSec <= u.secs * NanoPerSec
    BY <1>1, <1>4, Units, MoreSeconds
  <2>2. Value(t) < Value(u) BY <2>1, <1>1, <1>2, Units
  <2> QED BY <2>2, <1>1, <1>2, <1>3, <1>4 DEF Less
<1>5. CASE u.secs < t.secs
  <2>1. u.secs * NanoPerSec + NanoPerSec <= t.secs * NanoPerSec
    BY <1>1, <1>5, Units, MoreSeconds
  <2>2. Value(u) < Value(t) BY <2>1, <1>1, <1>2, Units
  <2>3. ~(Value(t) < Value(u)) /\ Value(t) # Value(u) BY <2>2, <1>1, <1>2
  <2> QED BY <2>3, <1>1, <1>3, <1>5 DEF Less
<1>6. CASE t.secs = u.secs
  <2>1. t.secs * NanoPerSec = u.secs * NanoPerSec BY <1>6
  <2> QED BY <2>1, <1>1, <1>2, <1>3, <1>6 DEF Less
<1> QED BY <1>1, <1>4, <1>5, <1>6

LEMMA LimitIsLast ==
  ASSUME NEW t \in Time, t.nanos < NanoPerSec
  PROVE  t.secs <= SecsLimit <=> Value(t) <= LastTime
<1>1. t.secs \in Nat /\ t.nanos \in Nat BY DEF Time
<1>2. Value(t) = t.secs * NanoPerSec + t.nanos /\ t.secs * NanoPerSec \in Nat BY ValueType
<1>3. SecsLimit * NanoPerSec \in Nat BY Units, Product
<1>4. CASE t.secs < SecsLimit
  <2>1. t.secs * NanoPerSec + NanoPerSec <= SecsLimit * NanoPerSec
    BY <1>1, <1>4, Units, MoreSeconds
  <2> QED BY <2>1, <1>1, <1>2, <1>3, <1>4, Units DEF LastTime
<1>5. CASE t.secs = SecsLimit
  <2>1. t.secs * NanoPerSec = SecsLimit * NanoPerSec BY <1>5
  <2> QED BY <2>1, <1>1, <1>2, <1>3, <1>5, Units DEF LastTime
<1>6. CASE SecsLimit < t.secs
  <2>1. SecsLimit * NanoPerSec + NanoPerSec <= t.secs * NanoPerSec
    BY <1>1, <1>6, Units, MoreSeconds
  <2> QED BY <2>1, <1>1, <1>2, <1>3, <1>6, Units DEF LastTime
<1> QED BY <1>1, <1>4, <1>5, <1>6, Units

(* What does not fit the 32 bits of a product is a multiple of 2^32, and   *)
(* is cut off again with the nano-seconds.                                 *)
LEMMA CutOff ==
  ASSUME NEW W \in Nat \ {0}, NEW r \in 0 .. W - 1, NEW k \in Nat, NEW a \in Nat, a = W * k + r
  PROVE  a % W = r
OBVIOUS

LEMMA Division ==
  ASSUME NEW M \in Nat \ {0}, NEW a \in Nat
  PROVE  \E q \in Nat, r \in 0 .. M - 1 :
           a = M * q + r /\ a \div M = q /\ a % M = r
<1>1. a = M * (a \div M) + (a % M) /\ a % M \in 0 .. M - 1 /\ a \div M \in Nat OBVIOUS
<1> QED BY <1>1

LEMMA SmallRest ==
  ASSUME NEW M \in Nat \ {0}, NEW n \in 0 .. M - 1
  PROVE  n % M = n
OBVIOUS

LEMMA FitsItsField ==
  ASSUME NEW n \in Nat, n < Width
  PROVE  n % Width = n
<1>1. n \in 0 .. Width - 1 BY Units
<1> QED BY <1>1, Units, SmallRest

(* The time stamp of a program that tests its results.                     *)
Exact(t, e) ==
  /\ t \in Time
  /\ IF e \in 0 .. LastTime THEN isValid(t) /\ Value(t) = e ELSE ~isValid(t)

LEMMA LastTimeType == LastTime \in Nat
<1>1. SecsLimit * NanoPerSec \in Nat BY Units, Product
<1> QED BY <1>1, Units DEF LastTime

(* A time whose nano-seconds are not yet a second shows its value.         *)
LEMMA ShowsItsValue ==
  ASSUME NEW t \in Time, t.nanos < NanoPerSec
  PROVE  Exact(t, Value(t))
<1>1. Value(t) \in Nat BY ValueType
<1>2. Value(t) \in 0 .. LastTime <=> t.secs <= SecsLimit BY <1>1, LimitIsLast, LastTimeType
<1> QED BY <1>2 DEF Exact, isValid

LEMMA ShowsNothing == Exact(InvalidStamp, Out)
<1>1. InvalidStamp \in Time /\ InvalidStamp.secs = Invalid BY Units DEF InvalidStamp, Time
<1>2. ~isValid(InvalidStamp) BY <1>1, Units DEF isValid
<1>3. Out \notin 0 .. LastTime BY LastTimeType DEF Out
<1> QED BY <1>1, <1>2, <1>3 DEF Exact

LEMMA ResultIs ==
  ASSUME NEW e \in Int, e \notin 0 .. LastTime
  PROVE  Result(e) = Out
BY LastTimeType DEF Result

LEMMA ValidIs ==
  ASSUME NEW t
  PROVE  t \in Valid <=> t \in Time /\ isValid(t)
BY Units DEF Valid, Time, isValid

LEMMA StampKeeps ==
  ASSUME NEW t \in Time, isValid(t)
  PROVE  Stamp(t.secs, t.nanos) = t
BY DEF Stamp, setSeconds, setNanoSeconds, isValid, Time

LEMMA PlusIsExact ==
  ASSUME NEW t \in Time, NEW u \in Time, isValid(t), isValid(u)
  PROVE  Exact(Plus(t, u), Result(Value(t) + Value(u)))
<1> DEFINE N == NanoPerSec
           sum == t.nanos + u.nanos
           carry == IF sum >= N THEN 1 ELSE 0
           secs == t.secs + u.secs + carry
           nanos == IF sum >= N THEN sum - N ELSE sum
           v == [secs |-> secs, nanos |-> nanos]
<1>1. /\ t.secs \in Nat /\ t.nanos \in Nat /\ u.secs \in Nat /\ u.nanos \in Nat
      /\ t.nanos < N /\ u.nanos < N
  BY DEF Time, isValid
<1>2. sum \in Nat /\ sum < Width BY <1>1, Units
<1>3. sum % Width = sum
  <2> HIDE DEF sum
  <2> QED BY <1>2, FitsItsField
<1>4. secs \in Nat /\ nanos \in Nat /\ nanos < N BY <1>1, Units
<1>5. v \in Time /\ v.secs = secs /\ v.nanos = nanos BY <1>4 DEF Time
<1>6. Value(v) = Value(t) + Value(u)
  <2>1. /\ Value(v) = secs * N + nanos /\ Value(t) = t.secs * N + t.nanos
        /\ Value(u) = u.secs * N + u.nanos
    BY <1>5 DEF Value
  <2>2. CASE sum >= N
    <3>1. secs * N = t.secs * N + u.secs * N + N BY <1>1, <2>2, Units
    <3>2. t.secs * N \in Nat /\ u.secs * N \in Nat BY <1>1, Units, Product
    <3> QED BY <2>1, <2>2, <3>1, <3>2, <1>1, Units
  <2>3. CASE ~(sum >= N)
    <3>1. secs * N = t.secs * N + u.secs * N BY <1>1, <2>3, Units
    <3>2. t.secs * N \in Nat /\ u.secs * N \in Nat BY <1>1, Units, Product
    <3> QED BY <2>1, <2>3, <3>1, <3>2, <1>1, Units
  <2> QED BY <2>2, <2>3
<1>7. Exact(v, Value(v)) /\ Value(v) \in Nat BY <1>4, <1>5, ShowsItsValue, ValueType
<1>8. CASE secs > SecsLimit
  <2>1. Plus(t, u) = InvalidStamp BY <1>3, <1>8 DEF Plus
  <2>2. ~isValid(v) BY <1>5, <1>8, <1>4, Units DEF isValid
  <2>3. Value(v) \notin 0 .. LastTime BY <1>7, <2>2 DEF Exact
  <2>4. Result(Value(t) + Value(u)) = Out BY <1>6, <1>7, <2>3, ResultIs
  <2> QED BY <2>1, <2>4, ShowsNothing
<1>9. CASE ~(secs > SecsLimit)
  <2>1. Plus(t, u) = Stamp(secs, nanos) BY <1>3, <1>9 DEF Plus
  <2>2. isValid(v) BY <1>5, <1>9, <1>4, Units DEF isValid
  <2>3. Stamp(secs, nanos) = v
    <3>1. Stamp(v.secs, v.nanos) = v BY <1>5, <2>2, StampKeeps
    <3> QED BY <3>1, <1>5
  <2>4. Value(v) \in 0 .. LastTime BY <1>7, <2>2 DEF Exact
  <2>5. Result(Value(v)) = Value(v) BY <2>4, LastTimeType DEF Result
  <2> QED BY <2>1, <2>3, <2>5, <1>6, <1>7
<1> QED BY <1>8, <1>9

LEMMA MinusIsExact ==
  ASSUME NEW t \in Time, NEW u \in Time, isValid(t), isValid(u)
  PROVE  Exact(Minus(t, u), Result(Value(t) - Value(u)))
<1> DEFINE N == NanoPerSec
           borrow == IF t.nanos < u.nanos THEN 1 ELSE 0
           secs == t.secs - u.secs - borrow
           nanos == t.nanos + (IF t.nanos < u.nanos THEN N ELSE 0) - u.nanos
           v == [secs |-> secs, nanos |-> nanos]
<1>1. /\ t.secs \in Nat /\ t.nanos \in Nat /\ u.secs \in Nat /\ u.nanos \in Nat
      /\ t.nanos < N /\ u.nanos < N /\ t.secs <= SecsLimit
  BY DEF Time, isValid
<1>2. Less(t, u) <=> Value(t) < Value(u) BY <1>1, OrderedByValue
<1>3. Value(t) \in Nat /\ Value(u) \in Nat BY ValueType
<1>4. CASE Less(t, u)
  <2>1. Minus(t, u) = InvalidStamp BY <1>4 DEF Minus
  <2>2. Value(t) - Value(u) \in Int /\ Value(t) - Value(u) \notin 0 .. LastTime
    BY <1>2, <1>3, <1>4
  <2>3. Result(Value(t) - Value(u)) = Out BY <2>2, ResultIs
  <2> QED BY <2>1, <2>3, ShowsNothing
<1>5. CASE ~Less(t, u)
  <2>1. secs \in Nat /\ secs <= SecsLimit /\ nanos \in Nat /\ nanos < N
    BY <1>1, <1>5, Units DEF Less
  <2>2. secs % Width = secs /\ nanos % Width = nanos
    <3> HIDE DEF secs, nanos
    <3>1. secs < Width /\ nanos < Width BY <2>1, Units
    <3> QED BY <2>1, <3>1, FitsItsField
  <2>3. Minus(t, u) = v BY <1>5, <2>2 DEF Minus
  <2>4. v \in Time /\ v.secs = secs /\ v.nanos = nanos BY <2>1 DEF Time
  <2>5. Value(v) = Value(t) - Value(u)
    <3>1. /\ Value(v) = secs * N + nanos /\ Value(t) = t.secs * N + t.nanos
          /\ Value(u) = u.secs * N + u.nanos
      BY <2>4 DEF Value
    <3>2. t.secs * N \in Nat /\ u.secs * N \in Nat BY <1>1, Units, Product
    <3>3. CASE t.nanos < u.nanos
      <4>1. secs * N = t.secs * N - u.secs * N - N BY <1>1, <3>3, Units
      <4> QED BY <3>1, <3>2, <3>3, <4>1, <1>1, Units
    <3>4. CASE ~(t.nanos < u.nanos)
      <4>1. secs * N = t.secs * N - u.secs * N BY <1>1, <3>4, Units
      <4> QED BY <3>1, <3>2, <3>4, <4>1, <1>1, Units
    <3> QED BY <3>3, <3>4
  <2>6. Exact(v, Value(v)) /\ isValid(v)
    BY <2>1, <2>4, ShowsItsValue DEF isValid
  <2>7. Value(v) \in Nat BY <2>4, ValueType
  <2>8. Value(v) \in 0 .. LastTime BY <2>1, <2>4, <2>7, LimitIsLast, LastTimeType
  <2>9. Result(Value(v)) = Value(v) BY <2>8, LastTimeType DEF Result
  <2> QED BY <2>3, <2>5, <2>6, <2>9
<1> QED BY <1>4, <1>5

(* A count of any size: its seconds are cut to 32 bits (s), its rest is not. *)
LEMMA FromUnitsIsExact ==
  ASSUME NEW npu \in Nat \ {0}, NanoPerSec % npu = 0, NEW count \in Nat
  PROVE  Exact(FromUnits(count, npu), CounterTime(count, npu)) /\ CounterTime(count, npu) \in Nat
<1> DEFINE N == NanoPerSec
<1>1. PICK perSec \in Nat : N = npu * perSec /\ N \div npu = perSec
  BY Units, Division
<1>2. perSec # 0 BY <1>1, Units
<1>3. PICK q \in Nat, r \in 0 .. perSec - 1 :
        count = perSec * q + r /\ count \div perSec = q
  BY <1>2, Division
<1>4. PICK j \in Nat, s \in 0 .. Width - 1 : q = Width * j + s /\ q % Width = s
  <2>1. Width \in Nat \ {0} BY Units
  <2>2. \E j \in Nat, s \in 0 .. Width - 1 :
          q = Width * j + s /\ q \div Width = j /\ q % Width = s
    BY <2>1, Division
  <2> QED BY <2>2
<1>5. s \in Nat /\ s < Width BY Units
<1>6. PICK k \in Nat, m \in 0 .. Width - 1 :
        s * perSec = Width * k + m /\ (s * perSec) % Width = m
  <2>1. s * perSec \in Nat BY Product
  <2> DEFINE a == s * perSec
  <2> HIDE DEF a
  <2>2. a \in Nat BY <2>1 DEF a
  <2>3. \E k \in Nat, m \in 0 .. Width - 1 : a = Width * k + m /\ a % Width = m
    <3>1. Width \in Nat \ {0} BY Units
    <3>2. \E k \in Nat, m \in 0 .. Width - 1 :
            a = Width * k + m /\ a \div Width = k /\ a % Width = m
      BY <2>2, <3>1, Division
    <3> QED BY <3>2
  <2> QED BY <2>3 DEF a
<1> DEFINE cut == Width * perSec
           left == perSec * s + r
           h == k + perSec * j
           rest == count - m
<1>7. count = cut * j + left /\ left \in Nat /\ left < cut
  <2>1. perSec * q = perSec * (Width * j) + perSec * s BY <1>4, Units
  <2>2. perSec * (Width * j) = cut * j BY Units
  <2>3. perSec * s \in Nat /\ cut * j \in Nat BY <1>5, Units, Product
  <2>4. s * perSec + perSec <= Width * perSec BY <1>5, Units, MoreSeconds
  <2>5. s * perSec = perSec * s BY <1>5
  <2>6. cut \in Nat BY Units, Product
  <2> QED BY <1>3, <2>1, <2>2, <2>3, <2>4, <2>5, <2>6
<1>8. CounterTime(count, npu) = left * npu
  <2>1. cut \in Nat \ {0}
    <3>1. cut \in Nat BY Units, Product
    <3> QED BY <1>7, <3>1
  <2>2. left \in 0 .. cut - 1 BY <1>7, <2>1
  <2>3. count % cut = left
    <3> HIDE DEF cut, left
    <3> QED BY <1>7, <2>1, <2>2, CutOff
  <2> QED BY <1>1, <2>3 DEF CounterTime
<1>9. h \in Nat /\ rest = r + Width * h
  <2>1. perSec * j \in Nat /\ s * perSec \in Nat BY <1>5, Product
  <2>2. s * perSec = perSec * s BY <1>5
  <2>3. cut * j = Width * (perSec * j) BY Units
  <2>4. Width * h = Width * k + Width * (perSec * j) BY <2>1, Units
  <2>5. Width * k \in Nat /\ Width * (perSec * j) \in Nat BY <2>1, Units, Product
  <2> QED BY <1>6, <1>7, <2>1, <2>2, <2>3, <2>4, <2>5
<1>10. (rest * npu) % Width = r * npu
  <2>1. r * npu \in Nat /\ r * npu < N
    <3>1. r * npu + npu <= perSec * npu BY MoreSeconds
    <3>2. perSec * npu = N BY <1>1
    <3>3. r * npu \in Nat BY Product
    <3> QED BY <3>1, <3>2, <3>3, Units
  <2>2. r * npu \in 0 .. Width - 1 BY <2>1, Units
  <2>3. rest * npu = Width * (h * npu) + r * npu
    <3> HIDE DEF h, rest
    <3>1. (r + Width * h) * npu = r * npu + (Width * h) * npu BY <1>9, Units
    <3>2. (Width * h) * npu = Width * (h * npu) BY <1>9, Units
    <3>3. (Width * h) * npu \in Nat BY <1>9, Units, Product
    <3> QED BY <1>9, <2>1, <3>1, <3>2, <3>3
  <2>4. h * npu \in Nat BY <1>9, Product
  <2>5. rest * npu \in Nat BY <2>1, <2>3, <2>4, Units, Product
  <2> DEFINE x == r * npu
             y == h * npu
             z == rest * npu
  <2>6. x \in 0 .. Width - 1 /\ y \in Nat /\ z \in Nat /\ z = Width * y + x
    BY <2>2, <2>3, <2>4, <2>5
  <2> HIDE DEF x, y, z
  <2>7. z % Width = x BY <2>6, Units, CutOff
  <2> QED BY <2>7 DEF x, z
<1> DEFINE v == [secs |-> s, nanos |-> r * npu]
<1>11. FromUnits(count, npu) = v BY <1>1, <1>3, <1>4, <1>6, <1>10 DEF FromUnits
<1>12. v \in Time /\ v.nanos < N
  <2>1. r * npu + npu <= perSec * npu BY MoreSeconds
  <2>2. perSec * npu = N BY <1>1
  <2>3. r * npu \in Nat BY Product
  <2> QED BY <2>1, <2>2, <2>3, Units DEF Time
<1>13. Value(v) = left * npu
  <2>1. Value(v) = s * N + r * npu BY DEF Value
  <2>2. left * npu = (perSec * s) * npu + r * npu BY <1>5
  <2>3. (perSec * s) * npu = s * N BY <1>1, <1>5
  <2> QED BY <2>1, <2>2, <2>3
<1>14. Exact(v, left * npu) /\ left * npu \in Nat
  <2>1. Exact(v, Value(v)) BY <1>12, ShowsItsValue
  <2> QED BY <1>7, <1>13, <2>1, Product
<1> QED BY <1>11, <1>8, <1>14

------------------------------------------------------------------------------
LEMMA StampStep ==
  ASSUME CheckedUse, Exact(stamp, exact), exact \in Int, StampNext
  PROVE  Exact(stamp', exact') /\ exact' \in Int
<1>1. ASSUME Usable
      PROVE  stamp \in Time /\ isValid(stamp) /\ exact = Value(stamp) /\ exact \in 0 .. LastTime
  BY <1>1 DEF Usable, Exact
<1>2. Out \notin 0 .. LastTime /\ Out \in Int BY LastTimeType DEF Out
<1>3. \A e \in Int : Result(e) \in Int BY <1>2 DEF Result
<1>4. CASE clear
  <2> DEFINE t == [secs |-> 0, nanos |-> 0]
  <2>1. t \in Time /\ t.nanos < NanoPerSec BY Units DEF Time
  <2>2. Value(t) = 0 BY Units DEF Value
  <2>3. stamp' = t /\ exact' = 0 BY <1>4 DEF clear
  <2> QED BY <2>1, <2>2, <2>3, ShowsItsValue
<1>5. ASSUME NEW t \in Valid, Construct(t) PROVE Exact(stamp', exact') /\ exact' \in Int
  <2>1. t \in Time /\ isValid(t) BY ValidIs
  <2>2. stamp' = t /\ exact' = Value(t) BY <1>5, <2>1, StampKeeps DEF Construct
  <2>3. t.nanos < NanoPerSec BY <2>1 DEF isValid
  <2> QED BY <2>1, <2>2, <2>3, ShowsItsValue, ValueType
<1>6. ASSUME NEW t \in Valid, Add(t) PROVE Exact(stamp', exact') /\ exact' \in Int
  <2>1. t \in Time /\ isValid(t) BY ValidIs
  <2>2. Usable /\ stamp' = Plus(stamp, t) BY <1>6 DEF Add
  <2>3. exact' = Result(Value(stamp) + Value(t)) BY <1>1, <1>2, <1>6, <2>2 DEF Add
  <2>4. Value(stamp) + Value(t) \in Int BY <1>1, <2>1, <2>2, ValueType
  <2> QED BY <1>1, <1>3, <2>1, <2>2, <2>3, <2>4, PlusIsExact
<1>7. ASSUME NEW t \in Valid, Subtract(t) PROVE Exact(stamp', exact') /\ exact' \in Int
  <2>1. t \in Time /\ isValid(t) BY ValidIs
  <2>2. Usable /\ stamp' = Minus(stamp, t) BY <1>7 DEF Subtract
  <2>3. exact' = Result(Value(stamp) - Value(t)) BY <1>1, <1>2, <1>7, <2>2 DEF Subtract
  <2>4. Value(stamp) - Value(t) \in Int BY <1>1, <2>1, <2>2, ValueType
  <2> QED BY <1>1, <1>3, <2>1, <2>2, <2>3, <2>4, MinusIsExact
<1>8. ASSUME NEW npu \in {NanoPerMicro, NanoPerMilli},
             NEW count \in Nat,
             stamp' = FromUnits(count, npu), exact' = CounterTime(count, npu)
      PROVE  Exact(stamp', exact') /\ exact' \in Int
  <2>1. npu \in Nat \ {0} /\ NanoPerSec % npu = 0 BY UnitsAssumption
  <2> QED BY <1>8, <2>1, FromUnitsIsExact
<1>9. CASE \E count \in 0 .. (MaxSeconds * (NanoPerSec \div NanoPerMicro) - 1) :
             fromMicroSeconds(count)
  <2>1. PICK count \in 0 .. (MaxSeconds * (NanoPerSec \div NanoPerMicro) - 1) :
          fromMicroSeconds(count)
    BY <1>9
  <2>2. count \in Nat OBVIOUS
  <2> QED BY <1>8, <2>1, <2>2 DEF fromMicroSeconds
<1>10. CASE \E count \in 0 .. (MaxSeconds * (NanoPerSec \div NanoPerMilli) - 1) :
              fromMilliSeconds(count)
  <2>1. PICK count \in 0 .. (MaxSeconds * (NanoPerSec \div NanoPerMilli) - 1) :
          fromMilliSeconds(count)
    BY <1>10
  <2>2. count \in Nat OBVIOUS
  <2> QED BY <1>8, <2>1, <2>2 DEF fromMilliSeconds
<1>11. CASE Transfer
  <2>1. Usable /\ stamp' = Stamp(stamp.secs, stamp.nanos) /\ exact' = exact
    BY <1>11 DEF Transfer
  <2>2. stamp' = stamp BY <1>1, <2>1, StampKeeps
  <2> QED BY <2>1, <2>2
<1> QED BY <1>4, <1>5, <1>6, <1>7, <1>9, <1>10, <1>11 DEF StampNext

LEMMA ExactIsOrdered == Exact(stamp, exact) => StampIsExact
<1> SUFFICES ASSUME Exact(stamp, exact) PROVE StampIsExact OBVIOUS
<1>1. ASSUME exact \in 0 .. LastTime, NEW t \in Valid
      PROVE  /\ Less(stamp, t) <=> exact < Value(t)
             /\ LessEqual(stamp, t) <=> exact <= Value(t)
             /\ Greater(stamp, t) <=> exact > Value(t)
             /\ GreaterEqual(stamp, t) <=> exact >= Value(t)
  <2>1. t \in Time /\ t.nanos < NanoPerSec BY ValidIs DEF isValid
  <2>2. stamp \in Time /\ stamp.nanos < NanoPerSec /\ Value(stamp) = exact
    BY <1>1 DEF Exact, isValid
  <2>3. (Less(stamp, t) <=> exact < Value(t)) /\ (stamp = t <=> exact = Value(t))
    BY <2>1, <2>2, OrderedByValue
  <2>4. exact \in Int /\ Value(t) \in Int BY <1>1, <2>1, LastTimeType, ValueType
  <2>5. /\ LessEqual(stamp, t) <=> exact = Value(t) \/ exact < Value(t)
        /\ Greater(stamp, t) <=> ~(exact < Value(t)) /\ exact # Value(t)
        /\ GreaterEqual(stamp, t) <=> exact = Value(t) \/ ~(exact < Value(t))
    BY <2>3 DEF LessEqual, Greater, GreaterEqual
  <2> QED BY <2>3, <2>4, <2>5
<1> QED BY <1>1 DEF StampIsExact, Exact

StampKind == kind = "stamp" => Exact(stamp, exact) /\ exact \in Int

(* Of a program that tests each result, the time stamp is the exact sum of *)
(* what went into it, it is invalid when that sum is out of range, and it  *)
(* is ordered as the exact time: for every width of the fields, every      *)
(* limit, every unit that divides a second and every count.  A count goes  *)
(* in modulo 2^32 seconds (CounterTime): of one that is larger the stamp   *)
(* shows what is left, and is not invalid (fromMicroSeconds).              *)
THEOREM StampsAreExact ==
  ASSUME CheckedUse
  PROVE  MCSpec => []TimeIsExact
<1>1. MCInit => StampKind
  <2> SUFFICES ASSUME StampInit PROVE Exact(stamp, exact) /\ exact \in Int
    BY DEF MCInit, StampKind
  <2> DEFINE t == [secs |-> 0, nanos |-> 0]
  <2>1. t \in Time /\ t.nanos < NanoPerSec BY Units DEF Time
  <2>2. Value(t) = 0 BY Units DEF Value
  <2>3. stamp = t /\ exact = 0 BY DEF StampInit
  <2> QED BY <2>1, <2>2, <2>3, ShowsItsValue
<1>2. StampKind /\ [MCNext]_MCvars => StampKind'
  <2> SUFFICES ASSUME StampKind, [MCNext]_MCvars, kind' = "stamp"
               PROVE  Exact(stamp', exact') /\ exact' \in Int
    BY DEF StampKind
  <2>1. kind = "stamp" /\ Exact(stamp, exact) /\ exact \in Int BY DEF StampKind, MCNext, MCvars
  <2>2. StampNext \/ UNCHANGED stampVars BY <2>1 DEF MCNext, MCvars
  <2>3. CASE StampNext BY <2>1, <2>3, StampStep
  <2>4. CASE UNCHANGED stampVars BY <2>1, <2>4 DEF stampVars
  <2> QED BY <2>2, <2>3, <2>4
<1>3. StampKind => TimeIsExact BY ExactIsOrdered DEF StampKind, TimeIsExact
<1> QED BY <1>1, <1>2, <1>3, PTL DEF MCSpec

------------------------------------------------------------------------------
(* The conversions.  A frame, and a message that is no remote procedure    *)
(* call, never have a DLC their format does not allow.                     *)
Held == Byte \cup Counters \cup Rates \cup 0 .. 5
FrameRec ==
  [id : [low : Low, high : High, error : BOOLEAN], dlc : 0 .. 15,
   ctrl : SUBSET {"EXT", "FDF", "RTR", "BRS", "ESI"}, bytes : [Positions -> Held]]
MsgRec ==
  [id : Identifiers, dlc : 0 .. 15 \cup Modes,
   ctrl : SUBSET {"EXT", "FDF", "RTR", "BRS", "ESI", "OVR", "RPC"}, bytes : [Positions -> Held]]
Allowed(x) == x.dlc \in 0 .. 15 /\ x.dlc <= Limit(x.ctrl)

IsFrame(f) == f \in FrameRec /\ Allowed(f)
IsMessage(m) == m \in MsgRec /\ (CpMsgIsRpc(m) \/ Allowed(m))

LEMMA SizesOfDlcs ==
  /\ DlcToSize[0] = 0 /\ DlcToSize[1] = 1 /\ DlcToSize[2] = 2 /\ DlcToSize[3] = 3
  /\ DlcToSize[4] = 4 /\ DlcToSize[5] = 5 /\ DlcToSize[6] = 6 /\ DlcToSize[7] = 7
  /\ DlcToSize[8] = 8 /\ DlcToSize[9] = 12 /\ DlcToSize[10] = 16 /\ DlcToSize[11] = 20
  /\ DlcToSize[12] = 24 /\ DlcToSize[13] = 32 /\ DlcToSize[14] = 48 /\ DlcToSize[15] = 64
BY DEF DlcToSize

LEMMA LongerIsLarger ==
  \A a, b \in 0 .. 15 : DlcToSize[a] \in 0 .. 64 /\ (a <= b => DlcToSize[a] <= DlcToSize[b])
<1>1. ASSUME NEW a \in 0 .. 15 PROVE a \in {0,1,2,3,4,5,6,7,8,9,10,11,12,13,14,15} OBVIOUS
<1>2. ASSUME NEW a \in 0 .. 15 PROVE DlcToSize[a] \in 0 .. 64 BY <1>1, SizesOfDlcs
<1>3. ASSUME NEW a \in 0 .. 14 PROVE DlcToSize[a] < DlcToSize[a + 1] BY <1>1, SizesOfDlcs
<1>4. ASSUME NEW a \in 0 .. 15, NEW b \in 0 .. 15, a <= b PROVE DlcToSize[a] <= DlcToSize[b]
  BY <1>1, <1>4, SizesOfDlcs
<1> QED BY <1>2, <1>4

LEMMA SizeHasDlc == \A size \in Nat : SizeToDlc(size) \in 0 .. 15
<1> SUFFICES ASSUME NEW size \in Nat PROVE SizeToDlc(size) \in 0 .. 15 OBVIOUS
<1> DEFINE P(d) == /\ DlcToSize[d] >= size \/ d = 15
                   /\ \A shorter \in 0 .. (d - 1) : DlcToSize[shorter] < size
<1>1. \E d \in 0 .. 15 : P(d)
  <2>1. CASE size <= 8
    <3>1. DlcToSize[size] = size BY <2>1 DEF DlcToSize
    <3>2. ASSUME NEW shorter \in 0 .. size - 1 PROVE DlcToSize[shorter] < size
      BY <2>1, <3>2 DEF DlcToSize
    <3> QED BY <2>1, <3>1, <3>2
  <2>2. ASSUME NEW d \in 9 .. 15, DlcToSize[d - 1] < size, DlcToSize[d] >= size \/ d = 15
        PROVE  P(d)
    <3>1. ASSUME NEW shorter \in 0 .. d - 1 PROVE DlcToSize[shorter] < size
      <4>1. shorter \in 0 .. 15 /\ d - 1 \in 0 .. 15 /\ shorter <= d - 1 OBVIOUS
      <4>2. DlcToSize[shorter] <= DlcToSize[d - 1] /\ DlcToSize[shorter] \in 0 .. 64
            /\ DlcToSize[d - 1] \in 0 .. 64
        BY <4>1, LongerIsLarger
      <4> QED BY <2>2, <4>2
    <3> QED BY <2>2, <3>1
  <2>3. CASE size > 8 /\ size <= 12 BY <2>2, <2>3, SizesOfDlcs
  <2>4. CASE size > 12 /\ size <= 16 BY <2>2, <2>4, SizesOfDlcs
  <2>5. CASE size > 16 /\ size <= 20 BY <2>2, <2>5, SizesOfDlcs
  <2>6. CASE size > 20 /\ size <= 24 BY <2>2, <2>6, SizesOfDlcs
  <2>7. CASE size > 24 /\ size <= 32 BY <2>2, <2>7, SizesOfDlcs
  <2>8. CASE size > 32 /\ size <= 48 BY <2>2, <2>8, SizesOfDlcs
  <2>9. CASE size > 48 BY <2>2, <2>9, SizesOfDlcs
  <2> QED BY <2>1, <2>3, <2>4, <2>5, <2>6, <2>7, <2>8, <2>9
<1> QED BY <1>1 DEF SizeToDlc

LEMMA LimitIs == \A ctrl : Limit(ctrl) \in {8, 15} /\ (Limit(ctrl) = 15 <=> "FDF" \in ctrl)
BY DEF Limit

LEMMA MaskedIs ==
  ASSUME NEW ctrl, NEW id \in Identifiers
  PROVE  /\ Masked(id, ctrl) \in Identifiers /\ Masked(id, ctrl).low = id.low
         /\ Masked(id, ctrl).high = IF "EXT" \in ctrl THEN id.high ELSE 0
         /\ Masked(Masked(id, ctrl), ctrl) = Masked(id, ctrl)
BY DEF Masked, Identifiers, High, Low

LEMMA ZeroesType == Zeroes \in [Positions -> Held]
BY DEF Zeroes, Held

(* What each setter makes of a frame.                                      *)
LEMMA FormatOf ==
  ASSUME NEW f, IsFrame(f), NEW format \in Formats
  PROVE  LET g == WithFormat(f, format)
         IN /\ IsFrame(g) /\ frameFormat(g) = format
            /\ g.ctrl = (f.ctrl \cup format) \cap g.ctrl
<1> DEFINE fd == "FDF" \in format
           c == ((f.ctrl \ {"EXT", "FDF"}) \cup format) \ (IF fd THEN {"RTR"} ELSE {"BRS", "ESI"})
           d == IF f.dlc > 8 /\ ~fd THEN 8 ELSE f.dlc
           g == WithFormat(f, format)
<1>1. c \in SUBSET {"EXT", "FDF", "RTR", "BRS", "ESI"} BY DEF IsFrame, FrameRec, Formats
<1>2. d \in 0 .. 15 BY DEF IsFrame, FrameRec
<1>3. g = [f EXCEPT !.ctrl = c, !.dlc = d] BY DEF WithFormat, IsFrame, FrameRec
<1>4. c \cap {"EXT", "FDF"} = format /\ c = (f.ctrl \cup format) \cap c BY DEF Formats
<1>5. "FDF" \in c <=> fd BY DEF Formats
<1>6. d <= Limit(c) BY <1>5, <1>2 DEF Limit, IsFrame, Allowed
<1> HIDE DEF c, d, g
<1>7. g \in FrameRec /\ g.ctrl = c /\ g.dlc = d BY <1>1, <1>2, <1>3 DEF IsFrame, FrameRec
<1>8. IsFrame(g) /\ frameFormat(g) = format /\ g.ctrl = (f.ctrl \cup format) \cap g.ctrl
  BY <1>2, <1>4, <1>6, <1>7 DEF IsFrame, Allowed, frameFormat
<1> QED BY <1>8 DEF g

LEMMA IdentifierOf ==
  ASSUME NEW f, IsFrame(f), NEW id \in Identifiers
  PROVE  LET g == WithIdentifier(f, id)
         IN /\ IsFrame(g) /\ g.ctrl = f.ctrl /\ identifier(g) = Masked(id, f.ctrl)
<1> DEFINE m == Masked(id, f.ctrl)
           i == [low |-> m.low, high |-> m.high, error |-> FALSE]
           g == WithIdentifier(f, id)
<1>1. m \in Identifiers /\ Masked(m, f.ctrl) = m BY MaskedIs
<1> HIDE DEF m
<1>2. i \in [low : Low, high : High, error : BOOLEAN] BY <1>1 DEF Identifiers
<1>3. g = [f EXCEPT !.id = i] BY DEF WithIdentifier, m
<1>4. [low |-> i.low, high |-> i.high] = m BY <1>1 DEF Identifiers
<1> HIDE DEF i, g
<1>5. /\ g \in FrameRec /\ g.ctrl = f.ctrl /\ g.dlc = f.dlc /\ g.id = i
  BY <1>2, <1>3 DEF IsFrame, FrameRec
<1>6. IsFrame(g) BY <1>5 DEF IsFrame, Allowed
<1>7. identifier(g) = m BY <1>1, <1>4, <1>5 DEF identifier
<1> QED BY <1>5, <1>6, <1>7 DEF g, m

LEMMA DlcOf ==
  ASSUME NEW f, IsFrame(f), NEW d \in Nat
  PROVE  LET g == WithDlc(f, d)
         IN /\ IsFrame(g) /\ g.ctrl = f.ctrl /\ g.id = f.id
            /\ d <= Limit(f.ctrl) => g.dlc = d
<1>1. CASE d <= Limit(f.ctrl)
  <2> DEFINE g == [f EXCEPT !.dlc = d]
  <2>1. d \in 0 .. 15 BY <1>1, LimitIs
  <2>2. g \in FrameRec /\ g.dlc = d /\ g.ctrl = f.ctrl /\ g.id = f.id BY <2>1 DEF IsFrame, FrameRec
  <2> HIDE DEF g
  <2>3. IsFrame(g) BY <1>1, <2>1, <2>2 DEF IsFrame, Allowed
  <2>4. WithDlc(f, d) = g BY <1>1 DEF WithDlc, g
  <2> QED BY <2>2, <2>3, <2>4
<1>2. CASE ~(d <= Limit(f.ctrl)) BY <1>2 DEF WithDlc
<1> QED BY <1>1, <1>2

LEMMA ControlOf ==
  ASSUME NEW f, IsFrame(f), NEW c \in SUBSET {"EXT", "FDF", "RTR", "BRS", "ESI"},
         c \cap {"EXT", "FDF"} = f.ctrl \cap {"EXT", "FDF"}
  PROVE  LET g == [f EXCEPT !.ctrl = c]
         IN IsFrame(g) /\ g.ctrl = c /\ g.id = f.id /\ frameFormat(g) = frameFormat(f)
<1> DEFINE g == [f EXCEPT !.ctrl = c]
<1>1. g \in FrameRec /\ g.ctrl = c /\ g.dlc = f.dlc /\ g.id = f.id BY DEF IsFrame, FrameRec
<1>2. "FDF" \in c <=> "FDF" \in f.ctrl OBVIOUS
<1> HIDE DEF g
<1>3. Limit(g.ctrl) = Limit(f.ctrl) BY <1>1, <1>2 DEF Limit
<1>4. IsFrame(g) BY <1>1, <1>3 DEF IsFrame, Allowed
<1> QED BY <1>1, <1>4 DEF g, frameFormat

LEMMA SwitchSet ==
  ASSUME NEW f, IsFrame(f), NEW on \in BOOLEAN
  PROVE  LET g == WithSwitch(f, on)
         IN /\ IsFrame(g) /\ frameFormat(g) = frameFormat(f)
            /\ IsFd(f) => (bitrateSwitch(g) <=> on)
<1> DEFINE c == IF on THEN f.ctrl \cup {"BRS"} ELSE f.ctrl \ {"BRS"}
           g == [f EXCEPT !.ctrl = c]
<1>1. CASE IsFd(f)
  <2>1. WithSwitch(f, on) = g BY <1>1 DEF WithSwitch, IsFrame, FrameRec
  <2>2. c \in SUBSET {"EXT", "FDF", "RTR", "BRS", "ESI"} BY DEF IsFrame, FrameRec
  <2>3. c \cap {"EXT", "FDF"} = f.ctrl \cap {"EXT", "FDF"} OBVIOUS
  <2>4. {"FDF", "BRS"} \subseteq c <=> on BY <1>1 DEF IsFd
  <2> HIDE DEF c
  <2>5. IsFrame(g) /\ g.ctrl = c /\ frameFormat(g) = frameFormat(f) BY <2>2, <2>3, ControlOf
  <2> HIDE DEF g
  <2> QED BY <2>1, <2>4, <2>5 DEF bitrateSwitch
<1>2. CASE ~IsFd(f) BY <1>2 DEF WithSwitch
<1> QED BY <1>1, <1>2

(* A frame takes over from a structure what its conversion sets.           *)
LEMMA FromMessage ==
  ASSUME NEW f, IsFrame(f), NEW m, m \in MsgRec, Allowed(m)
  PROVE  LET g == fromCpCanMsg(f, m)
         IN /\ IsFrame(g) /\ frameFormat(g) = m.ctrl \cap {"EXT", "FDF"}
            /\ bitrateSwitch(g) <=> {"FDF", "BRS"} \subseteq m.ctrl
            /\ identifier(g) = Masked(m.id, m.ctrl) /\ g.dlc = m.dlc
            /\ \A pos \in Positions : pos < DlcToSize[m.dlc] => g.bytes[pos] = m.bytes[pos]
<1> DEFINE format == m.ctrl \cap {"EXT", "FDF"}
           g1 == WithFormat(f, format)
           g2 == SwitchOf(g1, m)
           g3 == WithIdentifier(g2, m.id)
           g4 == WithDlc(g3, m.dlc)
           g5 == Copied(g4, m)
<1>0. fromCpCanMsg(f, m) = g5 BY DEF fromCpCanMsg
<1>1. IsFrame(g1) /\ frameFormat(g1) = format
  <2>1. format \in Formats BY DEF Formats
  <2> QED BY <2>1, FormatOf
<1>2. /\ IsFrame(g2) /\ frameFormat(g2) = format
      /\ bitrateSwitch(g2) <=> {"FDF", "BRS"} \subseteq m.ctrl
  <2> HIDE DEF g1
  <2>1. CASE "FDF" \in m.ctrl
    <3>1. IsFd(g1) BY <1>1, <2>1 DEF frameFormat, IsFd
    <3>2. ("BRS" \in m.ctrl) \in BOOLEAN /\ g2 = WithSwitch(g1, "BRS" \in m.ctrl) BY <2>1 DEF SwitchOf
    <3> QED BY <3>1, <3>2, <1>1, <2>1, SwitchSet
  <2>2. CASE "FDF" \notin m.ctrl
    <3>1. g2 = g1 BY <2>2 DEF SwitchOf
    <3>2. ~bitrateSwitch(g1) BY <1>1, <2>2 DEF frameFormat, bitrateSwitch
    <3> QED BY <3>1, <3>2, <1>1, <2>2
  <2> QED BY <2>1, <2>2
<1>3. /\ IsFrame(g3) /\ frameFormat(g3) = format
      /\ bitrateSwitch(g3) <=> {"FDF", "BRS"} \subseteq m.ctrl
      /\ identifier(g3) = Masked(m.id, m.ctrl)
  <2> HIDE DEF g2
  <2>1. m.id \in Identifiers BY DEF MsgRec
  <2>2. IsFrame(g3) /\ g3.ctrl = g2.ctrl /\ identifier(g3) = Masked(m.id, g2.ctrl)
    BY <1>2, <2>1, IdentifierOf
  <2>3. "EXT" \in g2.ctrl <=> "EXT" \in m.ctrl BY <1>2 DEF frameFormat
  <2>4. Masked(m.id, g2.ctrl) = Masked(m.id, m.ctrl) BY <2>3 DEF Masked
  <2> HIDE DEF g3
  <2> QED BY <1>2, <2>2, <2>4 DEF frameFormat, bitrateSwitch
<1>4. /\ IsFrame(g4) /\ g4.ctrl = g3.ctrl /\ g4.id = g3.id /\ g4.dlc = m.dlc
  <2> HIDE DEF g3
  <2>1. m.dlc \in 0 .. 15 /\ m.dlc <= Limit(m.ctrl) BY DEF Allowed
  <2>2. "FDF" \in g3.ctrl <=> "FDF" \in m.ctrl BY <1>3 DEF frameFormat
  <2>3. m.dlc \in Nat /\ m.dlc <= Limit(g3.ctrl) BY <2>1, <2>2 DEF Limit
  <2> QED BY <2>3, <1>3, DlcOf
<1>5. /\ IsFrame(g5) /\ g5.ctrl = g4.ctrl /\ g5.id = g4.id /\ g5.dlc = g4.dlc
      /\ \A pos \in Positions : pos < DlcToSize[m.dlc] => g5.bytes[pos] = m.bytes[pos]
  <2> HIDE DEF g4
  <2> DEFINE b == [pos \in Positions |->
                     IF pos < dataSize(g4) THEN m.bytes[pos] ELSE g4.bytes[pos]]
  <2>1. b \in [Positions -> Held] BY <1>4 DEF IsFrame, FrameRec, MsgRec
  <2>2. g5 = [g4 EXCEPT !.bytes = b] BY DEF Copied
  <2>3. \A pos \in Positions : pos < DlcToSize[m.dlc] => b[pos] = m.bytes[pos]
    BY <1>4 DEF dataSize
  <2> HIDE DEF b, g5
  <2>4. /\ g5 \in FrameRec /\ g5.ctrl = g4.ctrl /\ g5.id = g4.id /\ g5.dlc = g4.dlc /\ g5.bytes = b
    BY <2>1, <2>2, <1>4 DEF IsFrame, FrameRec
  <2> QED BY <2>3, <2>4, <1>4 DEF IsFrame, Allowed
<1> HIDE DEF g5, g4, g3
<1>6. /\ frameFormat(g5) = format /\ (bitrateSwitch(g5) <=> {"FDF", "BRS"} \subseteq m.ctrl)
      /\ identifier(g5) = Masked(m.id, m.ctrl)
  BY <1>3, <1>4, <1>5 DEF frameFormat, bitrateSwitch, identifier
<1> QED BY <1>0, <1>4, <1>5, <1>6

(* A structure takes over from a frame what its conversion reads.          *)
LEMMA ToMessage ==
  ASSUME NEW f, IsFrame(f), NEW m, m.bytes \in [Positions -> Held]
  PROVE  LET c == toCpCanMsg(f, m)
         IN /\ c \in MsgRec /\ Allowed(c) /\ c.ctrl \cap {"EXT", "FDF"} = frameFormat(f)
            /\ {"FDF", "BRS"} \subseteq c.ctrl <=> bitrateSwitch(f)
            /\ c.id = identifier(f) /\ c.dlc = f.dlc
            /\ \A pos \in Positions : pos < DlcToSize[f.dlc] => c.bytes[pos] = f.bytes[pos]
<1> DEFINE ctrl == frameFormat(f) \cup (IF bitrateSwitch(f) THEN {"BRS"} ELSE {})
                     \cup (IF errorStateIndicator(f) THEN {"ESI"} ELSE {})
                     \cup (IF isRemote(f) THEN {"RTR"} ELSE {})
           b == [pos \in Positions |-> IF pos < dataSize(f) THEN f.bytes[pos] ELSE m.bytes[pos]]
           c == toCpCanMsg(f, m)
<1>1. c = [id |-> identifier(f), dlc |-> f.dlc, ctrl |-> ctrl, bytes |-> b] BY DEF toCpCanMsg
<1>2. identifier(f) \in Identifiers
  <2>1. [low |-> f.id.low, high |-> f.id.high] \in Identifiers
    BY DEF IsFrame, FrameRec, Identifiers
  <2> QED BY <2>1, MaskedIs DEF identifier
<1>3. /\ ctrl \in SUBSET {"EXT", "FDF", "RTR", "BRS", "ESI", "OVR", "RPC"}
      /\ ctrl \cap {"EXT", "FDF"} = frameFormat(f)
  BY DEF frameFormat
<1>4. {"FDF", "BRS"} \subseteq ctrl <=> bitrateSwitch(f) BY DEF frameFormat, bitrateSwitch
<1>5. b \in [Positions -> Held] BY DEF IsFrame, FrameRec
<1>6. \A pos \in Positions : pos < DlcToSize[f.dlc] => b[pos] = f.bytes[pos] BY DEF dataSize
<1>7. f.dlc \in 0 .. 15 /\ f.dlc <= Limit(f.ctrl) BY DEF IsFrame, Allowed
<1> HIDE DEF ctrl, b, c
<1>8. c \in MsgRec /\ c.ctrl = ctrl /\ c.id = identifier(f) /\ c.dlc = f.dlc /\ c.bytes = b
  BY <1>1, <1>2, <1>3, <1>5, <1>7 DEF MsgRec
<1>9. Limit(ctrl) = Limit(f.ctrl)
  <2>1. "FDF" \in ctrl <=> "FDF" \in f.ctrl BY <1>3 DEF frameFormat
  <2> QED BY <2>1 DEF Limit
<1>10. Allowed(c) BY <1>7, <1>8, <1>9 DEF Allowed
<1> QED BY <1>3, <1>4, <1>6, <1>8, <1>10 DEF c

LEMMA ClearedType == Cleared \in MsgRec /\ Allowed(Cleared) /\ ~CpMsgIsRpc(Cleared)
<1>1. [pos \in Positions |-> 0] \in [Positions -> Held] BY DEF Held
<1>2. Cleared \in MsgRec /\ Cleared.dlc = 0 /\ Cleared.ctrl = {}
  BY <1>1 DEF Cleared, MsgRec, Identifiers, Low, High
<1> QED BY <1>2, LimitIs DEF Allowed, CpMsgIsRpc

(* Through a structure and back.                                           *)
LEMMA FrameThrough ==
  ASSUME NEW f, IsFrame(f), NEW target, IsFrame(target)
  PROVE  FrameSeen(fromCpCanMsg(target, toCpCanMsg(f, Cleared))) = FrameSeen(f)
<1> DEFINE m == toCpCanMsg(f, Cleared)
           g == fromCpCanMsg(target, m)
<1>1. /\ m \in MsgRec /\ Allowed(m) /\ m.ctrl \cap {"EXT", "FDF"} = frameFormat(f)
      /\ {"FDF", "BRS"} \subseteq m.ctrl <=> bitrateSwitch(f)
      /\ m.id = identifier(f) /\ m.dlc = f.dlc
      /\ \A pos \in Positions : pos < DlcToSize[f.dlc] => m.bytes[pos] = f.bytes[pos]
  <2>1. Cleared.bytes \in [Positions -> Held] BY ClearedType DEF MsgRec
  <2> QED BY <2>1, ToMessage
<1> HIDE DEF m
<1>2. /\ IsFrame(g) /\ frameFormat(g) = m.ctrl \cap {"EXT", "FDF"}
      /\ bitrateSwitch(g) <=> {"FDF", "BRS"} \subseteq m.ctrl
      /\ identifier(g) = Masked(m.id, m.ctrl) /\ g.dlc = m.dlc
      /\ \A pos \in Positions : pos < DlcToSize[m.dlc] => g.bytes[pos] = m.bytes[pos]
  BY <1>1, FromMessage
<1> HIDE DEF g
<1>3. identifier(g) = identifier(f)
  <2>1. [low |-> f.id.low, high |-> f.id.high] \in Identifiers
    BY DEF IsFrame, FrameRec, Identifiers
  <2>2. "EXT" \in m.ctrl <=> "EXT" \in f.ctrl BY <1>1 DEF frameFormat
  <2>3. Masked(m.id, m.ctrl) = Masked(m.id, f.ctrl) BY <2>2 DEF Masked
  <2>4. Masked(m.id, f.ctrl) = m.id BY <1>1, <2>1, MaskedIs DEF identifier
  <2> QED BY <1>1, <1>2, <2>3, <2>4
<1>4. data(g) = data(f)
  <2>1. dataSize(g) = dataSize(f) BY <1>1, <1>2 DEF dataSize
  <2>2. \A x \in Positions : x < dataSize(f) => g.bytes[x] = f.bytes[x]
    BY <1>1, <1>2 DEF dataSize
  <2> QED BY <2>1, <2>2 DEF data
<1>5. bitrateSwitch(g) = bitrateSwitch(f) BY <1>1, <1>2 DEF bitrateSwitch
<1>6. frameFormat(g) = frameFormat(f) /\ dlc(g) = dlc(f) BY <1>1, <1>2 DEF dlc
<1>7. FrameSeen(g) = FrameSeen(f) BY <1>3, <1>4, <1>5, <1>6 DEF FrameSeen
<1> QED BY <1>7 DEF g, m

LEMMA MessageThrough ==
  ASSUME NEW m, m \in MsgRec, Allowed(m), NEW target, IsFrame(target)
  PROVE  MsgSeen(toCpCanMsg(fromCpCanMsg(target, m), Cleared)) = MsgSeen(m)
<1> DEFINE g == fromCpCanMsg(target, m)
           c == toCpCanMsg(g, Cleared)
<1>1. /\ IsFrame(g) /\ frameFormat(g) = m.ctrl \cap {"EXT", "FDF"}
      /\ bitrateSwitch(g) <=> {"FDF", "BRS"} \subseteq m.ctrl
      /\ identifier(g) = Masked(m.id, m.ctrl) /\ g.dlc = m.dlc
      /\ \A pos \in Positions : pos < DlcToSize[m.dlc] => g.bytes[pos] = m.bytes[pos]
  BY FromMessage
<1> HIDE DEF g
<1>2. /\ c \in MsgRec /\ Allowed(c) /\ c.ctrl \cap {"EXT", "FDF"} = frameFormat(g)
      /\ {"FDF", "BRS"} \subseteq c.ctrl <=> bitrateSwitch(g)
      /\ c.id = identifier(g) /\ c.dlc = g.dlc
      /\ \A pos \in Positions : pos < DlcToSize[g.dlc] => c.bytes[pos] = g.bytes[pos]
  <2>1. Cleared.bytes \in [Positions -> Held] BY ClearedType DEF MsgRec
  <2> QED BY <2>1, <1>1, ToMessage
<1> HIDE DEF c
<1>3. ("EXT" \in c.ctrl <=> "EXT" \in m.ctrl) /\ ("FDF" \in c.ctrl <=> "FDF" \in m.ctrl)
  BY <1>1, <1>2
<1>4. CpMsgGetIdentifier(c) = CpMsgGetIdentifier(m)
  <2>1. Masked(c.id, c.ctrl) = Masked(c.id, m.ctrl) BY <1>3 DEF Masked
  <2>2. m.id \in Identifiers BY DEF MsgRec
  <2>3. Masked(c.id, m.ctrl) = Masked(m.id, m.ctrl) BY <1>1, <1>2, <2>2, MaskedIs
  <2> QED BY <2>1, <2>3 DEF CpMsgGetIdentifier
<1>5. CpMsgIsExtended(c) = CpMsgIsExtended(m) /\ CpMsgIsFdFrame(c) = CpMsgIsFdFrame(m)
  BY <1>3 DEF CpMsgIsExtended, CpMsgIsFdFrame
<1>6. CpMsgIsBitrateSwitchSet(c) = CpMsgIsBitrateSwitchSet(m)
  BY <1>1, <1>2 DEF CpMsgIsBitrateSwitchSet
<1>7. CpMsgGetDlc(c) = CpMsgGetDlc(m) /\ c.dlc = m.dlc BY <1>1, <1>2 DEF CpMsgGetDlc
<1>8. ASSUME NEW pos \in Positions, pos < DlcToSize[m.dlc]
      PROVE  CpMsgGetData(c, pos) = CpMsgGetData(m, pos)
  <2>1. c.bytes[pos] = m.bytes[pos] BY <1>1, <1>2, <1>8
  <2>2. Limit(c.ctrl) = Limit(m.ctrl) BY <1>3 DEF Limit
  <2> QED BY <2>1, <2>2 DEF CpMsgGetData
<1>9. [pos \in {x \in Positions : x < DlcToSize[c.dlc]} |-> CpMsgGetData(c, pos)]
        = [pos \in {x \in Positions : x < DlcToSize[m.dlc]} |-> CpMsgGetData(m, pos)]
  BY <1>7, <1>8
<1>10. MsgSeen(c) = MsgSeen(m) BY <1>4, <1>5, <1>6, <1>7, <1>9, Zenon DEF MsgSeen
<1> QED BY <1>10 DEF c, g

(* A 32-bit field goes into four bytes and comes back.                     *)
LEMMA Split ==
  ASSUME NEW B \in Nat \ {0}, NEW a \in Nat, NEW M \in Nat, a < M * B
  PROVE  /\ a \div B \in Nat /\ a \div B < M /\ a % B \in 0 .. B - 1
         /\ a = (a \div B) * B + (a % B)
<1>1. PICK q \in Nat, r \in 0 .. B - 1 : a = B * q + r /\ a \div B = q /\ a % B = r
  BY Division
<1>2. a = q * B + r BY <1>1
<1>3. q < M
  <2>1. SUFFICES ASSUME M <= q PROVE FALSE BY <1>1
  <2>2. PICK d \in Nat : q = M + d
    <3>1. q - M \in Nat /\ q = M + (q - M) BY <2>1
    <3> QED BY <3>1
  <2>3. q * B = M * B + d * B /\ d * B \in Nat BY <2>2, Product
  <2>4. q * B \in Nat /\ M * B \in Nat BY Product
  <2> QED BY <1>2, <2>3, <2>4
<1> QED BY <1>1, <1>2, <1>3

(* Dividing by a product is dividing twice.                                *)
LEMMA DivideTwice ==
  ASSUME NEW B \in Nat \ {0}, NEW C \in Nat \ {0}, NEW a \in Nat
  PROVE  a \div (B * C) = (a \div B) \div C
<1>1. PICK q \in Nat, r \in 0 .. B - 1 : a = B * q + r /\ a \div B = q BY Division
<1>2. PICK p \in Nat, s \in 0 .. C - 1 : q = C * p + s /\ q \div C = p BY Division
<1>3. a = (B * C) * p + (B * s + r)
  <2>1. a = B * (C * p + s) + r BY <1>1, <1>2
  <2> QED BY <2>1
<1>4. B * s + r \in 0 .. B * C - 1
  <2>1. s * B + B <= C * B BY <1>2, MoreSeconds
  <2>2. s * B = B * s /\ C * B = B * C /\ B * s \in Nat /\ B * C \in Nat BY Product
  <2> QED BY <2>1, <2>2
<1>5. B * C \in Nat \ {0}
  <2>1. B * C \in Nat BY Product
  <2> QED BY <2>1, <1>4
<1>6. a \div (B * C) = p
  <2> DEFINE n == B * C
             m == B * s + r
  <2>1. n \in Nat \ {0} /\ m \in 0 .. n - 1 /\ a = n * p + m BY <1>3, <1>4, <1>5
  <2> HIDE DEF n, m
  <2>2. PICK x \in Nat, y \in 0 .. n - 1 : a = n * x + y /\ a \div n = x BY <2>1, Division
  <2>3. x = p
    <3>1. CASE x < p
      <4>1. x * n + n <= p * n BY <2>1, <3>1, MoreSeconds
      <4>2. x * n = n * x /\ p * n = n * p /\ n * x \in Nat /\ n * p \in Nat BY <2>1, Product
      <4> QED BY <4>1, <4>2, <2>1, <2>2
    <3>2. CASE p < x
      <4>1. p * n + n <= x * n BY <2>1, <3>2, MoreSeconds
      <4>2. x * n = n * x /\ p * n = n * p /\ n * x \in Nat /\ n * p \in Nat BY <2>1, Product
      <4> QED BY <4>1, <4>2, <2>1, <2>2
    <3> QED BY <3>1, <3>2
  <2> QED BY <2>2, <2>3 DEF n
<1> QED BY <1>1, <1>2, <1>6

LEMMA BaseIs == Base \in Nat \ {0} /\ ((Base * Base) * Base) * Base = Width
BY BaseAssumption

LEMMA FieldThrough ==
  ASSUME NEW v \in Nat, v < Width
  PROVE  ((Octet(v, 0) * Base + Octet(v, 1)) * Base + Octet(v, 2)) * Base + Octet(v, 3) = v
<1> DEFINE a == v \div Base
           b == a \div Base
           c == b \div Base
           B2 == Base * Base
           B3 == B2 * Base
<1>0. B2 \in Nat \ {0} /\ B3 \in Nat \ {0} /\ B3 * Base = Width
  <2>1. B2 \in Nat /\ B3 \in Nat BY BaseIs, Product
  <2>2. B3 * Base = Width BY BaseIs
  <2>3. B2 # 0
    <3>1. ASSUME B2 = 0 PROVE FALSE
      <4>1. B3 * Base = (0 * Base) * Base BY <3>1
      <4> QED BY <4>1, <2>2, Units, BaseIs
    <3> QED BY <3>1
  <2>4. B3 # 0
    <3>1. ASSUME B3 = 0 PROVE FALSE
      <4>1. B3 * Base = 0 * Base BY <3>1
      <4> QED BY <4>1, <2>2, Units, BaseIs
    <3> QED BY <3>1
  <2> QED BY <2>1, <2>2, <2>3, <2>4
<1>1. a \in Nat /\ a < B3 /\ v = a * Base + (v % Base)
  <2> HIDE DEF B3
  <2> QED BY <1>0, BaseIs, Split
<1>2. b \in Nat /\ b < B2 /\ a = b * Base + (a % Base)
  <2>1. a < B2 * Base BY <1>1
  <2> HIDE DEF B2, B3, a
  <2> QED BY <2>1, <1>0, <1>1, BaseIs, Split
<1>3. c \in Nat /\ c < Base /\ b = c * Base + (b % Base)
  <2>1. b < Base * Base BY <1>2
  <2> HIDE DEF B2, B3, b
  <2> QED BY <2>1, <1>2, BaseIs, Split
<1>4. Octet(v, 3) = v % Base
  <2>1. v \div 1 = v OBVIOUS
  <2>2. Octet(v, 3) = (v \div 1) % Base BY DEF Octet, Weight
  <2> QED BY <2>1, <2>2
<1>5. Octet(v, 2) = a % Base BY DEF Octet, Weight
<1>6. Octet(v, 1) = b % Base
  <2>1. Octet(v, 1) = (v \div (Base * Base)) % Base BY DEF Octet, Weight
  <2>2. v \div (Base * Base) = b BY BaseIs, DivideTwice
  <2> QED BY <2>1, <2>2
<1>7. Octet(v, 0) = c
  <2>1. Octet(v, 0) = (v \div (Base * Base * Base)) % Base BY DEF Octet, Weight
  <2>2. v \div (B2 * Base) = (v \div B2) \div Base
    <3> HIDE DEF B2
    <3> QED BY <1>0, BaseIs, DivideTwice
  <2>3. v \div B2 = b BY BaseIs, DivideTwice
  <2>4. Octet(v, 0) = c % Base BY <2>1, <2>2, <2>3
  <2>5. c \in 0 .. Base - 1 BY <1>3, BaseIs
  <2> HIDE DEF c
  <2> QED BY <2>4, <2>5, BaseIs, SmallRest
<1> HIDE DEF a, b, c
<1> QED BY <1>1, <1>2, <1>3, <1>4, <1>5, <1>6, <1>7

(* What an array says of a frame, and of a time.                           *)
SaysFrame(array, f) ==
  /\ array[0] = [error |-> f.id.error, high |-> f.id.high] /\ array[3] = f.id.low
  /\ array[4] = f.dlc /\ array[5] = f.ctrl /\ array[94] = EndMark
  /\ \A pos \in Positions : array[6 + pos] = f.bytes[pos]
SaysTime(array, time) ==
  /\ array[70] = Octet(time.secs, 0) /\ array[71] = Octet(time.secs, 1)
  /\ array[72] = Octet(time.secs, 2) /\ array[73] = Octet(time.secs, 3)
  /\ array[74] = Octet(time.nanos, 0) /\ array[75] = Octet(time.nanos, 1)
  /\ array[76] = Octet(time.nanos, 2) /\ array[77] = Octet(time.nanos, 3)

LEMMA FrameRead ==
  ASSUME NEW f, IsFrame(f), NEW array, SaysFrame(array, f), NEW target
  PROVE  fromByteArray(target, array) = f
<1> DEFINE i == [low |-> array[3], high |-> array[0].high, error |-> array[0].error]
           b == [pos \in Positions |-> array[6 + pos]]
<1>1. i = f.id BY DEF SaysFrame, IsFrame, FrameRec
<1>2. b = f.bytes BY DEF SaysFrame, IsFrame, FrameRec
<1>3. fromByteArray(target, array) = [id |-> i, dlc |-> array[4], ctrl |-> array[5], bytes |-> b]
  BY DEF fromByteArray, SaysFrame
<1> HIDE DEF i, b
<1>4. fromByteArray(target, array) = [id |-> f.id, dlc |-> f.dlc, ctrl |-> f.ctrl, bytes |-> f.bytes]
  BY <1>1, <1>2, <1>3 DEF SaysFrame
<1> QED BY <1>4 DEF IsFrame, FrameRec

LEMMA TimeRead ==
  ASSUME NEW time \in Valid, NEW array, SaysTime(array, time)
  PROVE  TimeFromByteArray(array) = time
<1>1. /\ time.secs \in Nat /\ time.secs < Width /\ time.nanos \in Nat /\ time.nanos < Width
      /\ time.secs <= SecsLimit /\ time.nanos < NanoPerSec
      /\ time = [secs |-> time.secs, nanos |-> time.nanos]
  BY Units DEF Valid
<1>2. FromOctets(array, 70) = time.secs
  <2>1. FromOctets(array, 70)
          = ((Octet(time.secs, 0) * Base + Octet(time.secs, 1)) * Base + Octet(time.secs, 2)) * Base
              + Octet(time.secs, 3)
    BY DEF FromOctets, SaysTime
  <2> QED BY <2>1, <1>1, FieldThrough
<1>3. FromOctets(array, 74) = time.nanos
  <2>1. FromOctets(array, 74)
          = ((Octet(time.nanos, 0) * Base + Octet(time.nanos, 1)) * Base + Octet(time.nanos, 2)) * Base
              + Octet(time.nanos, 3)
    BY DEF FromOctets, SaysTime
  <2> QED BY <2>1, <1>1, FieldThrough
<1>4. TimeFromByteArray(array) = [secs |-> time.secs, nanos |-> time.nanos]
  BY <1>1, <1>2, <1>3 DEF TimeFromByteArray, Stamp, setSeconds, setNanoSeconds
<1> QED BY <1>1, <1>4

(* Through the array of the sockets, with the time of the sender or that   *)
(* of the network.                                                         *)
THEOREM WireThrough ==
  ASSUME NEW f, IsFrame(f), NEW target, NEW time \in Valid, NEW now \in Valid
  PROVE  WireKeeps(f, target, time, now)
<1> DEFINE places == {0, 3, 4, 5, 94} \cup {6 + p : p \in Positions} \cup 70 .. 77
           array == toByteArray(f, time)
           later == LocalTime(array, now)
<1>1. /\ \A pos \in Positions : 6 + pos \in 6 .. 69 /\ 6 + pos \in places /\ (6 + pos) - 6 = pos
      /\ places \cap (6 .. 69) = {6 + p : p \in Positions}
  <2>1. \A pos \in Positions : pos \in 0 .. 63 BY MsgAssumption
  <2> QED BY <2>1
<1>2. /\ DOMAIN array = places /\ SaysFrame(array, f) /\ SaysTime(array, time)
  <2>1. DOMAIN array = places BY DEF toByteArray
  <2>2. /\ array[0] = [error |-> f.id.error, high |-> f.id.high] /\ array[3] = f.id.low
        /\ array[4] = f.dlc /\ array[5] = f.ctrl /\ array[94] = EndMark
    BY DEF toByteArray
  <2>3. ASSUME NEW pos \in Positions PROVE array[6 + pos] = f.bytes[pos]
    <3>1. 6 + pos \in places /\ 6 + pos \in 6 .. 69 /\ (6 + pos) - 6 = pos BY <1>1
    <3>2. array[6 + pos] = f.bytes[(6 + pos) - 6] BY <3>1 DEF toByteArray
    <3> QED BY <3>1, <3>2
  <2>4. ASSUME NEW k \in 0 .. 3
        PROVE  array[70 + k] = Octet(time.secs, k) /\ array[74 + k] = Octet(time.nanos, k)
    <3>1. 70 + k \in places /\ (70 + k) - 70 = k /\ 74 + k \in places /\ (74 + k) - 74 = k
      OBVIOUS
    <3>2. array[70 + k] = Octet(time.secs, (70 + k) - 70) BY <3>1 DEF toByteArray
    <3>3. array[74 + k] = Octet(time.nanos, (74 + k) - 74) BY <3>1 DEF toByteArray
    <3> QED BY <3>1, <3>2, <3>3
  <2>5. SaysTime(array, time)
    <3> HIDE DEF array
    <3>1. /\ 70 + 0 = 70 /\ 70 + 1 = 71 /\ 70 + 2 = 72 /\ 70 + 3 = 73
          /\ 74 + 0 = 74 /\ 74 + 1 = 75 /\ 74 + 2 = 76 /\ 74 + 3 = 77
      OBVIOUS
    <3> QED BY <2>4, <3>1 DEF SaysTime
  <2> HIDE DEF array
  <2> QED BY <2>1, <2>2, <2>3, <2>5 DEF SaysFrame
<1> HIDE DEF array
<1>3. SaysFrame(later, f) /\ SaysTime(later, now)
  <2>1. ASSUME NEW pos \in places, pos \notin 70 .. 77 PROVE later[pos] = array[pos]
    BY <1>2, <2>1 DEF LocalTime, QCAN_FRAME_TIME_STAMP_POS
  <2>2. ASSUME NEW pos \in 70 .. 77 PROVE later[pos] = TimeToByteArray(now)[pos - 70]
    BY <1>2 DEF LocalTime, QCAN_FRAME_TIME_STAMP_POS
  <2> HIDE DEF later
  <2>3. ASSUME NEW pos \in Positions PROVE later[6 + pos] = f.bytes[pos]
    <3>1. 6 + pos \in places /\ 6 + pos \notin 70 .. 77 BY <1>1
    <3>2. later[6 + pos] = array[6 + pos] BY <2>1, <3>1
    <3> QED BY <3>2, <1>2 DEF SaysFrame
  <2>4. /\ later[0] = array[0] /\ later[3] = array[3] /\ later[4] = array[4]
        /\ later[5] = array[5] /\ later[94] = array[94]
    BY <2>1
  <2>5. SaysFrame(later, f) BY <1>2, <2>3, <2>4 DEF SaysFrame
  <2>6. ASSUME NEW k \in 0 .. 3
        PROVE  later[70 + k] = Octet(now.secs, k) /\ later[74 + k] = Octet(now.nanos, k)
    <3>1. 70 + k \in 70 .. 77 /\ (70 + k) - 70 = k /\ 74 + k \in 70 .. 77 /\ (74 + k) - 70 = 4 + k
          /\ (4 + k) - 4 = k /\ k \in 0 .. 7 /\ 4 + k \in 0 .. 7 /\ k < 4 /\ ~(4 + k < 4)
      OBVIOUS
    <3>2. later[70 + k] = TimeToByteArray(now)[k] /\ later[74 + k] = TimeToByteArray(now)[4 + k]
      BY <2>2, <3>1
    <3>3. TimeToByteArray(now)[k] = Octet(now.secs, k) BY <3>1 DEF TimeToByteArray
    <3>4. TimeToByteArray(now)[4 + k] = Octet(now.nanos, (4 + k) - 4) BY <3>1 DEF TimeToByteArray
    <3> QED BY <3>1, <3>2, <3>3, <3>4
  <2>7. /\ 70 + 0 = 70 /\ 70 + 1 = 71 /\ 70 + 2 = 72 /\ 70 + 3 = 73
        /\ 74 + 0 = 74 /\ 74 + 1 = 75 /\ 74 + 2 = 76 /\ 74 + 3 = 77
    OBVIOUS
  <2> QED BY <2>5, <2>6, <2>7 DEF SaysTime
<1> HIDE DEF later
<1>4. fromByteArray(target, array) = f /\ TimeFromByteArray(array) = time
  BY <1>2, FrameRead, TimeRead
<1>5. fromByteArray(target, later) = f /\ TimeFromByteArray(later) = now
  BY <1>3, FrameRead, TimeRead
<1> QED BY <1>4, <1>5 DEF WireKeeps, later, array

(* A word at its place.                                                    *)
LEMMA WordOf ==
  ASSUME NEW f, IsFrame(f), NEW size \in {2, 4}, NEW word \in [1 .. size -> Held],
         NEW pos \in Nat, pos + size <= 4, NEW msbFirst \in BOOLEAN
  PROVE  /\ IsFrame(WithWord(f, pos, word, msbFirst))
         /\ Word(WithWord(f, pos, word, msbFirst), pos, Len(word), msbFirst)
              = IF Len(word) + pos <= dataSize(f) THEN word ELSE [k \in DOMAIN word |-> 0]
<1> DEFINE place(k) == Place(pos, size, k, msbFirst)
           at(p) == CHOOSE k \in DOMAIN word : place(k) = p
           b == [p \in Positions |-> IF p \in pos .. pos + size - 1 THEN word[at(p)] ELSE f.bytes[p]]
           g == WithWord(f, pos, word, msbFirst)
<1>1. Len(word) = size /\ DOMAIN word = 1 .. size
  <2>1. word \in Seq(Held) /\ DOMAIN word = 1 .. size OBVIOUS
  <2> QED BY <2>1, LenProperties
<1>2. dataSize(f) \in 0 .. 64 BY LongerIsLarger DEF dataSize, IsFrame, FrameRec
<1>3. Fits(f, pos, size) <=> size + pos <= dataSize(f)
  <2>1. size \in Nat OBVIOUS
  <2>2. \A d \in 0 .. 64 : size <= d /\ pos < d - (size - 1) <=> size + pos <= d BY <2>1
  <2> QED BY <1>2, <2>2, Zenon DEF Fits
<1>4. CASE size + pos <= dataSize(f)
  <2>1. ASSUME NEW k \in 1 .. size
        PROVE  place(k) \in pos .. pos + size - 1 /\ place(k) \in Positions /\ at(place(k)) = k
    <3>1. place(k) \in pos .. pos + size - 1 /\ \A j \in 1 .. size : place(j) = place(k) => j = k
      BY DEF Place
    <3>2. place(k) \in Positions BY <3>1, MsgAssumption
    <3> HIDE DEF place
    <3>3. \A j \in DOMAIN word : place(j) = place(k) <=> j = k BY <3>1, <1>1
    <3>4. k \in DOMAIN word BY <1>1
    <3> QED BY <3>1, <3>2, <3>3, <3>4
  <2>2. ASSUME NEW p \in pos .. pos + size - 1 PROVE at(p) \in 1 .. size
    <3> DEFINE k == IF msbFirst THEN p - pos + 1 ELSE pos + size - p
    <3>1. k \in 1 .. size /\ place(k) = p BY DEF Place
    <3> HIDE DEF k, place
    <3> QED BY <3>1, <1>1
  <2> HIDE DEF at, place
  <2>3. b \in [Positions -> Held] BY <2>2 DEF IsFrame, FrameRec
  <2>4. \A k \in 1 .. size : b[place(k)] = word[k] BY <2>1
  <2>5. g = [f EXCEPT !.bytes = b]
    BY <1>1, <1>3, <1>4 DEF WithWord, at, place, IsFrame, FrameRec
  <2> HIDE DEF b, g
  <2>6. g \in FrameRec /\ g.dlc = f.dlc /\ g.ctrl = f.ctrl /\ g.bytes = b
    BY <2>3, <2>5 DEF IsFrame, FrameRec
  <2>7. IsFrame(g) BY <2>6 DEF IsFrame, Allowed
  <2>8. Fits(g, pos, size) BY <1>3, <1>4, <2>6 DEF Fits, dataSize
  <2>9. Word(g, pos, size, msbFirst) = [k \in 1 .. size |-> b[place(k)]]
    BY <2>6, <2>8 DEF Word, place
  <2>10. Word(g, pos, size, msbFirst) = word BY <2>4, <2>9
  <2> QED BY <1>1, <1>4, <2>7, <2>10 DEF g
<1>5. CASE ~(size + pos <= dataSize(f))
  <2>1. g = f BY <1>1, <1>3, <1>5 DEF WithWord
  <2>2. Word(f, pos, size, msbFirst) = [k \in 1 .. size |-> 0] BY <1>3, <1>5 DEF Word
  <2> HIDE DEF g
  <2> QED BY <1>1, <1>5, <2>1, <2>2 DEF g
<1> QED BY <1>4, <1>5

LEMMA BytesOf ==
  ASSUME NEW f, IsFrame(f), NEW b \in [Positions -> Held]
  PROVE  IsFrame([f EXCEPT !.bytes = b])
<1> DEFINE g == [f EXCEPT !.bytes = b]
<1>1. g \in FrameRec /\ g.dlc = f.dlc /\ g.ctrl = f.ctrl BY DEF IsFrame, FrameRec
<1> HIDE DEF g
<1>2. IsFrame(g) BY <1>1 DEF IsFrame, Allowed
<1> QED BY <1>2 DEF g

LEMMA Formed ==
  ASSUME NEW f, IsFrame(f), NEW c \in SUBSET {"EXT", "FDF", "RTR", "BRS", "ESI"},
         NEW d \in 0 .. 15, d <= Limit(c)
  PROVE  IsFrame([f EXCEPT !.ctrl = c, !.dlc = d])
<1> DEFINE g == [f EXCEPT !.ctrl = c, !.dlc = d]
<1>1. g \in FrameRec /\ g.dlc = d /\ g.ctrl = c BY DEF IsFrame, FrameRec
<1> HIDE DEF g
<1>2. IsFrame(g) BY <1>1 DEF IsFrame, Allowed
<1> QED BY <1>2 DEF g

LEMMA TypeOf ==
  ASSUME NEW f, IsFrame(f), NEW type
  PROVE  IsFrame(WithType(f, type))
<1> DEFINE g == [f EXCEPT !.id = TypePattern(type), !.bytes = Zeroes]
<1>1. TypePattern(type) \in [low : Low, high : High, error : BOOLEAN]
  BY DEF TypePattern, Low, High
<1>2. g \in FrameRec /\ g.dlc = f.dlc /\ g.ctrl = f.ctrl
  BY <1>1, ZeroesType DEF IsFrame, FrameRec
<1> HIDE DEF g
<1>3. IsFrame(g) BY <1>2 DEF IsFrame, Allowed
<1> QED BY <1>3 DEF WithType, g

LEMMA SizeOf ==
  ASSUME NEW f, IsFrame(f), NEW size \in Nat
  PROVE  IsFrame(WithDataSize(f, size))
<1> DEFINE d == IF IsFd(f) THEN SizeToDlc(size) ELSE IF size > 8 THEN 8 ELSE size
           g == [f EXCEPT !.dlc = d]
<1>1. d \in 0 .. 15 /\ d <= Limit(f.ctrl) BY SizeHasDlc DEF IsFd, Limit
<1> HIDE DEF d
<1>2. g \in FrameRec /\ g.dlc = d /\ g.ctrl = f.ctrl BY <1>1 DEF IsFrame, FrameRec
<1> HIDE DEF g
<1>3. IsFrame(g) BY <1>1, <1>2 DEF IsFrame, Allowed
<1> QED BY <1>3 DEF WithDataSize, d, g

LEMMA NewIs == IsFrame(New)
<1> DEFINE r == [id |-> TypePattern("DATA"), dlc |-> 0, ctrl |-> {}, bytes |-> Zeroes]
<1>1. IsFrame(r)
  <2>1. r \in FrameRec BY ZeroesType DEF TypePattern, FrameRec, Low, High
  <2> QED BY <2>1 DEF IsFrame, Allowed, Limit
<1> HIDE DEF r
<1>2. IsFrame(WithType(r, "DATA")) BY <1>1, TypeOf
<1>3. {} \in Formats BY DEF Formats
<1>4. IsFrame(WithFormat(WithType(r, "DATA"), {})) BY <1>2, <1>3, FormatOf
<1> QED BY <1>4 DEF New, r

LEMMA TargetsAreFrames == \A target \in Targets : IsFrame(target)
<1> DEFINE one == [low |-> 1, high |-> 0]
           g == WithIdentifier(WithDlc(New, 8), one)
           remote == [g EXCEPT !.ctrl = @ \cup {"RTR"}]
           wide == [New EXCEPT !.ctrl = {"EXT", "FDF", "BRS", "ESI"}, !.dlc = 15]
<1>1. IsFrame(g)
  <2>1. one \in Identifiers BY DEF Identifiers, Low, High
  <2>2. IsFrame(WithDlc(New, 8)) BY NewIs, DlcOf
  <2> HIDE DEF one
  <2> QED BY <2>1, <2>2, IdentifierOf
<1> HIDE DEF g
<1>2. IsFrame(remote)
  <2> DEFINE c == g.ctrl \cup {"RTR"}
  <2>1. c \in SUBSET {"EXT", "FDF", "RTR", "BRS", "ESI"} BY <1>1 DEF IsFrame, FrameRec
  <2>2. c \cap {"EXT", "FDF"} = g.ctrl \cap {"EXT", "FDF"} OBVIOUS
  <2>3. remote = [g EXCEPT !.ctrl = c] BY <1>1 DEF IsFrame, FrameRec
  <2> HIDE DEF c, remote
  <2> QED BY <2>1, <2>2, <2>3, <1>1, ControlOf
<1>3. IsFrame(wide)
  <2> DEFINE c == {"EXT", "FDF", "BRS", "ESI"}
  <2>1. c \in SUBSET {"EXT", "FDF", "RTR", "BRS", "ESI"} /\ "FDF" \in c OBVIOUS
  <2> HIDE DEF c
  <2>2. 15 \in 0 .. 15 /\ 15 <= Limit(c) BY <2>1 DEF Limit
  <2>4. IsFrame([New EXCEPT !.ctrl = c, !.dlc = 15]) BY <2>1, <2>2, NewIs, Formed
  <2> QED BY <2>4 DEF c
<1>4. IsFrame(WithType(New, "ERROR")) BY NewIs, TypeOf
<1>5. Targets = {New, remote, wide, WithType(New, "ERROR")} BY Zenon DEF Targets, g
<1> HIDE DEF remote, wide
<1> QED BY <1>2, <1>3, <1>4, <1>5, NewIs

LEMMA StateIs == \A rcv, trm : StateOf(rcv, trm) \in 0 .. 5
BY DEF StateOf, eCAN_STATE_BUS_OFF, eCAN_STATE_BUS_PASSIVE, eCAN_STATE_BUS_ACTIVE,
       eCAN_STATE_BUS_WARN

LEMMA FrameStep == IsFrame(frame) /\ FrameNext(Counters, Sizes) => IsFrame(frame')
<1> SUFFICES ASSUME IsFrame(frame), FrameNext(Counters, Sizes) PROVE IsFrame(frame') OBVIOUS
<1>0. frame.bytes \in [Positions -> Held] BY DEF IsFrame, FrameRec
<1>1. ASSUME NEW format \in Formats, setFrameFormat(format) PROVE IsFrame(frame')
  BY <1>1, FormatOf DEF setFrameFormat
<1>2. ASSUME NEW type \in {"DATA", "ERROR", "UNKNOWN"}, setFrameType(type) PROVE IsFrame(frame')
  BY <1>2, TypeOf DEF setFrameType
<1>3. ASSUME NEW id \in Identifiers, setIdentifier(id) PROVE IsFrame(frame')
  BY <1>3, IdentifierOf DEF setIdentifier
<1>4. ASSUME NEW d \in Dlcs, setDlc(d) PROVE IsFrame(frame')
  <2>1. d \in Nat BY MsgAssumption
  <2> QED BY <2>1, <1>4, DlcOf DEF setDlc
<1>5. ASSUME NEW size \in Sizes, setDataSize(size) PROVE IsFrame(frame')
  <2>1. size \in Nat BY ValuesAssumption
  <2> QED BY <2>1, <1>5, SizeOf DEF setDataSize
<1>6. ASSUME NEW on \in BOOLEAN, setBitrateSwitch(on) PROVE IsFrame(frame')
  BY <1>6, SwitchSet DEF setBitrateSwitch
<1>7. ASSUME NEW on \in BOOLEAN, NEW bit \in {"ESI", "RTR"},
             frame' = [frame EXCEPT !.ctrl = IF on THEN @ \cup {bit} ELSE @ \ {bit}]
      PROVE  IsFrame(frame')
  <2> DEFINE c == IF on THEN frame.ctrl \cup {bit} ELSE frame.ctrl \ {bit}
  <2>1. c \in SUBSET {"EXT", "FDF", "RTR", "BRS", "ESI"} BY DEF IsFrame, FrameRec
  <2>2. c \cap {"EXT", "FDF"} = frame.ctrl \cap {"EXT", "FDF"} OBVIOUS
  <2>3. frame' = [frame EXCEPT !.ctrl = c] BY <1>7 DEF IsFrame, FrameRec
  <2> HIDE DEF c
  <2> QED BY <2>1, <2>2, <2>3, ControlOf
<1>8. ASSUME NEW on \in BOOLEAN, setErrorStateIndicator(on) \/ setRemote(on) PROVE IsFrame(frame')
  <2>1. CASE setErrorStateIndicator(on) BY <2>1, <1>7 DEF setErrorStateIndicator
  <2>2. CASE setRemote(on) BY <2>2, <1>7 DEF setRemote
  <2> QED BY <1>8, <2>1, <2>2
<1>9. ASSUME NEW pos, NEW value \in Held, frame' = [frame EXCEPT !.bytes[pos] = value]
      PROVE  IsFrame(frame')
  <2> DEFINE b == [frame.bytes EXCEPT ![pos] = value]
  <2>1. b \in [Positions -> Held] BY <1>0
  <2>2. frame' = [frame EXCEPT !.bytes = b] BY <1>9 DEF IsFrame, FrameRec
  <2> HIDE DEF b
  <2> QED BY <2>1, <2>2, BytesOf
<1>10. ASSUME NEW pos \in Positions, NEW value \in Byte, setData(pos, value) PROVE IsFrame(frame')
  <2>1. value \in Held BY DEF Held
  <2> QED BY <2>1, <1>10, <1>9 DEF setData
<1>11. ASSUME NEW pos \in 0 .. 2, NEW word \in Byte \X Byte, NEW msbFirst \in BOOLEAN,
              setDataUInt16(pos, word, msbFirst)
       PROVE  IsFrame(frame')
  <2>1. word \in [1 .. 2 -> Held] BY DEF Held
  <2>2. pos \in Nat /\ pos + 2 <= 4 OBVIOUS
  <2> QED BY <2>1, <2>2, <1>11, WordOf DEF setDataUInt16
<1>12. ASSUME NEW word \in Byte \X Byte \X Byte \X Byte, NEW msbFirst \in BOOLEAN,
              setDataUInt32(0, word, msbFirst)
       PROVE  IsFrame(frame')
  <2>1. word \in [1 .. 4 -> Held] BY DEF Held
  <2> QED BY <2>1, <1>12, WordOf DEF setDataUInt32
<1>13. ASSUME NEW count \in Counters, NEW pos \in Positions, NEW state \in 0 .. 5,
              frame' = [frame EXCEPT !.bytes[pos] = count, !.bytes[0] = state]
       PROVE  IsFrame(frame')
  <2> DEFINE b == [frame.bytes EXCEPT ![pos] = count, ![0] = state]
  <2>1. b \in [Positions -> Held] BY <1>0 DEF Held
  <2>2. frame' = [frame EXCEPT !.bytes = b] BY <1>13 DEF IsFrame, FrameRec
  <2> HIDE DEF b
  <2> QED BY <2>1, <2>2, BytesOf
<1>14. ASSUME NEW count \in Counters, setErrorCounterReceive(count) \/ setErrorCounterTransmit(count)
       PROVE  IsFrame(frame')
  <2>1. 2 \in Positions /\ 3 \in Positions BY MsgAssumption
  <2>2. CASE setErrorCounterReceive(count)
    BY <2>1, <2>2, <1>13, StateIs DEF setErrorCounterReceive
  <2>3. CASE setErrorCounterTransmit(count)
    BY <2>1, <2>3, <1>13, StateIs DEF setErrorCounterTransmit
  <2> QED BY <1>14, <2>2, <2>3
<1>15. CASE setErrorState(eCAN_STATE_STOPPED)
  <2>1. eCAN_STATE_STOPPED \in Held BY DEF eCAN_STATE_STOPPED, Held
  <2> QED BY <2>1, <1>9, <1>15 DEF setErrorState
<1>16. ASSUME NEW type \in Byte, setErrorType(type) PROVE IsFrame(frame')
  <2>1. type \in Held BY DEF Held
  <2> QED BY <2>1, <1>9, <1>16 DEF setErrorType
<1> QED BY <1>1, <1>2, <1>3, <1>4, <1>5, <1>6, <1>8, <1>10, <1>11, <1>12, <1>14, <1>15, <1>16
        DEF FrameNext

(* The calls that build a message.                                         *)
LEMMA Rewritten ==
  ASSUME NEW m, IsMessage(m), NEW i \in Identifiers,
         NEW c \in SUBSET {"EXT", "FDF", "RTR", "BRS", "ESI", "OVR", "RPC"},
         c \cap {"FDF", "RPC"} = m.ctrl \cap {"FDF", "RPC"}
  PROVE  IsMessage([m EXCEPT !.ctrl = c, !.id = i])
<1> DEFINE n == [m EXCEPT !.ctrl = c, !.id = i]
<1>1. n \in MsgRec /\ n.ctrl = c /\ n.dlc = m.dlc BY DEF IsMessage, MsgRec
<1>2. ("FDF" \in c <=> "FDF" \in m.ctrl) /\ ("RPC" \in c <=> "RPC" \in m.ctrl) OBVIOUS
<1> HIDE DEF n
<1>3. IsMessage(n) BY <1>1, <1>2 DEF IsMessage, CpMsgIsRpc, Allowed, Limit
<1> QED BY <1>3 DEF n

LEMMA Begun ==
  ASSUME NEW m, IsMessage(m), NEW i \in Identifiers, NEW format \in Formats
  PROVE  IsMessage([m EXCEPT !.id = i, !.dlc = 0, !.ctrl = format])
<1> DEFINE n == [m EXCEPT !.id = i, !.dlc = 0, !.ctrl = format]
<1>1. format \in SUBSET {"EXT", "FDF", "RTR", "BRS", "ESI", "OVR", "RPC"} BY DEF Formats
<1>2. PICK zero \in 0 .. 15 \cup Modes : zero = 0 OBVIOUS
<1>3. n = [m EXCEPT !.id = i, !.dlc = zero, !.ctrl = format] BY <1>2
<1>4. n \in MsgRec /\ n.dlc = 0 BY <1>1, <1>2, <1>3 DEF IsMessage, MsgRec
<1> HIDE DEF n
<1>5. IsMessage(n) BY <1>4, LimitIs DEF IsMessage, Allowed
<1> QED BY <1>5 DEF n

LEMMA MessageStep == IsMessage(msg) /\ Next => IsMessage(msg')
<1> SUFFICES ASSUME IsMessage(msg), Next PROVE IsMessage(msg') OBVIOUS
<1>0. /\ msg \in MsgRec /\ msg.id \in Identifiers /\ msg.bytes \in [Positions -> Held]
      /\ msg.ctrl \in SUBSET {"EXT", "FDF", "RTR", "BRS", "ESI", "OVR", "RPC"}
      /\ msg.dlc \in 0 .. 15 \cup Modes
  BY DEF IsMessage, MsgRec
<1>1. CASE CpMsgClear BY <1>1, ClearedType DEF CpMsgClear, IsMessage
<1>2. ASSUME NEW format \in Formats, CpMsgInit(format) PROVE IsMessage(msg')
  <2>1. Cleared.id \in Identifiers BY ClearedType DEF MsgRec
  <2> QED BY <2>1, <1>2, Begun DEF CpMsgInit
<1>3. ASSUME NEW bit \in {"RTR", "OVR", "BRS"}, CpMsgSetBit(bit) \/ CpMsgClearBit(bit)
      PROVE  IsMessage(msg')
  <2>1. ASSUME NEW c \in {msg.ctrl \cup {bit}, msg.ctrl \ {bit}}, msg' = [msg EXCEPT !.ctrl = c]
        PROVE  IsMessage(msg')
    <3>1. /\ c \in SUBSET {"EXT", "FDF", "RTR", "BRS", "ESI", "OVR", "RPC"}
          /\ c \cap {"FDF", "RPC"} = msg.ctrl \cap {"FDF", "RPC"}
      BY <1>0
    <3>2. msg' = [msg EXCEPT !.ctrl = c, !.id = msg.id] BY <2>1, <1>0 DEF MsgRec
    <3> QED BY <3>1, <3>2, <1>0, Rewritten
  <2>2. CASE CpMsgSetBit(bit)
    <3>1. msg' = [msg EXCEPT !.ctrl = msg.ctrl \cup {bit}]
      BY <2>2, <1>0 DEF CpMsgSetBit, MsgRec
    <3> QED BY <3>1, <2>1
  <2>3. CASE CpMsgClearBit(bit)
    <3>1. msg' = [msg EXCEPT !.ctrl = msg.ctrl \ {bit}]
      BY <2>3, <1>0 DEF CpMsgClearBit, MsgRec
    <3> QED BY <3>1, <2>1
  <2> QED BY <1>3, <2>2, <2>3
<1>4. CASE CpMsgSetRemote \/ CpMsgClrRemote BY <1>3, <1>4 DEF CpMsgSetRemote, CpMsgClrRemote
<1>5. CASE CpMsgSetOverrun \/ CpMsgClrOverrun BY <1>3, <1>5 DEF CpMsgSetOverrun, CpMsgClrOverrun
<1>6. CASE CpMsgSetBitrateSwitch BY <1>3, <1>6 DEF CpMsgSetBitrateSwitch
<1>7. ASSUME NEW d \in Dlcs, CpMsgSetDlc(d) PROVE IsMessage(msg')
  <2>1. d \in 0 .. 15 /\ d <= Limit(msg.ctrl)
    <3>1. d \in Nat /\ d <= Limit(msg.ctrl) BY <1>7, MsgAssumption DEF CpMsgSetDlc
    <3> QED BY <3>1, LimitIs
  <2>2. msg' \in MsgRec /\ msg'.dlc = d /\ msg'.ctrl = msg.ctrl
    BY <1>0, <1>7, <2>1 DEF CpMsgSetDlc, MsgRec
  <2> QED BY <2>1, <2>2 DEF IsMessage, Allowed
<1>8. ASSUME NEW b \in [Positions -> Held], msg' = [msg EXCEPT !.bytes = b] PROVE IsMessage(msg')
  <2>1. msg' \in MsgRec /\ msg'.dlc = msg.dlc /\ msg'.ctrl = msg.ctrl
    BY <1>0, <1>8 DEF MsgRec
  <2> QED BY <2>1 DEF IsMessage, Allowed, CpMsgIsRpc
<1>9. ASSUME NEW pos \in Positions, NEW value \in Byte, CpMsgSetData(pos, value)
      PROVE  IsMessage(msg')
  <2> DEFINE b == [msg.bytes EXCEPT ![pos] = value]
  <2>1. b \in [Positions -> Held] BY <1>0 DEF Held
  <2>2. msg' = [msg EXCEPT !.bytes = b] BY <1>9, <1>0 DEF CpMsgSetData, MsgRec
  <2> HIDE DEF b
  <2> QED BY <2>1, <2>2, <1>8
<1>10. ASSUME NEW id \in Identifiers,
              CpMsgSetExtId(id) \/ CpMsgSetStdId(id) \/ CpMsgSetIdentifier(id)
       PROVE  IsMessage(msg')
  <2>1. CASE CpMsgSetExtId(id)
    <3> DEFINE c == msg.ctrl \cup {"EXT"}
    <3>1. /\ c \in SUBSET {"EXT", "FDF", "RTR", "BRS", "ESI", "OVR", "RPC"}
          /\ c \cap {"FDF", "RPC"} = msg.ctrl \cap {"FDF", "RPC"}
      BY <1>0
    <3>2. msg' = [msg EXCEPT !.ctrl = c, !.id = id] BY <2>1, <1>0 DEF CpMsgSetExtId, MsgRec
    <3> HIDE DEF c
    <3> QED BY <3>1, <3>2, Rewritten
  <2>2. CASE CpMsgSetStdId(id)
    <3> DEFINE c == msg.ctrl \ {"EXT"}
    <3>1. /\ c \in SUBSET {"EXT", "FDF", "RTR", "BRS", "ESI", "OVR", "RPC"}
          /\ c \cap {"FDF", "RPC"} = msg.ctrl \cap {"FDF", "RPC"}
      BY <1>0
    <3>2. msg' = [msg EXCEPT !.ctrl = c, !.id = Masked(id, {})]
      BY <2>2, <1>0 DEF CpMsgSetStdId, MsgRec
    <3>3. Masked(id, {}) \in Identifiers BY MaskedIs
    <3> HIDE DEF c
    <3> QED BY <3>1, <3>2, <3>3, Rewritten
  <2>3. CASE CpMsgSetIdentifier(id)
    <3>1. Masked(id, msg.ctrl) \in Identifiers BY MaskedIs
    <3>2. msg' = [msg EXCEPT !.ctrl = msg.ctrl, !.id = Masked(id, msg.ctrl)]
      BY <2>3, <1>0 DEF CpMsgSetIdentifier, MsgRec
    <3> QED BY <3>1, <3>2, <1>0, Rewritten
  <2> QED BY <1>10, <2>1, <2>2, <2>3
<1>11. ASSUME NEW mode \in Modes, CpMsgRpcSetCanMode(mode) PROVE IsMessage(msg')
  <2> DEFINE i == [low |-> 1, high |-> 0]
  <2>1. i \in Identifiers BY DEF Identifiers, Low, High
  <2>2. msg' = [msg EXCEPT !.dlc = mode, !.id = i, !.ctrl = {"RPC"}]
    BY <1>11 DEF CpMsgRpcSetCanMode
  <2> HIDE DEF i
  <2>3. msg' \in MsgRec /\ msg'.ctrl = {"RPC"} BY <1>0, <2>1, <2>2 DEF MsgRec
  <2> QED BY <2>3 DEF IsMessage, CpMsgIsRpc
<1>12. ASSUME NEW rate \in Rates, CpMsgRpcSetBitrate(rate) PROVE IsMessage(msg')
  <2> DEFINE i == [low |-> 0, high |-> 0]
             b == [pos \in Positions |-> IF pos < 4 THEN rate ELSE msg.bytes[pos]]
  <2>1. i \in Identifiers BY DEF Identifiers, Low, High
  <2>2. b \in [Positions -> Held] BY <1>0 DEF Held
  <2>3. msg' = [msg EXCEPT !.bytes = b, !.id = i, !.ctrl = {"RPC"}]
    BY <1>12, <1>0 DEF CpMsgRpcSetBitrate, MsgRec
  <2> HIDE DEF i, b
  <2>4. msg' \in MsgRec /\ msg'.ctrl = {"RPC"} BY <1>0, <2>1, <2>2, <2>3 DEF MsgRec
  <2> QED BY <2>4 DEF IsMessage, CpMsgIsRpc
<1> QED BY <1>1, <1>2, <1>4, <1>5, <1>6, <1>7, <1>9, <1>10, <1>11, <1>12 DEF Next

(* The two classes, together with the others.                              *)
ConversionKinds ==
  /\ kind = "frame" => IsFrame(frame)
  /\ kind = "message" => IsMessage(msg)

LEMMA FramesKeep ==
  ASSUME IsFrame(frame)
  PROVE  /\ \A target \in Targets :
              /\ FrameSeen(fromCpCanMsg(target, toCpCanMsg(frame, Cleared))) = FrameSeen(frame)
              /\ WireKeeps(frame, target, SomeTime, OtherTime)
         /\ \A msbFirst \in BOOLEAN :
              /\ \A pos \in 0 .. 2, word \in Words(2) : WordKept(pos, word, msbFirst)
              /\ \A word \in Words(4) : WordKept(0, word, msbFirst)
<1>1. SomeTime \in Valid /\ OtherTime \in Valid
  BY UnitsAssumption, ValuesAssumption DEF SomeTime, OtherTime, Valid
<1>2. ASSUME NEW size \in {2, 4}, NEW word \in Words(size), NEW pos \in Nat, pos + size <= 4,
             NEW msbFirst \in BOOLEAN
      PROVE  WordKept(pos, word, msbFirst)
  <2>1. word \in [1 .. size -> Held] BY DEF Words, Held
  <2>2. Word(WithWord(frame, pos, word, msbFirst), pos, Len(word), msbFirst)
          = IF Len(word) + pos <= dataSize(frame) THEN word ELSE [k \in DOMAIN word |-> 0]
    <3>1. CASE size = 2
      <4>1. word \in [1 .. 2 -> Held] /\ pos + 2 <= 4 BY <1>2, <2>1, <3>1
      <4> QED BY <4>1, WordOf
    <3>2. CASE size = 4
      <4>1. word \in [1 .. 4 -> Held] /\ pos + 4 <= 4 BY <1>2, <2>1, <3>2
      <4> QED BY <4>1, WordOf
    <3> QED BY <3>1, <3>2
  <2> QED BY <2>2, Zenon DEF WordKept
<1>3. ASSUME NEW target \in Targets
      PROVE  /\ FrameSeen(fromCpCanMsg(target, toCpCanMsg(frame, Cleared))) = FrameSeen(frame)
             /\ WireKeeps(frame, target, SomeTime, OtherTime)
  <2>1. IsFrame(target) BY TargetsAreFrames
  <2> QED BY <2>1, <1>1, FrameThrough, WireThrough
<1>4. \A pos \in 0 .. 2 : pos \in Nat /\ pos + 2 <= 4 OBVIOUS
<1>5. 0 \in Nat /\ 0 + 4 <= 4 OBVIOUS
<1> QED BY <1>2, <1>3, <1>4, <1>5

(* A frame, and a message that is no remote procedure call, keep format,   *)
(* identifier, bit-rate switch, DLC and data through the other class and   *)
(* back, whatever the target held; remote bit, error state bit and type    *)
(* are not compared (the first is lost).  Through the byte array, a frame  *)
(* keeps all its members.  A word written to the data is read back.  For   *)
(* all positions of the data field, all values of a byte and all bases a   *)
(* 32-bit field is written in.                                             *)
THEOREM ConversionsAreFaithful == MCSpec => []ConversionsKeep
<1>1. MCInit => ConversionKinds
  <2>1. Init => IsMessage(msg) BY ClearedType DEF Init, IsMessage
  <2>2. FrameInit => IsFrame(frame) BY NewIs DEF FrameInit
  <2> QED BY <2>1, <2>2 DEF MCInit, ConversionKinds
<1>2. ConversionKinds /\ [MCNext]_MCvars => ConversionKinds'
  <2> SUFFICES ASSUME ConversionKinds, [MCNext]_MCvars PROVE ConversionKinds' OBVIOUS
  <2>1. ASSUME kind' = "frame" PROVE IsFrame(frame')
    <3>1. kind = "frame" /\ IsFrame(frame) BY <2>1 DEF ConversionKinds, MCNext, MCvars
    <3>2. FrameNext(Counters, Sizes) \/ frame' = frame BY <3>1 DEF MCNext, MCvars
    <3> QED BY <3>1, <3>2, FrameStep
  <2>2. ASSUME kind' = "message" PROVE IsMessage(msg')
    <3>1. kind = "message" /\ IsMessage(msg) BY <2>2 DEF ConversionKinds, MCNext, MCvars
    <3>2. Next \/ msg' = msg BY <3>1 DEF MCNext, MCvars
    <3> QED BY <3>1, <3>2, MessageStep
  <2>3. (kind' = "frame" => IsFrame(frame')) /\ (kind' = "message" => IsMessage(msg'))
    BY <2>1, <2>2
  <2> QED BY <2>3 DEF ConversionKinds, IsFrame, FrameRec, IsMessage, MsgRec
<1>3. ConversionKinds => ConversionsKeep
  <2> SUFFICES ASSUME ConversionKinds PROVE ConversionsKeep OBVIOUS
  <2>1. ASSUME kind = "message", ~CpMsgIsRpc(msg), NEW target \in Targets
        PROVE  MsgSeen(toCpCanMsg(fromCpCanMsg(target, msg), Cleared)) = MsgSeen(msg)
    <3>1. msg \in MsgRec /\ Allowed(msg) BY <2>1 DEF ConversionKinds, IsMessage
    <3>2. IsFrame(target) BY TargetsAreFrames
    <3> QED BY <3>1, <3>2, MessageThrough
  <2> QED BY <2>1, FramesKeep DEF ConversionsKeep, ConversionKinds
<1> QED BY <1>1, <1>2, <1>3, PTL DEF MCSpec
================================================================================
