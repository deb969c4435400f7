---------------------------- MODULE QCanFilterList -----------------------------
(* A filter list and the QCanFilter object a program configures before it    *)
(* appends a copy of it (qcan_filter.cpp, qcan_filter_list.cpp), as can-dump *)
(* does for each of its options.                                             *)
EXTENDS Integers, Sequences, SequencesExt

CONSTANTS
  Formats,       \* the frame formats
  MaxOf,         \* the largest identifier of each
  IdMax,         \* the largest number a caller may give
  MaxFilters,    \* bound of the list
  CheckedFilter  \* the program appends a filter only if it could be configured

VARIABLES
  filter,        \* the QCanFilter object
  list,          \* clFilterP
  rules          \* what the program asked for, filter by filter

filterVars == <<filter, list, rules>>

Frames == {[format |-> format, id |-> id] : format \in Formats, id \in 0..IdMax}
RealFrames == {f \in Frames : f.id <= MaxOf[f.format]}

Off == [type |-> "OFF", format |-> CHOOSE f \in Formats : TRUE, low |-> 0, high |-> 0]

(* acceptFrame() and rejectFrame(): a range that does not fit switches off.  *)
Configured(fl, type, format, low, high) ==
  IF high >= low /\ high <= MaxOf[format]
  THEN [type |-> type, format |-> format, low |-> low, high |-> high]
  ELSE [fl EXCEPT !.type = "OFF"]

AnyFormat(fl, f) == fl.type = "OFF" \/ f.id \in fl.low..fl.high
match(fl, f) ==
  fl.type = "OFF" \/ (f.format = fl.format /\ f.id \in fl.low..fl.high)

(* QCanFilterList::filter(): every filter that is not an accepting one and   *)
(* matches is a rejection.                                                   *)
IsFiltered(l, f) ==
  \/ \E i \in DOMAIN l : l[i].type # "ACCEPT" /\ match(l[i], f)
  \/ /\ \E i \in DOMAIN l : l[i].type = "ACCEPT"
     /\ \A i \in DOMAIN l : l[i].type = "ACCEPT" => ~match(l[i], f)

Rule(type, format, low, high) ==
  IF high >= low /\ high <= MaxOf[format]
  THEN {[type |-> type, format |-> format, low |-> low, high |-> high]}
  ELSE {}

Configure(type) ==
  \E format \in Formats, low \in 0..IdMax, high \in 0..IdMax :
    /\ filter' = Configured(filter, type, format, low, high)
    /\ rules' = [rules EXCEPT !.next = Rule(type, format, low, high)]
    /\ UNCHANGED list

acceptFrame == Configure("ACCEPT")
rejectFrame == Configure("REJECT")

appendFilter ==
  /\ Len(list) < MaxFilters
  /\ CheckedFilter => filter.type # "OFF"
  /\ list' = Append(list, filter)
  /\ rules' = [rules EXCEPT !.given = Append(@, rules.next)]
  /\ UNCHANGED filter

(* removeFilter() counts from 0. *)
removeFilter(pos) ==
  /\ pos < Len(list)
  /\ list' = RemoveAt(list, pos + 1)
  /\ rules' = [rules EXCEPT !.given = RemoveAt(@, pos + 1)]
  /\ UNCHANGED filter

ClearList ==
  /\ list' = <<>>
  /\ rules' = [rules EXCEPT !.given = <<>>]
  /\ UNCHANGED filter

FilterInit == filter = Off /\ list = <<>> /\ rules = [given |-> <<>>, next |-> {}]

FilterNext ==
  \/ acceptFrame \/ rejectFrame \/ appendFilter \/ ClearList
  \/ \E pos \in 0..(MaxFilters - 1) : removeFilter(pos)

Given == UNION Range(rules.given)
Covered(type) ==
  {f \in RealFrames :
    \E r \in Given : r.type = type /\ f.format = r.format /\ f.id \in r.low..r.high}
Accepting == \E r \in Given : r.type = "ACCEPT"

(* A frame passes the list exactly if no range the program asked to reject   *)
(* holds it and, when the program asked to accept anything, some range to    *)
(* accept does; a filter that could not be configured asks for nothing       *)
(* (qcan_filter.hpp: its type is set to eFILTER_OFF).                        *)
FilterDecides ==
  {f \in RealFrames : ~IsFiltered(list, f)} =
    (IF Accepting THEN Covered("ACCEPT") ELSE RealFrames) \ Covered("REJECT")
================================================================================
