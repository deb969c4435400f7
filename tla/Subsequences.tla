----------------------------- MODULE Subsequences ------------------------------
(* The part of a sequence that lies in a set.  SelectSeq takes a test, which *)
(* is an operator, and facts about it cannot be stated once and cited; Only  *)
(* takes a set, and is a recursive function of the length.                   *)
EXTENDS Integers, Sequences

Only(s, S) ==
  LET only[k \in 0 .. Len(s)] ==
        IF k = 0 THEN <<>>
        ELSE IF s[k] \in S THEN Append(only[k - 1], s[k]) ELSE only[k - 1]
  IN only[Len(s)]
================================================================================
