------------------------------ MODULE Selection ------------------------------
(***************************************************************************)
(* The list comprehension with a condition.  It is what SelectSeq of the   *)
(* module Sequences computes, written as a recursive function of the       *)
(* positions to keep, which the proof system can expand.                   *)
(***************************************************************************)
EXTENDS Integers, Sequences

(* The elements of the sequence s at the positions P, in their order.      *)
Select(s, P) ==
    LET kept[n \in 0..Len(s)] ==
          IF n = 0 THEN <<>>
          ELSE IF n \in P THEN Append(kept[n - 1], s[n]) ELSE kept[n - 1]
    IN  kept[Len(s)]
=============================================================================
