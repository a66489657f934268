------------------------------ MODULE Selection ------------------------------
(* Array.filter, with the set of what passes: SelectSeq of the standard     *)
(* module, in a form whose argument a proof can name.                       *)
EXTENDS Naturals, Sequences

(* The elements of list that are in set, in their order.                   *)
Selected(list, set) ==
  LET upTo[i \in 0 .. Len(list)] ==
        IF i = 0 THEN <<>>
        ELSE IF list[i] \in set THEN Append(upTo[i - 1], list[i]) ELSE upTo[i - 1]
  IN  upTo[Len(list)]
=============================================================================
