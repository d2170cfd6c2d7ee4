------------------------------ MODULE Selection ------------------------------
(* The elements of a sequence that are in a set, in their order: SelectSeq,   *)
(* written so that the provers can follow it.                                 *)
EXTENDS Naturals, Sequences

SelectIn(s, S) ==
  LET kept[i \in 0 .. Len(s)] ==
        IF i = 0 THEN <<>>
        ELSE IF s[i] \in S THEN Append(kept[i - 1], s[i])
        ELSE kept[i - 1]
  IN  kept[Len(s)]
===============================================================================
