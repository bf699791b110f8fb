------------------------------ MODULE Filtering -------------------------------
(***************************************************************************)
(* Array.prototype.filter: the elements of a sequence that are in a set,   *)
(* in their order.  As a recursive function, which is known by its values  *)
(* one after the other; SelectSeq takes an operator in the set's place.    *)
(***************************************************************************)
EXTENDS Naturals, Sequences

Those(s, T) ==
    LET filtered[n \in 0 .. Len(s)] ==
            IF n = 0 THEN <<>>
            ELSE IF s[n] \in T THEN Append(filtered[n - 1], s[n]) ELSE filtered[n - 1]
    IN  filtered[Len(s)]
=============================================================================
