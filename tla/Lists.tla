--------------------------------- MODULE Lists ---------------------------------
(***************************************************************************)
(* The loop that filters a list, as a recursive function: SelectSeq is     *)
(* unknown to the provers.                                                 *)
(***************************************************************************)
EXTENDS Naturals, Sequences

\* The elements of list that are in T, in order.
Selected(list, T) ==
    LET kept[i \in 0 .. Len(list)] ==
            IF i = 0 THEN <<>>
            ELSE IF list[i] \in T THEN Append(kept[i - 1], list[i])
            ELSE kept[i - 1]
    IN  kept[Len(list)]
===============================================================================
