------------------------------- MODULE MCTiming -------------------------------
(***************************************************************************)
(* A trophy that helps and a curse that hurts, with numbers about a        *)
(* fifteenth of the game's.                                                *)
(***************************************************************************)
EXTENDS Timing

CONSTANTS trophy, curse

TwoItems == {trophy, curse}

Effects ==
    [i \in TwoItems |->
        IF i = trophy THEN [maxHP |-> 2, regen |-> 1, counter |-> 40]
                      ELSE [maxHP |-> -6, regen |-> -2, counter |-> -90]]

Gift == [regen |-> 0, counter |-> 30]
===============================================================================
