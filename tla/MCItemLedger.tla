----------------------------- MODULE MCItemLedger -----------------------------
(* Instances of ItemLedger for TLC: one or two one-of-a-kind items and one  *)
(* renewable item in two rooms, two connections, one or two players.        *)
EXTENDS ItemLedger, TLC

CONSTANTS hall, lair

\* The items lie where the players do not start.
MCHome == [i \in Items |-> lair]

\* Connections, players and one-of-a-kind items of one home are
\* interchangeable in the safety runs.
Symmetry ==
    Permutations(Conns) \cup Permutations(Names) \cup Permutations(Unique)
===============================================================================
