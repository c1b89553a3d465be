----------------------------- MODULE UniqueItems ------------------------------
(***************************************************************************)
(* What the server promises about one-of-a-kind items: each is at exactly  *)
(* one place, a room or the belongings of one player, and only a TAKE from *)
(* a room gives a player one.  A failure may put a held item back in a     *)
(* room; it never hands it to somebody else.                               *)
(***************************************************************************)
CONSTANTS Items, Names, Rooms, Home

VARIABLE place

Init == place = Home

HeldBy(n) == {i \in Items : place[i] = n}

Take(n, i) ==
    /\ place[i] \in Rooms
    /\ place' = [place EXCEPT ![i] = n]

Drop(n, i, r) ==
    /\ i \in HeldBy(n)
    /\ place' = [place EXCEPT ![i] = r]

\* Death: everything the player holds goes back where it first lay.
Lose(n) ==
    place' = [i \in Items |-> IF i \in HeldBy(n) THEN Home[i] ELSE place[i]]

\* A player leaves but cannot be saved: what was not saved is put back.
Undo(n) ==
    /\ place' \in [Items -> Names \cup Rooms]
    /\ \A i \in Items :
          place'[i] = place[i] \/ (i \in HeldBy(n) /\ place'[i] \in Rooms)

\* The process is killed: players keep what was saved, the rest is in rooms.
Forget ==
    /\ place' \in [Items -> Names \cup Rooms]
    /\ \A i \in Items : place'[i] = place[i] \/ place'[i] \in Rooms

Next ==
    \/ \E n \in Names :
          \/ \E i \in Items : Take(n, i) \/ \E r \in Rooms : Drop(n, i, r)
          \/ Lose(n) \/ Undo(n)
    \/ Forget

Spec == Init /\ [][Next]_place
===============================================================================
