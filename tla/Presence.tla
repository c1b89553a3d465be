------------------------------- MODULE Presence -------------------------------
(***************************************************************************)
(* What a client knows of the other players.  Groups says who comes, goes  *)
(* and is in a group; here every player is in a room, too, and one client, *)
(* the Observer, is told what happens: each critical section that changes  *)
(* players, rooms or groups puts its events in the observer's queue.       *)
(*                                                                         *)
(* The queue keeps the order and loses nothing while the connection stands *)
(* (EventChannel), so it is left out: roster, total and mates are what the *)
(* observer believes once it has read the lines it was sent.  A connection *)
(* that is cut believes nothing that matters.                              *)
(***************************************************************************)
EXTENDS Groups, FiniteSets

CONSTANTS
    Rooms,
    StartRoom,
    Observer    \* the player whose client is watched

ASSUME RoomsAssumption == StartRoom \in Rooms /\ Observer \in Names

VARIABLES
    room,       \* Player.RoomID; StartRoom for those who are not in the game
    current,    \* the observer has looked around since it was last moved
    roster,     \* whom it believes to be in its room: none if it is not current
    total,      \* how many players it was told there are
    mates       \* whom it knows to be in its group

heard == <<current, roster, total, mates>>

allVars == <<vars, room, heard>>

PresenceTypeOK ==
    /\ room \in [Names -> Rooms]
    /\ current \in BOOLEAN /\ roster \subseteq Names
    /\ total \in 0 .. Cardinality(Names) /\ mates \subseteq Names

PresenceInit ==
    /\ Init
    /\ room = [n \in Names |-> StartRoom]
    /\ current = FALSE /\ roster = {} /\ total = 0 /\ mates = {}

-------------------------------------------------------------------------------
(* The lines a client is sent.                                             *)

Watching == Observer \in clients

\* PRESENCE events mean nothing to a client that does not know its room.
RosterBecomes(names) == roster' = IF current THEN names ELSE {}

\* The observer is somewhere new: it knows of nobody until it looks.
Displaced == current' = FALSE /\ roster' = {}

\* Mutant: a STATS event that was made before the player was removed.
CountMutant == Cardinality(players)

\* broadcastPlayerCountLocked, at the end of a critical section.
Count == Cardinality(players')

\* Mutant: only the players in the new room are told.
MovedMutant(names, n, from, to) ==
    IF room[Observer] = to THEN names \cup {n} ELSE names

\* names, after the PRESENCE events of a player n who goes to another room.
Moved(names, n, from, to) ==
    IF from = to THEN names
    ELSE IF room[Observer] = from THEN names \ {n}
    ELSE IF room[Observer] = to THEN names \cup {n}
    ELSE names

\* Player n goes through the rooms of the path, each step with its events.
Goes(n, from, through, to) ==
    /\ room' = [room EXCEPT ![n] = to]
    /\ IF n = Observer
       THEN IF from = to /\ through = to THEN UNCHANGED <<current, roster>> ELSE Displaced
       ELSE /\ RosterBecomes(Moved(Moved(roster, n, from, through), n, through, to))
            /\ UNCHANGED current

-------------------------------------------------------------------------------
(* Coming and going.                                                       *)

\* connectPlayer: a returning player is where it was saved.  Nobody is told.
Install(n) ==
    /\ Connect(n)
    /\ \E r \in Rooms : room' = [room EXCEPT ![n] = r]
    /\ UNCHANGED heard

\* The events of handleConnect.
Announce(n) ==
    /\ Register(n)
    /\ IF n = Observer
       THEN Displaced /\ total' = Count
       ELSE IF Watching
       THEN /\ RosterBecomes(IF room[n] = room[Observer] THEN roster \cup {n} ELSE roster)
            /\ total' = Count
            /\ UNCHANGED current
       ELSE UNCHANGED <<current, roster, total>>
    /\ UNCHANGED <<room, mates>>

Stop(n) == StopServing(n) /\ UNCHANGED <<room, heard>>

GoOn(n) == Resume(n) /\ UNCHANGED <<room, heard>>

\* mates, after n was removed from its group.
Parted(n) == IF InGroup(n) /\ groupOf[n] = groupOf[Observer] THEN mates \ {n} ELSE mates

\* The events of removePlayerLocked.
Depart(n) ==
    /\ Remove(n)
    /\ room' = [room EXCEPT ![n] = StartRoom]
    /\ IF n = Observer
       THEN Displaced /\ total' = 0 /\ mates' = {}
       ELSE IF Watching
       THEN /\ RosterBecomes(IF room[n] = room[Observer] THEN roster \ {n} ELSE roster)
            /\ total' = Count
            /\ mates' = Parted(n)
            /\ UNCHANGED current
       ELSE UNCHANGED heard

-------------------------------------------------------------------------------
(* Moving about.                                                           *)

\* MOVE to a room that is survived, or where a hazard kills: then the player
\* has come and gone in one critical section.
Move(n) ==
    /\ n \in serving
    /\ \E r \in Rooms : \E end \in {r, StartRoom} : Goes(n, room[n], r, end)
    /\ UNCHANGED <<vars, total, mates>>

\* respawnPlayerLocked, in any other command.
Respawn(n) ==
    /\ n \in serving
    /\ Goes(n, room[n], room[n], StartRoom)
    /\ UNCHANGED <<vars, total, mates>>

-------------------------------------------------------------------------------
(* What the observer asks for.                                             *)

Look ==
    /\ Observer \in serving
    /\ current' = TRUE
    /\ roster' = {n \in players : room[n] = room[Observer]}
    /\ UNCHANGED <<vars, room, total, mates>>

Who ==
    /\ Watching /\ Observer \in serving
    /\ total' = Cardinality(players)
    /\ UNCHANGED <<vars, room, current, roster, mates>>

-------------------------------------------------------------------------------
(* Group events.                                                           *)

GroupCreate(n) ==
    /\ Create(n)
    /\ mates' = IF n = Observer THEN {n} ELSE mates
    /\ UNCHANGED <<room, current, roster, total>>

GroupInvite(n, t) == Invite(n, t) /\ UNCHANGED <<room, heard>>

\* One who joins is not told who is there already.
GroupJoin(n, l) ==
    /\ Join(n, l)
    /\ mates' = IF Observer \in members'[groupOf[l]] THEN mates \cup {n} ELSE mates
    /\ UNCHANGED <<room, current, roster, total>>

GroupLeave(n) ==
    /\ Leave(n)
    /\ mates' = IF n = Observer THEN {} ELSE Parted(n)
    /\ UNCHANGED <<room, current, roster, total>>

-------------------------------------------------------------------------------

PresenceNext ==
    \/ \E n \in Names :
          \/ Install(n) \/ Announce(n) \/ Stop(n) \/ GoOn(n) \/ Depart(n)
          \/ Move(n) \/ Respawn(n)
          \/ GroupCreate(n) \/ GroupLeave(n)
          \/ \E m \in Names : GroupInvite(n, m) \/ GroupJoin(n, m)
    \/ Look \/ Who

PresenceSpec == PresenceInit /\ [][PresenceNext]_allVars

-------------------------------------------------------------------------------
(* Properties.                                                             *)

\* A client that has looked around and keeps to the PRESENCE events knows whom
\* it shares its room with, whoever connects, walks, dies or disconnects: only
\* of a player whose CONNECT is not answered yet it need not know.
RosterAgrees ==
    Watching /\ current =>
        LET here(names) == {n \in names : room[n] = room[Observer]}
        IN  here(clients) \subseteq roster /\ roster \subseteq here(players)

\* Nobody a client knows as a member of its group has left it, or the game; and
\* a client that has a group knows at least of itself.
MatesAgree ==
    IF Watching /\ InGroup(Observer)
    THEN Observer \in mates /\ mates \subseteq members[groupOf[Observer]]
    ELSE mates = {}

\* Whom a client believes to be in its company, in the room or in the group, is.
CompanyAgrees == RosterAgrees /\ MatesAgree

\* The number of players a client was told last is right, but for players whose
\* CONNECT is not answered yet.
TotalAgrees ==
    Watching => total \in Cardinality(clients) .. Cardinality(players)
===============================================================================
