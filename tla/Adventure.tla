------------------------------- MODULE Adventure -------------------------------
(***************************************************************************)
(* The rules of the game: what MOVE, ATTACK, DEFEND, FLEE, TAKE, DROP,     *)
(* TALK and QUEST do to the player who gives the command, and what a       *)
(* victory does to the companions in the same room.                        *)
(*                                                                         *)
(* Every action is one critical section of s.mu, with the outcome of the   *)
(* response that ends it: several handlers apply their consequences only   *)
(* when the response could be enqueued.  Dice decide whether a blow kills, *)
(* so hit points are not kept: an enemy is beaten or it is not, a counter  *)
(* kills or it does not.  Any companions in the room may be group members  *)
(* (Groups says who is).  Items are the renewable ones and the trophies:   *)
(* ItemLedger has the one-of-a-kind items and the files, and a player      *)
(* comes back here as it was when it left.                                 *)
(***************************************************************************)
EXTENDS FiniteSets, Integers

CONSTANTS
    Names, Rooms, Items, NPCs, Quests, Endings,
    World,          \* data/world.json: see WorldAssumption
    Harbor,         \* odysseyStartRoomID
    Ithaca,         \* ithacaShoreRoomID
    Deadly,         \* itemLotusFruit and itemSacredCattle
    Winds,          \* itemBagOfWinds
    StartingCrew, WindsCrewLoss,
    None,
    RepliesFail     \* TRUE: a response may find the client's queue full

-------------------------------------------------------------------------------
(* The world: the fields of data/world.json and what World.validate asks.  *)

Roles == {"enemy", "dialogue", "quest_giver"}

Hazards == {"none", "lethal", "item_gate", "crew_gate", "crew_cost"}

ASSUME ConstantsAssumption ==
    /\ None \notin Names \cup Rooms \cup Items \cup NPCs \cup Quests \cup Endings
    /\ Deadly \subseteq Items
    /\ StartingCrew \in Nat /\ WindsCrewLoss \in Nat
    /\ RepliesFail \in BOOLEAN

ASSUME WorldAssumption ==
    /\ World.start \in Rooms
    /\ World.exits \in [Rooms -> SUBSET Rooms]
    /\ World.secrets \in [Rooms -> SUBSET [room : Rooms, endings : SUBSET Endings]]
    /\ World.hazard \in [Rooms -> [type : Hazards, item : Items \cup {None},
                                   loss : Nat, min : Nat]]
    /\ World.item \in [Items -> [room : Rooms \cup {None}, rewardOnly : BOOLEAN,
                                 obtainable : BOOLEAN]]
    /\ World.npc \in [NPCs -> [room : Rooms, role : Roles, mighty : BOOLEAN,
                               guide : BOOLEAN, unwinnable : BOOLEAN, crewLoss : Nat,
                               fleeAccurate : BOOLEAN, fleeOnce : BOOLEAN,
                               mythItem : Items \cup {None},
                               mythQuest : Quests \cup {None},
                               ending : Endings \cup {None}]]
    /\ World.quest \in [Quests -> [giver : NPCs, type : {"collect_item", "defeat_npc"},
                                   target : Items \cup NPCs, count : Nat \ {0}]]
    /\ World.ending \in [Endings -> [items : SUBSET Items, quests : SUBSET Quests,
                                     endings : SUBSET Endings,
                                     reward : Items \cup {None}]]

\* What validate checks beyond the types.
ASSUME ValidAssumption ==
    /\ \A r \in Rooms :
          /\ World.hazard[r].type = "item_gate" => World.hazard[r].item # None
          /\ World.hazard[r].type \in {"crew_gate", "crew_cost"} => World.hazard[r].loss > 0
    /\ \A i \in Items : IF World.item[i].rewardOnly
                        THEN World.item[i].room = None /\ ~World.item[i].obtainable
                        ELSE World.item[i].room # None
    /\ \A e \in NPCs : World.npc[e].unwinnable => World.npc[e].crewLoss > 0
    /\ \A q \in Quests : World.quest[q].target \in
          IF World.quest[q].type = "collect_item" THEN Items ELSE NPCs
    /\ \A x \in Endings : World.ending[x].reward # None =>
          World.item[World.ending[x].reward].rewardOnly
    \* questByGiver would take the first of several: data/world.json has one.
    /\ \A p, q \in Quests : World.quest[p].giver = World.quest[q].giver => p = q

VARIABLES
    phase,  \* "away", "playing", "ending": its connection is lost, or
            \* "quitting", "leaving": it is marked as exiting and saved
    hero    \* the player's record, in s.players or in the save file

vars == <<phase, hero>>

\* rewards counts how often each quest's reward was given: MaxHPBonus is their sum.
Heroes == [room : Rooms, target : NPCs \cup {None}, guarding : BOOLEAN,
           beaten : SUBSET NPCs, fled : SUBSET NPCs, inv : SUBSET Items,
           crew : 0 .. StartingCrew, endings : SUBSET Endings,
           status : [Quests -> {"none", "active", "completed"}],
           progress : [Quests -> Nat], rewards : [Quests -> Nat]]

Fresh == [room |-> World.start, target |-> None, guarding |-> FALSE,
          beaten |-> {}, fled |-> {}, inv |-> {}, crew |-> 0, endings |-> {},
          status |-> [q \in Quests |-> "none"],
          progress |-> [q \in Quests |-> 0], rewards |-> [q \in Quests |-> 0]]

Init ==
    /\ phase = [n \in Names |-> "away"]
    /\ hero = [n \in Names |-> Fresh]

-------------------------------------------------------------------------------
(* What a record says.                                                     *)

Npc(e) == World.npc[e]

\* The enemies that still stand in the player's room.
Foes(h) == {e \in NPCs : /\ Npc(e).room = h.room /\ Npc(e).role = "enemy"
                         /\ e \notin h.beaten}

\* Mutant: nothing blocks the way.
BlockersMutant(h) == {}

\* blockingEnemyLocked takes the one with the smallest ID of these.
Blockers(h) == Foes(h) \ h.fled

Completed(h, q) == h.status[q] = "completed"

HasMythRequirement(e) == Npc(e).mythItem # None \/ Npc(e).mythQuest # None

MeetsMythRequirement(h, e) ==
    /\ Npc(e).mythItem # None => Npc(e).mythItem \in h.inv
    /\ Npc(e).mythQuest # None => Completed(h, Npc(e).mythQuest)

Unprepared(h, e) == HasMythRequirement(e) /\ ~MeetsMythRequirement(h, e)

\* exitsFor: the exits, and the secret ones the player's endings have opened.
ExitsFor(h) ==
    World.exits[h.room] \cup
    {x.room : x \in {y \in World.secrets[h.room] : y.endings \subseteq h.endings}}

\* objectiveAlreadyMetLocked
AlreadyMet(h, q) ==
    IF World.quest[q].type = "collect_item"
    THEN World.quest[q].target \in h.inv
    ELSE World.quest[q].target \in h.beaten

-------------------------------------------------------------------------------
(* What happens to a record.                                               *)

\* Mutant: the crew may run into debt.
SpendCrewMutant(h, amount) == [h EXCEPT !.crew = @ - amount]

SpendCrew(h, amount) ==
    [h EXCEPT !.crew = IF amount > @ THEN 0 ELSE @ - amount]

\* Mutant: a quest that is done is rewarded again.
InProgressMutant(h, q) == h.status[q] # "none"

InProgress(h, q) == h.status[q] = "active"

\* advanceQuestLocked for the quests of Q.
Advanced(h, Q) ==
    LET done == {q \in Q : h.progress[q] + 1 >= World.quest[q].count}
    IN  [h EXCEPT !.progress = [q \in Quests |-> IF q \in Q THEN @[q] + 1 ELSE @[q]],
                  !.status = [q \in Quests |-> IF q \in done THEN "completed" ELSE @[q]],
                  !.rewards = [q \in Quests |-> IF q \in done THEN @[q] + 1 ELSE @[q]]]

\* checkQuestObjectiveLocked
Credited(h, type, t) ==
    Advanced(h, {q \in Quests : /\ World.quest[q].type = type /\ World.quest[q].target = t
                                /\ InProgress(h, q)})

\* applyDeathPenaltyLocked and respawnPlayerLocked
Respawned(h, kept) ==
    [h EXCEPT !.room = World.start, !.target = None, !.guarding = FALSE,
              !.beaten = {}, !.fled = {}, !.inv = kept]

\* Companions, or files that cannot be written, leave the player everything.
Deaths(h) ==
    {Respawned(h, kept) : kept \in {h.inv, {i \in h.inv : World.item[i].rewardOnly}}}

\* Mutant: the room is left in the middle of a fight.
MovedMutant(h, r) == [h EXCEPT !.room = r]

\* The harbour is where a voyage from the start room begins with a fresh crew.
Moved(h, r) ==
    [h EXCEPT !.room = r,
              !.target = IF r = h.room THEN @ ELSE None,
              !.guarding = IF r = h.room THEN @ ELSE FALSE,
              !.crew = IF r = Harbor /\ h.room = World.start THEN StartingCrew ELSE @]

\* applyRoomHazardLocked: how the player may come out of the hazard of its room.
PastHazard(h) ==
    LET z == World.hazard[h.room]
    IN  CASE z.type = "none" -> {h}
          [] z.type = "lethal" -> Deaths(h)
          [] z.type = "item_gate" -> IF z.item \in h.inv THEN {h} ELSE Deaths(h)
          [] z.type = "crew_gate" -> IF h.crew + 1 < z.min THEN Deaths(h)
                                     ELSE {SpendCrew(h, z.loss)}
          [] z.type = "crew_cost" -> {SpendCrew(h, z.loss)}

-------------------------------------------------------------------------------
(* Commands, replies, companions.                                          *)

\* playerForUpdateLocked finds the player of a handler that reads commands.
Commands(n) == phase[n] = "playing"

\* The response is enqueued; or it is not, and the handler ends.
Answered == UNCHANGED phase

Unanswered(n) == RepliesFail /\ phase' = [phase EXCEPT ![n] = "ending"]

Becomes(n, h) == hero' = [hero EXCEPT ![n] = h]

\* Nothing happens but that the handler ends.
Lost(n) == Unanswered(n) /\ UNCHANGED hero

\* Player.exiting
Exiting(n) == phase[n] \in {"quitting", "leaving"}

\* Mutant: a player who is being saved still shares victories.
CompanionsMutant(n) ==
    {m \in Names \ {n} : phase[m] # "away" /\ hero[m].room = hero[n].room}

\* alliesInRoomLocked, if all of them are in one group.
Companions(n) ==
    {m \in Names \ {n} : /\ phase[m] \in {"playing", "ending"}
                         /\ hero[m].room = hero[n].room}

\* A death in the middle of a handler that replies afterwards.
Dies(n) ==
    /\ \E h \in Deaths(hero[n]) : Becomes(n, h)
    /\ Answered \/ Unanswered(n)

-------------------------------------------------------------------------------
(* ATTACK, FLEE, DEFEND.                                                   *)

\* An unwinnable enemy costs crew.
AttackUnwinnable(n, e) ==
    /\ Npc(e).unwinnable
    /\ Becomes(n, [SpendCrew(hero[n], Npc(e).crewLoss) EXCEPT !.target = None])
    /\ Answered \/ Unanswered(n)

AttackUnprepared(n, e) == ~Npc(e).unwinnable /\ Unprepared(hero[n], e) /\ Dies(n)

\* The gods, the sorceresses and guides, or an ordinary person who is killed.  Wounds
\* are not kept, so one who is only wounded shows when the answer is lost.
AttackPerson(n, e) ==
    /\ ~Npc(e).unwinnable /\ ~Unprepared(hero[n], e)
    /\ Npc(e).role # "enemy"
    /\ \/ Dies(n)
       \/ ~Npc(e).mighty /\ ~Npc(e).guide /\ Lost(n)

\* Mutant: a shared victory does not count for quests.
UncreditedMutant(h, e) ==
    [h EXCEPT !.beaten = @ \cup {e}, !.target = None]

\* shareVictoryLocked, for a companion who had not beaten the enemy.
Shared(h, e) ==
    Credited([h EXCEPT !.beaten = @ \cup {e}, !.target = None], "defeat_npc", e)

AttackWins(n, e) ==
    /\ \E allies \in SUBSET Companions(n) :
          hero' = [m \in Names |->
                      IF m = n \/ (m \in allies /\ e \notin hero[m].beaten)
                      THEN Shared(hero[m], e) ELSE hero[m]]
    /\ Answered \/ Unanswered(n)

\* The enemy stands and strikes back: takeGuard ends the stance.
AttackHits(n, e) ==
    /\ Becomes(n, [hero[n] EXCEPT !.target = e, !.guarding = FALSE])
    /\ Answered \/ Unanswered(n)

\* An enemy the player has beaten is refused: ERR 405.
AttackEnemy(n, e) ==
    /\ ~Npc(e).unwinnable /\ ~Unprepared(hero[n], e)
    /\ Npc(e).role = "enemy"
    /\ AttackWins(n, e) \/ AttackHits(n, e) \/ Dies(n)

Attack(n, e) ==
    /\ Commands(n)
    /\ Npc(e).room = hero[n].room
    /\ Npc(e).role = "enemy" => e \notin hero[n].beaten
    /\ \/ AttackUnwinnable(n, e) \/ AttackUnprepared(n, e)
       \/ AttackPerson(n, e) \/ AttackEnemy(n, e)

Engaged(h) == h.target \in Foes(h)

\* The enemies a FLEE may be from.
FleeFrom(h) == IF Engaged(h) THEN {h.target} ELSE Blockers(h)

StandDown(h) == [h EXCEPT !.target = None, !.guarding = FALSE]

\* FLEE outside a fight, with nothing in the way: ERR 407.
FleeRefused(n) ==
    /\ Commands(n)
    /\ FleeFrom(hero[n]) = {}
    /\ Becomes(n, StandDown(hero[n]))
    /\ Answered

FleeSucceeds(h, e) ==
    Npc(e).fleeAccurate \/ (Npc(e).fleeOnce /\ e \notin h.fled)

Flee(n, e) ==
    /\ Commands(n)
    /\ e \in FleeFrom(hero[n])
    /\ IF FleeSucceeds(hero[n], e)
       THEN /\ Becomes(n, [StandDown(hero[n]) EXCEPT !.fled = @ \cup {e}])
            /\ Answered \/ Unanswered(n)
       ELSE \/ /\ Becomes(n, [hero[n] EXCEPT !.guarding = FALSE,
                                             !.target = IF Engaged(hero[n]) THEN e ELSE None])
               /\ Answered \/ Unanswered(n)
            \/ Dies(n)

Defend(n) ==
    /\ Commands(n)
    /\ hero[n].target # None
    /\ Becomes(n, [hero[n] EXCEPT !.guarding = TRUE])
    /\ Answered \/ Unanswered(n)

-------------------------------------------------------------------------------
(* MOVE, TAKE, DROP, TALK, QUEST: the response comes first, and what it    *)
(* announces happens only if it could be enqueued.                         *)

\* A live enemy the player has not fled from strikes whoever walks out.
SlipPast(n) ==
    /\ Commands(n)
    /\ Blockers(hero[n]) # {}
    /\ ExitsFor(hero[n]) # {}
    /\ \/ Answered /\ \E h \in Deaths(hero[n]) : Becomes(n, h)
       \/ Lost(n)

Move(n, r) ==
    /\ Commands(n)
    /\ Blockers(hero[n]) = {}
    /\ r \in ExitsFor(hero[n])
    /\ \/ Answered /\ \E h \in PastHazard(Moved(hero[n], r)) : Becomes(n, h)
       \/ Lost(n)

\* The lotus and the cattle kill the taker, unless the client is not told.
Take(n, i) ==
    /\ Commands(n)
    /\ World.item[i].obtainable
    /\ World.item[i].room = hero[n].room /\ i \notin hero[n].inv
    /\ LET taken == Credited([hero[n] EXCEPT !.inv = @ \cup {i}], "collect_item", i)
       IN  \/ /\ Answered
              /\ \E h \in IF i \in Deadly THEN Deaths(taken) ELSE {taken} : Becomes(n, h)
           \/ Unanswered(n) /\ Becomes(n, taken)

\* A DROP that cannot be saved changes nothing.
Drop(n, i) ==
    /\ Commands(n)
    /\ i \in hero[n].inv
    /\ LET dropped == [hero[n] EXCEPT !.inv = @ \ {i}]
       IN  \/ /\ Answered
              /\ Becomes(n, IF i = Winds /\ hero[n].room # Ithaca
                            THEN SpendCrew(dropped, WindsCrewLoss) ELSE dropped)
           \/ Unanswered(n) /\ Becomes(n, dropped)

\* Mutant: earlier endings are not asked for.
EarnedMutant(h, x) ==
    /\ World.ending[x].items \subseteq h.inv
    /\ \A q \in World.ending[x].quests : Completed(h, q)

\* missingForEndingLocked finds nothing.
Earned(h, x) ==
    /\ World.ending[x].items \subseteq h.inv
    /\ \A q \in World.ending[x].quests : Completed(h, q)
    /\ World.ending[x].endings \subseteq h.endings

\* talkEndingLocked: the trophy comes with the ending, and again if it is gone.
Ended(h, x) ==
    IF x \in h.endings \/ Earned(h, x)
    THEN [h EXCEPT !.endings = @ \cup {x}, !.inv = @ \cup ({World.ending[x].reward} \ {None})]
    ELSE h

Talk(n, e) ==
    /\ Commands(n)
    /\ Npc(e).room = hero[n].room
    /\ \/ /\ Answered
          /\ IF Npc(e).role # "enemy" /\ Unprepared(hero[n], e)
             THEN \E h \in Deaths(hero[n]) : Becomes(n, h)
             ELSE /\ Npc(e).ending # None
                  /\ Becomes(n, Ended(hero[n], Npc(e).ending))
       \/ Lost(n)

\* QUEST accepts once; what is already done counts if the client was told.
Quest(n, q) ==
    /\ Commands(n)
    /\ Npc(World.quest[q].giver).room = hero[n].room
    /\ ~Completed(hero[n], q)
    /\ LET h == [hero[n] EXCEPT !.status[q] = "active"]
       IN  \/ /\ Answered
              /\ Becomes(n, IF hero[n].status[q] = "none" /\ AlreadyMet(h, q)
                            THEN Advanced(h, {q}) ELSE h)
           \/ Unanswered(n) /\ Becomes(n, h)

-------------------------------------------------------------------------------
(* CONNECT, and the end of a session.                                      *)

\* The record comes from the save file, which does not keep the stance.
Enter(n) ==
    /\ phase[n] = "away"
    /\ \/ phase' = [phase EXCEPT ![n] = "playing"]
       \/ RepliesFail /\ phase' = [phase EXCEPT ![n] = "ending"]
    /\ Becomes(n, [hero[n] EXCEPT !.guarding = FALSE])

\* The client closes the connection, or the socket fails.
EndOfInput(n) ==
    /\ phase[n] = "playing"
    /\ phase' = [phase EXCEPT ![n] = "ending"]
    /\ UNCHANGED hero

\* saveAndRemovePlayer marks the player, on QUIT or when the connection is lost.
Leave(n) ==
    /\ \/ phase[n] = "playing" /\ phase' = [phase EXCEPT ![n] = "quitting"]
       \/ phase[n] = "ending" /\ phase' = [phase EXCEPT ![n] = "leaving"]
    /\ UNCHANGED hero

\* The save of a QUIT fails, and the client is told so.
Stays(n) ==
    /\ phase[n] = "quitting"
    /\ phase' = [phase EXCEPT ![n] = "playing"]
    /\ UNCHANGED hero

Left(n) ==
    /\ Exiting(n)
    /\ phase' = [phase EXCEPT ![n] = "away"]
    /\ UNCHANGED hero

Next ==
    \E n \in Names :
        \/ Enter(n) \/ EndOfInput(n) \/ Leave(n) \/ Stays(n) \/ Left(n)
        \/ SlipPast(n) \/ (\E r \in Rooms : Move(n, r))
        \/ \E e \in NPCs : Attack(n, e) \/ Flee(n, e) \/ Talk(n, e)
        \/ FleeRefused(n) \/ Defend(n)
        \/ \E i \in Items : Take(n, i) \/ Drop(n, i)
        \/ \E q \in Quests : Quest(n, q)

Spec == Init /\ [][Next]_vars

-------------------------------------------------------------------------------
(* Properties.                                                             *)

TypeOK ==
    /\ phase \in [Names -> {"away", "playing", "ending", "quitting", "leaving"}]
    /\ \A n \in Names : hero[n] \in Heroes

\* A fight is with an enemy who stands in the player's room: companions,
\* deaths, moves and sessions that end never leave one open.  (So FLEE's
\* look at a stale target only matters for files of another world.)
TargetIsFoe == \A n \in Names : hero[n].target # None => Engaged(hero[n])

\* Each quest is rewarded once and only when it is completed, though
\* companions share victories, enemies come back after a death, and items
\* can be dropped and taken again.
RewardOnce ==
    \A n \in Names, q \in Quests :
        /\ hero[n].rewards[q] = IF Completed(hero[n], q) THEN 1 ELSE 0
        /\ Completed(hero[n], q) <=> hero[n].progress[q] >= World.quest[q].count

\* What README.md says of QUEST: an objective that is met counts, even if it
\* was met before the quest was accepted.
MetIsCounted ==
    \A n \in Names, q \in Quests :
        InProgress(hero[n], q) /\ AlreadyMet(hero[n], q) => hero[n].progress[q] > 0

\* A player who is being saved stays as it was when its snapshot was taken:
\* the companions' victories pass it by.
LeavingIsStill ==
    [][\A n \in Names :
          Exiting(n) => hero'[n] = hero[n]]_vars

Doors(r) == World.exits[r] \cup {x.room : x \in World.secrets[r]}

\* <<d, r>>: room r cannot be reached but through room d.  It is in a part S
\* of the world, without the start, that only doors of d lead into.
Beyond ==
    {p \in Rooms \X Rooms :
        \E S \in SUBSET (Rooms \ {World.start}) :
            /\ p[2] \in S
            /\ \A r \in Rooms \ (S \cup {p[1]}) : Doors(r) \cap S = {}}

\* Nobody gets past a living enemy it has not fled from in this life: whoever
\* stands beyond an enemy's room has beaten the enemy, alone or with
\* companions, or has fled from it, since its last death.
GatesHold ==
    \A n \in Names, e \in NPCs :
        Npc(e).role = "enemy" /\ e \notin hero[n].beaten \cup hero[n].fled =>
            <<Npc(e).room, hero[n].room>> \notin Beyond

\* An ending is reached after the endings and the quests it requires, and a
\* room behind a secret exit after the endings that open it.
EndingsInOrder ==
    \A n \in Names :
        /\ \A x \in hero[n].endings :
              /\ World.ending[x].endings \subseteq hero[n].endings
              /\ \A q \in World.ending[x].quests : Completed(hero[n], q)
        /\ hero[n].room = World.start \/ (\E r \in Rooms : hero[n].room \in World.exits[r])
             \/ \E r \in Rooms : \E x \in World.secrets[r] :
                   x.room = hero[n].room /\ x.endings \subseteq hero[n].endings
===============================================================================
