---------------------------- MODULE AdventureProofs ----------------------------
(***************************************************************************)
(* The rules hold in every world that World.validate accepts, for any      *)
(* number of players and any companions.  Good says of one record what the *)
(* invariants say of all; each command is a few operators on records, and  *)
(* each operator keeps a record good.                                      *)
(***************************************************************************)
EXTENDS Adventure, TLAPS

\* The fight is with an enemy that stands here.
Fair(h) == h.target # None => Engaged(h)

\* Quests are rewarded when they are completed, and once.
Rewarded(h) ==
    \A q \in Quests :
        /\ h.rewards[q] = IF Completed(h, q) THEN 1 ELSE 0
        /\ Completed(h, q) <=> h.progress[q] >= World.quest[q].count

\* No living enemy has been passed.
Gated(h) ==
    \A e \in NPCs :
        Npc(e).role = "enemy" /\ e \notin h.beaten \cup h.fled =>
            <<Npc(e).room, h.room>> \notin Beyond

\* Endings come after what they require, and open the rooms behind them.
Ordered(h) ==
    /\ \A x \in h.endings :
          /\ World.ending[x].endings \subseteq h.endings
          /\ \A q \in World.ending[x].quests : Completed(h, q)
    /\ h.room = World.start \/ (\E r \in Rooms : h.room \in World.exits[r])
         \/ \E r \in Rooms : \E x \in World.secrets[r] :
               x.room = h.room /\ x.endings \subseteq h.endings

Good(h) == h \in Heroes /\ Fair(h) /\ Rewarded(h) /\ Gated(h) /\ Ordered(h)

AdventureInv ==
    /\ phase \in [Names -> {"away", "playing", "ending", "quitting", "leaving"}]
    /\ hero \in [Names -> Heroes]
    /\ \A n \in Names : Good(hero[n])

-------------------------------------------------------------------------------
(* What the operators on records do.                                       *)

\* The parts of the world that the proofs look at.
LEMMA WorldFacts ==
    /\ World.start \in Rooms
    /\ \A e \in NPCs : Npc(e).crewLoss \in Nat
    /\ \A r \in Rooms : World.hazard[r].type \in Hazards /\ World.hazard[r].loss \in Nat
    /\ \A q \in Quests : World.quest[q].count \in Nat /\ World.quest[q].count > 0
    /\ \A x \in Endings : World.ending[x].reward \in Items \cup {None}
    /\ \A r \in Rooms : World.exits[r] \subseteq Rooms
    /\ \A r \in Rooms : \A x \in World.secrets[r] : x.room \in Rooms
    /\ None \notin NPCs
BY WorldAssumption, ConstantsAssumption DEF Npc

\* A record that stays in its room, and forgets no enemy, stays good if its
\* fight is fair and its quests are rewarded.
LEMMA StaysGood ==
    ASSUME NEW h, Good(h), NEW k \in Heroes, Fair(k), Rewarded(k),
           Ordered(k),
           k.room = h.room, h.beaten \subseteq k.beaten, h.fled \subseteq k.fled
    PROVE  Good(k)
BY DEF Good, Gated

\* Endings stay in order where none is added, no quest is undone, and the way
\* to the room is known.
LEMMA StaysOrdered ==
    ASSUME NEW h, Good(h), NEW k \in Heroes, k.endings = h.endings,
           \A q \in Quests : Completed(h, q) => Completed(k, q),
           k.room = h.room \/ k.room = World.start
    PROVE  Ordered(k)
<1>1. h.endings \in SUBSET Endings
  BY DEF Good, Heroes
<1>2. \A x \in Endings : World.ending[x].quests \subseteq Quests
  BY WorldAssumption
<1> QED BY <1>1, <1>2 DEF Good, Ordered

\* A death takes the player out of every fight and behind no enemy.
LEMMA RespawnedGood ==
    ASSUME NEW h, Good(h), NEW kept \in SUBSET Items
    PROVE  Good(Respawned(h, kept))
<1> DEFINE k == Respawned(h, kept)
<1>1. k \in Heroes
  BY WorldFacts DEF Good, Heroes, Respawned
<1>2. /\ k.room = World.start /\ k.target = None /\ k.endings = h.endings
      /\ k.status = h.status /\ k.progress = h.progress /\ k.rewards = h.rewards
  BY DEF Good, Heroes, Respawned
<1>3. Fair(k) /\ Rewarded(k)
  BY <1>2 DEF Good, Fair, Rewarded, Completed
<1>4. Gated(k)
  BY <1>2 DEF Gated, Beyond
<1>5. Ordered(k)
  BY <1>1, <1>2, StaysOrdered DEF Completed
<1> QED BY <1>1, <1>3, <1>4, <1>5 DEF Good

LEMMA DeathsGood == ASSUME NEW h, Good(h), NEW k \in Deaths(h) PROVE Good(k)
<1>1. h.inv \in SUBSET Items
  BY DEF Good, Heroes
<1>2. PICK kept \in SUBSET Items : k = Respawned(h, kept)
  BY <1>1 DEF Deaths
<1> QED BY <1>2, RespawnedGood

LEMMA SpendCrewGood ==
    ASSUME NEW h, Good(h), NEW amount \in Nat
    PROVE  /\ Good(SpendCrew(h, amount))
           /\ SpendCrew(h, amount).target = h.target
           /\ SpendCrew(h, amount).room = h.room
<1> DEFINE k == SpendCrew(h, amount)
<1>1. k \in Heroes
  BY ConstantsAssumption DEF Good, Heroes, SpendCrew
<1>2. /\ k.room = h.room /\ k.target = h.target /\ k.beaten = h.beaten /\ k.fled = h.fled
      /\ k.status = h.status /\ k.progress = h.progress /\ k.rewards = h.rewards
      /\ k.endings = h.endings
  BY DEF Good, Heroes, SpendCrew
<1>3. Fair(k) /\ Rewarded(k)
  BY <1>2 DEF Good, Fair, Engaged, Foes, Rewarded, Completed
<1>4. Ordered(k)
  BY <1>1, <1>2, StaysOrdered DEF Completed
<1> QED BY <1>1, <1>2, <1>3, <1>4, StaysGood

\* Progress is made in quests that are in progress, and the last step of each
\* brings the reward.
LEMMA AdvancedGood ==
    ASSUME NEW h, Good(h), NEW Q \in SUBSET Quests, \A q \in Q : InProgress(h, q)
    PROVE  Good(Advanced(h, Q))
<1> DEFINE k == Advanced(h, Q)
           done == {q \in Q : h.progress[q] + 1 >= World.quest[q].count}
<1>1. /\ k.room = h.room /\ k.target = h.target /\ k.beaten = h.beaten /\ k.fled = h.fled
      /\ k.endings = h.endings
      /\ k.progress = [q \in Quests |-> IF q \in Q THEN h.progress[q] + 1 ELSE h.progress[q]]
      /\ k.status = [q \in Quests |-> IF q \in done THEN "completed" ELSE h.status[q]]
      /\ k.rewards = [q \in Quests |-> IF q \in done THEN h.rewards[q] + 1 ELSE h.rewards[q]]
      /\ k = [h EXCEPT !.progress = k.progress, !.status = k.status, !.rewards = k.rewards]
  BY DEF Good, Heroes, Advanced
<1>2. /\ h.progress \in [Quests -> Nat] /\ h.rewards \in [Quests -> Nat]
      /\ h.status \in [Quests -> {"none", "active", "completed"}]
  BY DEF Good, Heroes
<1>3. /\ k.progress \in [Quests -> Nat] /\ k.rewards \in [Quests -> Nat]
      /\ k.status \in [Quests -> {"none", "active", "completed"}]
  <2> HIDE DEF k, done
  <2>1. k.progress \in [Quests -> Nat]
    BY <1>1, <1>2
  <2>2. k.rewards \in [Quests -> Nat]
    BY <1>1, <1>2
  <2>3. k.status \in [Quests -> {"none", "active", "completed"}]
    BY <1>1, <1>2
  <2> QED BY <2>1, <2>2, <2>3
<1>4. Rewarded(k)
  <2> SUFFICES ASSUME NEW q \in Quests
               PROVE  /\ k.rewards[q] = IF Completed(k, q) THEN 1 ELSE 0
                      /\ Completed(k, q) <=> k.progress[q] >= World.quest[q].count
    BY DEF Rewarded
  <2>1. /\ h.rewards[q] = IF Completed(h, q) THEN 1 ELSE 0
        /\ Completed(h, q) <=> h.progress[q] >= World.quest[q].count
    BY DEF Good, Rewarded
  <2>2. h.progress[q] \in Nat /\ World.quest[q].count \in Nat
    BY <1>2, WorldFacts
  <2> HIDE DEF k
  <2>3. CASE q \in done
    <3>1. InProgress(h, q) /\ ~Completed(h, q)
      BY <2>3 DEF InProgress, Completed
    <3>2. h.rewards[q] = 0
      BY <2>1, <3>1
    <3>3. k.rewards[q] = h.rewards[q] + 1 /\ k.status[q] = "completed"
      BY <1>1, <2>3
    <3>4. k.progress[q] = h.progress[q] + 1 /\ h.progress[q] + 1 >= World.quest[q].count
      BY <1>1, <2>3
    <3> QED BY <3>2, <3>3, <3>4 DEF Completed
  <2>4. CASE q \in Q \ done
    <3>1. InProgress(h, q) /\ ~Completed(h, q)
      BY <2>4 DEF InProgress, Completed
    <3> QED BY <1>1, <2>1, <2>2, <2>4, <3>1 DEF Completed
  <2>5. CASE q \notin Q
    BY <1>1, <2>1, <2>2, <2>5 DEF Completed
  <2> QED BY <2>3, <2>4, <2>5
<1>5. k \in Heroes
  <2> HIDE DEF k
  <2> QED BY <1>1, <1>3 DEF Good, Heroes
<1>6. Fair(k)
  BY <1>1 DEF Good, Fair, Engaged, Foes
<1>7. \A q \in Quests : Completed(h, q) => Completed(k, q)
  BY <1>1 DEF Completed
<1>8. Ordered(k)
  <2> HIDE DEF k
  <2> QED BY <1>1, <1>5, <1>7, StaysOrdered
<1> QED BY <1>1, <1>4, <1>5, <1>6, <1>8, StaysGood

LEMMA CreditedGood ==
    ASSUME NEW h, Good(h), NEW type, NEW t PROVE Good(Credited(h, type, t))
BY AdvancedGood DEF Credited

\* A step through an exit that nothing blocks leads beyond no enemy that stands:
\* it would have to start in the enemy's room.
LEMMA MovedGood ==
    ASSUME NEW h, Good(h), NEW r \in ExitsFor(h), Blockers(h) = {}
    PROVE  Good(Moved(h, r))
<1> DEFINE k == Moved(h, r)
<1>1. h.room \in Rooms
  BY DEF Good, Heroes
<1>2. r \in Rooms /\ r \in Doors(h.room)
  BY <1>1, WorldFacts DEF ExitsFor, Doors
<1>3. k \in Heroes
  <2>1. StartingCrew \in 0 .. StartingCrew /\ h.crew \in 0 .. StartingCrew
    BY ConstantsAssumption DEF Good, Heroes
  <2>2. PICK crew \in 0 .. StartingCrew, target \in NPCs \cup {None}, guarding \in BOOLEAN :
           k = [h EXCEPT !.room = r, !.target = target, !.guarding = guarding, !.crew = crew]
    <3> DEFINE target == IF r = h.room THEN h.target ELSE None
               guarding == IF r = h.room THEN h.guarding ELSE FALSE
               crew == IF r = Harbor /\ h.room = World.start THEN StartingCrew ELSE h.crew
    <3>1. target \in NPCs \cup {None} /\ guarding \in BOOLEAN /\ crew \in 0 .. StartingCrew
      BY <2>1 DEF Good, Heroes
    <3>2. k = [h EXCEPT !.room = r, !.target = target, !.guarding = guarding, !.crew = crew]
      BY DEF Good, Heroes, Moved
    <3> QED BY <3>1, <3>2
  <2> QED BY <1>2, <2>2 DEF Good, Heroes
<1>4. /\ k.room = r /\ k.beaten = h.beaten /\ k.fled = h.fled /\ k.endings = h.endings
      /\ k.target = IF r = h.room THEN h.target ELSE None
      /\ k.status = h.status /\ k.progress = h.progress /\ k.rewards = h.rewards
  BY DEF Good, Heroes, Moved
<1>5. Fair(k) /\ Rewarded(k)
  BY <1>4 DEF Good, Fair, Engaged, Foes, Rewarded, Completed
<1>6. Gated(k)
  <2> SUFFICES ASSUME NEW e \in NPCs, Npc(e).role = "enemy",
                      e \notin h.beaten \cup h.fled, <<Npc(e).room, r>> \in Beyond
               PROVE  FALSE
    BY <1>4 DEF Gated
  <2>1. PICK S \in SUBSET (Rooms \ {World.start}) :
            /\ r \in S
            /\ \A s \in Rooms \ (S \cup {Npc(e).room}) : Doors(s) \cap S = {}
    BY DEF Beyond
  <2>2. Npc(e).room # h.room
    BY DEF Blockers, Foes
  <2>3. h.room \in S
    BY <1>1, <1>2, <2>1, <2>2
  <2>4. <<Npc(e).room, h.room>> \in Beyond
    <3>1. Npc(e).room \in Rooms
      BY WorldAssumption DEF Npc
    <3> QED BY <1>1, <2>1, <2>3, <3>1 DEF Beyond
  <2> QED BY <2>4 DEF Good, Gated
<1>7. Ordered(k)
  <2>1. h.endings \in SUBSET Endings
    BY DEF Good, Heroes
  <2>2. \A x \in Endings : World.ending[x].quests \subseteq Quests
    BY WorldAssumption
  <2>3. \A x \in k.endings : /\ World.ending[x].endings \subseteq k.endings
                             /\ \A q \in World.ending[x].quests : Completed(k, q)
    BY <1>4, <2>1, <2>2 DEF Good, Ordered, Completed
  <2>4. \/ r \in World.exits[h.room]
        \/ \E x \in World.secrets[h.room] : x.room = r /\ x.endings \subseteq h.endings
    BY DEF ExitsFor
  <2> HIDE DEF k
  <2> QED BY <1>1, <1>4, <2>3, <2>4 DEF Ordered
<1> QED BY <1>3, <1>5, <1>6, <1>7 DEF Good

LEMMA PastHazardGood ==
    ASSUME NEW h, Good(h), NEW k \in PastHazard(h) PROVE Good(k)
<1>1. h.room \in Rooms
  BY DEF Good, Heroes
<1>2. World.hazard[h.room].type \in Hazards /\ World.hazard[h.room].loss \in Nat
  BY <1>1, WorldFacts
<1>3. k = h \/ k \in Deaths(h) \/ k = SpendCrew(h, World.hazard[h.room].loss)
  BY <1>2 DEF PastHazard, Hazards
<1> QED BY <1>2, <1>3, DeathsGood, SpendCrewGood

\* A shared victory ends the fight.
LEMMA SharedGood == ASSUME NEW h, Good(h), NEW e \in NPCs PROVE Good(Shared(h, e))
<1> DEFINE k == [h EXCEPT !.beaten = @ \cup {e}, !.target = None]
<1>1. k \in Heroes
  BY DEF Good, Heroes
<1>2. /\ k.room = h.room /\ k.target = None /\ h.beaten \subseteq k.beaten
      /\ k.fled = h.fled /\ k.endings = h.endings
      /\ k.status = h.status /\ k.progress = h.progress /\ k.rewards = h.rewards
  BY DEF Good, Heroes
<1>3. Fair(k) /\ Rewarded(k)
  BY <1>2 DEF Good, Fair, Rewarded, Completed
<1>4. Ordered(k)
  BY <1>1, <1>2, StaysOrdered DEF Completed
<1>5. Good(k)
  BY <1>1, <1>2, <1>3, <1>4, StaysGood
<1> QED BY <1>5, CreditedGood DEF Shared

\* The fields that a fight, a bag or an ending changes.
LEMMA FieldsGood ==
    ASSUME NEW h, Good(h), NEW target \in Foes(h) \cup {None, h.target},
           NEW guarding \in BOOLEAN, NEW fled \in SUBSET NPCs, h.fled \subseteq fled,
           NEW inv \in SUBSET Items, NEW endings \in SUBSET Endings,
           Ordered([h EXCEPT !.endings = endings])
    PROVE  Good([h EXCEPT !.target = target, !.guarding = guarding, !.fled = fled,
                          !.inv = inv, !.endings = endings])
<1> DEFINE k == [h EXCEPT !.target = target, !.guarding = guarding, !.fled = fled,
                          !.inv = inv, !.endings = endings]
<1>1. target \in NPCs \cup {None}
  BY DEF Good, Heroes, Foes
<1>2. k \in Heroes
  BY <1>1 DEF Good, Heroes
<1>3. /\ k.room = h.room /\ k.target = target /\ k.beaten = h.beaten /\ k.fled = fled
      /\ k.status = h.status /\ k.progress = h.progress /\ k.rewards = h.rewards
  BY DEF Good, Heroes
<1>4. Fair(k) /\ Rewarded(k)
  BY <1>3 DEF Good, Fair, Engaged, Foes, Rewarded, Completed
<1>5. Ordered(k)
  <2> DEFINE j == [h EXCEPT !.endings = endings]
  <2>1. k.endings = j.endings /\ k.room = j.room /\ k.status = j.status
    BY DEF Good, Heroes
  <2> HIDE DEF k, j
  <2>2. Ordered(j)
    BY DEF j
  <2> QED BY <2>1, <2>2 DEF Ordered, Completed
<1> QED BY <1>2, <1>3, <1>4, <1>5, StaysGood

LEMMA SameEndings == ASSUME NEW h, Good(h) PROVE Ordered([h EXCEPT !.endings = h.endings])
<1>1. [h EXCEPT !.endings = h.endings] = h
  BY DEF Good, Heroes
<1> QED BY <1>1 DEF Good

\* The stance and the opponent.
LEMMA StanceGood ==
    ASSUME NEW h, Good(h), NEW target \in Foes(h) \cup {None, h.target}, NEW guarding \in BOOLEAN
    PROVE  Good([h EXCEPT !.target = target, !.guarding = guarding])
<1>1. /\ h.fled \in SUBSET NPCs /\ h.inv \in SUBSET Items /\ h.endings \in SUBSET Endings
      /\ h.guarding \in BOOLEAN /\ Ordered([h EXCEPT !.endings = h.endings])
  BY SameEndings DEF Good, Heroes
<1>2. Good([h EXCEPT !.target = target, !.guarding = guarding, !.fled = h.fled,
                     !.inv = h.inv, !.endings = h.endings])
  BY <1>1, FieldsGood
<1>3. [h EXCEPT !.target = target, !.guarding = guarding, !.fled = h.fled,
                !.inv = h.inv, !.endings = h.endings] =
      [h EXCEPT !.target = target, !.guarding = guarding]
  BY DEF Good, Heroes
<1> QED BY <1>2, <1>3

\* What is carried, and the endings reached.
LEMMA BagGood ==
    ASSUME NEW h, Good(h), NEW inv \in SUBSET Items, NEW endings \in SUBSET Endings,
           Ordered([h EXCEPT !.endings = endings])
    PROVE  Good([h EXCEPT !.endings = endings, !.inv = inv])
<1>1. h.fled \in SUBSET NPCs /\ h.guarding \in BOOLEAN /\ h.target \in {h.target}
  BY DEF Good, Heroes
<1>2. Good([h EXCEPT !.target = h.target, !.guarding = h.guarding, !.fled = h.fled,
                     !.inv = inv, !.endings = endings])
  BY <1>1, FieldsGood
<1>3. [h EXCEPT !.target = h.target, !.guarding = h.guarding, !.fled = h.fled,
                !.inv = inv, !.endings = endings] =
      [h EXCEPT !.endings = endings, !.inv = inv]
  BY DEF Good, Heroes
<1> QED BY <1>2, <1>3

-------------------------------------------------------------------------------
(* Each command leaves good records.                                       *)

\* Every record is that of its player: one command changes it, or none.
LEMMA BecomesGood ==
    ASSUME AdventureInv, NEW n \in Names, NEW h, Good(h), Becomes(n, h)
    PROVE  hero' \in [Names -> Heroes] /\ \A m \in Names : Good(hero'[m])
BY DEF AdventureInv, Becomes, Good

LEMMA DiesGood ==
    ASSUME AdventureInv, NEW n \in Names, \E h \in Deaths(hero[n]) : Becomes(n, h)
    PROVE  hero' \in [Names -> Heroes] /\ \A m \in Names : Good(hero'[m])
<1>1. Good(hero[n])
  BY DEF AdventureInv
<1>2. PICK h \in Deaths(hero[n]) : Becomes(n, h)
  OBVIOUS
<1> QED BY <1>1, <1>2, DeathsGood, BecomesGood

LEMMA AttackGood ==
    ASSUME AdventureInv, NEW n \in Names, NEW e \in NPCs, Attack(n, e)
    PROVE  hero' \in [Names -> Heroes] /\ \A m \in Names : Good(hero'[m])
<1>1. Good(hero[n]) /\ hero \in [Names -> Heroes] /\ \A m \in Names : Good(hero[m])
  BY DEF AdventureInv
<1>2. CASE AttackUnwinnable(n, e)
  <2> DEFINE h == SpendCrew(hero[n], Npc(e).crewLoss)
  <2>1. Good(h)
    BY <1>1, SpendCrewGood, WorldFacts
  <2>2. h.guarding \in BOOLEAN
    BY <2>1 DEF Good, Heroes
  <2>3. [h EXCEPT !.target = None, !.guarding = h.guarding] = [h EXCEPT !.target = None]
    BY <2>1 DEF Good, Heroes
  <2>4. Good([h EXCEPT !.target = None])
    <3> HIDE DEF h
    <3> QED BY <2>1, <2>2, <2>3, StanceGood
  <2> QED BY <1>2, <2>4, BecomesGood DEF AttackUnwinnable
<1>3. CASE AttackUnprepared(n, e) \/ AttackPerson(n, e) \/ Dies(n)
  <2>1. CASE \E h \in Deaths(hero[n]) : Becomes(n, h)
    BY <2>1, DiesGood
  <2>2. CASE hero' = hero
    BY <1>1, <2>2
  <2> QED BY <1>3, <2>1, <2>2 DEF AttackUnprepared, AttackPerson, Dies, Lost
<1>4. CASE AttackWins(n, e)
  BY <1>1, <1>4, SharedGood DEF AttackWins, Good
<1>5. CASE AttackHits(n, e) /\ AttackEnemy(n, e)
  <2>1. e \in Foes(hero[n])
    BY <1>5 DEF Attack, AttackEnemy, Foes
  <2> QED BY <1>1, <1>5, <2>1, StanceGood, BecomesGood DEF AttackHits
<1> QED BY <1>2, <1>3, <1>4, <1>5 DEF Attack, AttackEnemy

LEMMA FleeGood ==
    ASSUME AdventureInv, NEW n \in Names, NEW e \in NPCs, Flee(n, e)
    PROVE  hero' \in [Names -> Heroes] /\ \A m \in Names : Good(hero'[m])
<1>1. Good(hero[n])
  BY DEF AdventureInv
<1>2. e \in Foes(hero[n]) /\ hero[n] \in Heroes
  BY <1>1 DEF Flee, FleeFrom, Engaged, Blockers, Good
<1>3. CASE Becomes(n, [StandDown(hero[n]) EXCEPT !.fled = @ \cup {e}])
  <2> DEFINE fled == hero[n].fled \cup {e}
  <2>1. /\ fled \in SUBSET NPCs /\ hero[n].inv \in SUBSET Items
        /\ hero[n].endings \in SUBSET Endings
    BY <1>2 DEF Heroes
  <2>2. [StandDown(hero[n]) EXCEPT !.fled = @ \cup {e}] =
        [hero[n] EXCEPT !.target = None, !.guarding = FALSE, !.fled = fled,
                        !.inv = hero[n].inv, !.endings = hero[n].endings]
    BY <1>2 DEF Heroes, StandDown
  <2>3. Good([StandDown(hero[n]) EXCEPT !.fled = @ \cup {e}])
    <3> USE <1>1, SameEndings
    <3>1. hero[n].fled \subseteq fled /\ None \in Foes(hero[n]) \cup {None, hero[n].target}
      OBVIOUS
    <3> HIDE DEF fled
    <3>2. Good([hero[n] EXCEPT !.target = None, !.guarding = FALSE, !.fled = fled,
                               !.inv = hero[n].inv, !.endings = hero[n].endings])
      BY <1>1, <2>1, <3>1, FieldsGood
    <3> QED BY <2>2, <3>2
  <2> QED BY <1>3, <2>3, BecomesGood
<1>4. CASE Becomes(n, [hero[n] EXCEPT !.guarding = FALSE,
                                      !.target = IF Engaged(hero[n]) THEN e ELSE None])
  <2> DEFINE target == IF Engaged(hero[n]) THEN e ELSE None
  <2>1. [hero[n] EXCEPT !.guarding = FALSE, !.target = target] =
        [hero[n] EXCEPT !.target = target, !.guarding = FALSE]
    BY <1>2 DEF Heroes
  <2>2. Good([hero[n] EXCEPT !.guarding = FALSE, !.target = target])
    BY <1>1, <1>2, <2>1, StanceGood
  <2> QED BY <1>4, <2>2, BecomesGood
<1>5. CASE \E h \in Deaths(hero[n]) : Becomes(n, h)
  BY <1>5, DiesGood
<1> QED BY <1>3, <1>4, <1>5 DEF Flee, Dies

LEMMA MoveGood ==
    ASSUME AdventureInv, NEW n \in Names, NEW r \in Rooms, Move(n, r)
    PROVE  hero' \in [Names -> Heroes] /\ \A m \in Names : Good(hero'[m])
<1>1. Good(hero[n]) /\ hero \in [Names -> Heroes] /\ \A m \in Names : Good(hero[m])
  BY DEF AdventureInv
<1>2. Good(Moved(hero[n], r))
  BY <1>1, MovedGood DEF Move
<1>3. CASE \E h \in PastHazard(Moved(hero[n], r)) : Becomes(n, h)
  BY <1>2, <1>3, PastHazardGood, BecomesGood
<1>4. CASE hero' = hero
  BY <1>1, <1>4
<1> QED BY <1>3, <1>4 DEF Move, Lost

LEMMA TakeGood ==
    ASSUME AdventureInv, NEW n \in Names, NEW i \in Items, Take(n, i)
    PROVE  hero' \in [Names -> Heroes] /\ \A m \in Names : Good(hero'[m])
<1> DEFINE bag == [hero[n] EXCEPT !.inv = @ \cup {i}]
           taken == Credited(bag, "collect_item", i)
<1>1. Good(hero[n])
  BY DEF AdventureInv
<1>2. /\ hero[n].inv \cup {i} \in SUBSET Items /\ hero[n].endings \in SUBSET Endings
      /\ bag = [hero[n] EXCEPT !.endings = hero[n].endings, !.inv = hero[n].inv \cup {i}]
  BY <1>1 DEF Good, Heroes
<1>3. Good(bag)
  BY <1>1, <1>2, BagGood, SameEndings
<1>4. Good(taken)
  BY <1>3, CreditedGood
<1> HIDE DEF bag
<1>5. \E h \in Deaths(taken) \cup {taken} : Becomes(n, h)
  BY DEF Take, bag
<1> HIDE DEF taken
<1> QED BY <1>4, <1>5, DeathsGood, BecomesGood

LEMMA DropGood ==
    ASSUME AdventureInv, NEW n \in Names, NEW i \in Items, Drop(n, i)
    PROVE  hero' \in [Names -> Heroes] /\ \A m \in Names : Good(hero'[m])
<1> DEFINE dropped == [hero[n] EXCEPT !.inv = @ \ {i}]
<1>1. Good(hero[n])
  BY DEF AdventureInv
<1>2. /\ hero[n].inv \ {i} \in SUBSET Items /\ hero[n].endings \in SUBSET Endings
      /\ dropped = [hero[n] EXCEPT !.endings = hero[n].endings, !.inv = hero[n].inv \ {i}]
  BY <1>1 DEF Good, Heroes
<1>3. Good(dropped)
  BY <1>1, <1>2, BagGood, SameEndings
<1>4. Becomes(n, dropped) \/ Becomes(n, SpendCrew(dropped, WindsCrewLoss))
  BY DEF Drop
<1> HIDE DEF dropped
<1> QED BY <1>3, <1>4, SpendCrewGood, BecomesGood, ConstantsAssumption

LEMMA TalkGood ==
    ASSUME AdventureInv, NEW n \in Names, NEW e \in NPCs, Talk(n, e)
    PROVE  hero' \in [Names -> Heroes] /\ \A m \in Names : Good(hero'[m])
<1> DEFINE x == Npc(e).ending
<1>1. Good(hero[n]) /\ hero \in [Names -> Heroes] /\ \A m \in Names : Good(hero[m])
  BY DEF AdventureInv
<1>2. CASE x # None /\ Becomes(n, Ended(hero[n], x))
  <2>1. x \in Endings
    BY <1>2, WorldAssumption DEF Npc
  <2>2. World.ending[x].reward \in Items \cup {None}
    BY <2>1, WorldFacts
  <2>3. /\ hero[n].inv \cup ({World.ending[x].reward} \ {None}) \in SUBSET Items
        /\ hero[n].endings \cup {x} \in SUBSET Endings
    BY <1>1, <2>1, <2>2 DEF Good, Heroes
  <2>4. ASSUME Earned(hero[n], x) \/ x \in hero[n].endings
        PROVE  Ordered([hero[n] EXCEPT !.endings = hero[n].endings \cup {x}])
    <3> DEFINE k == [hero[n] EXCEPT !.endings = hero[n].endings \cup {x}]
    <3>1. /\ k.endings = hero[n].endings \cup {x} /\ k.room = hero[n].room
          /\ k.status = hero[n].status
      BY <1>1 DEF Good, Heroes
    <3>2. Ordered(hero[n])
      BY <1>1 DEF Good
    <3>3. /\ World.ending[x].endings \subseteq hero[n].endings
          /\ \A q \in World.ending[x].quests : Completed(hero[n], q)
      BY <2>4, <3>2 DEF Ordered, Earned
    <3> HIDE DEF k, x
    <3>4. Ordered(k)
      BY <3>1, <3>2, <3>3 DEF Ordered, Completed
    <3> QED BY <3>4 DEF k
  <2>5. Good(Ended(hero[n], x))
    <3> HIDE DEF x
    <3>1. CASE Earned(hero[n], x) \/ x \in hero[n].endings
      BY <1>1, <2>3, <2>4, <3>1, BagGood DEF Ended
    <3>2. CASE ~(Earned(hero[n], x) \/ x \in hero[n].endings)
      BY <1>1, <3>2 DEF Ended
    <3> QED BY <3>1, <3>2
  <2> QED BY <1>2, <2>5, BecomesGood
<1>3. CASE \E h \in Deaths(hero[n]) : Becomes(n, h)
  BY <1>3, DiesGood
<1>4. CASE hero' = hero
  BY <1>1, <1>4
<1> QED BY <1>2, <1>3, <1>4 DEF Talk, Lost

\* A quest is asked for again, or a completed one is left alone.
LEMMA QuestGood ==
    ASSUME AdventureInv, NEW n \in Names, NEW q \in Quests, Quest(n, q)
    PROVE  hero' \in [Names -> Heroes] /\ \A m \in Names : Good(hero'[m])
<1> DEFINE h == [hero[n] EXCEPT !.status[q] = "active"]
<1>1. Good(hero[n]) /\ hero[n] \in Heroes /\ ~Completed(hero[n], q)
  BY DEF AdventureInv, Good, Quest
<1>2. /\ h.room = hero[n].room /\ h.target = hero[n].target
      /\ h.beaten = hero[n].beaten /\ h.fled = hero[n].fled
      /\ h.endings = hero[n].endings
      /\ h.status = [hero[n].status EXCEPT ![q] = "active"]
      /\ h.progress = hero[n].progress /\ h.rewards = hero[n].rewards
  BY <1>1 DEF Heroes
<1>3. h.status \in [Quests -> {"none", "active", "completed"}]
  BY <1>1, <1>2 DEF Heroes
<1>4. h \in Heroes
  BY <1>1, <1>2, <1>3 DEF Heroes
<1>5. InProgress(h, q) /\ \A p \in Quests : Completed(h, p) <=> Completed(hero[n], p)
  BY <1>1, <1>2 DEF InProgress, Completed, Heroes
<1> HIDE DEF h
<1>6. Fair(h) /\ Rewarded(h)
  BY <1>1, <1>2, <1>5 DEF Good, Fair, Engaged, Foes, Rewarded
<1>7. Good(h)
  <2>1. Ordered(h)
    BY <1>1, <1>2, <1>4, <1>5, StaysOrdered
  <2> QED BY <1>1, <1>2, <1>4, <1>6, <2>1, StaysGood
<1>8. Good(Advanced(h, {q}))
  BY <1>5, <1>7, AdvancedGood
<1>9. Becomes(n, h) \/ Becomes(n, Advanced(h, {q}))
  BY DEF Quest, h
<1> QED BY <1>7, <1>8, <1>9, BecomesGood

\* What is neither a fight nor a journey.
LEMMA StanceStepGood ==
    ASSUME AdventureInv, NEW n \in Names, Enter(n) \/ FleeRefused(n) \/ Defend(n)
    PROVE  hero' \in [Names -> Heroes] /\ \A m \in Names : Good(hero'[m])
<1>1. Good(hero[n]) /\ hero[n] \in Heroes
  BY DEF AdventureInv, Good
<1>2. \A guarding \in BOOLEAN : Good([hero[n] EXCEPT !.guarding = guarding])
  <2> SUFFICES ASSUME NEW guarding \in BOOLEAN
               PROVE  Good([hero[n] EXCEPT !.guarding = guarding])
    OBVIOUS
  <2>1. [hero[n] EXCEPT !.guarding = guarding] =
        [hero[n] EXCEPT !.target = hero[n].target, !.guarding = guarding]
    BY <1>1 DEF Heroes
  <2> QED BY <1>1, <2>1, StanceGood
<1>3. Good(StandDown(hero[n]))
  BY <1>1, StanceGood DEF StandDown
<1>4. \/ Becomes(n, [hero[n] EXCEPT !.guarding = FALSE])
      \/ Becomes(n, [hero[n] EXCEPT !.guarding = TRUE])
      \/ Becomes(n, StandDown(hero[n]))
  BY DEF Enter, FleeRefused, Defend
<1> QED BY <1>2, <1>3, <1>4, BecomesGood

-------------------------------------------------------------------------------
(* The invariant.                                                          *)

LEMMA PhaseStep ==
    ASSUME AdventureInv, [Next]_vars
    PROVE  phase' \in [Names -> {"away", "playing", "ending", "quitting", "leaving"}]
<1> DEFINE Phases == {"away", "playing", "ending", "quitting", "leaving"}
           Turns(n) == \E p \in Phases : phase' = [phase EXCEPT ![n] = p]
<1>1. ASSUME NEW n \in Names, Enter(n) \/ EndOfInput(n) \/ Leave(n) \/ Stays(n) \/ Left(n)
      PROVE  Turns(n)
  BY <1>1 DEF Enter, EndOfInput, Leave, Stays, Left
<1>2. ASSUME NEW n \in Names, Answered \/ Unanswered(n)
      PROVE  phase' = phase \/ Turns(n)
  BY <1>2 DEF Answered, Unanswered
<1>3. ASSUME NEW n \in Names, NEW e \in NPCs, Attack(n, e) \/ Flee(n, e) \/ Talk(n, e)
      PROVE  Answered \/ Unanswered(n)
  BY <1>3 DEF Attack, Flee, Talk, Lost, Dies, AttackUnwinnable, AttackUnprepared,
     AttackPerson, AttackEnemy, AttackWins, AttackHits
<1>4. ASSUME NEW n \in Names,
             \/ SlipPast(n) \/ FleeRefused(n) \/ Defend(n)
             \/ \E r \in Rooms : Move(n, r)
             \/ \E i \in Items : Take(n, i) \/ Drop(n, i)
             \/ \E q \in Quests : Quest(n, q)
      PROVE  Answered \/ Unanswered(n)
  BY <1>4 DEF SlipPast, FleeRefused, Defend, Move, Take, Drop, Quest, Lost
<1>5. phase' = phase \/ \E n \in Names : Turns(n)
  <2> HIDE DEF Turns
  <2> QED BY <1>1, <1>2, <1>3, <1>4 DEF Next, vars
<1> QED BY <1>5 DEF AdventureInv

LEMMA HeroStep ==
    ASSUME AdventureInv, [Next]_vars
    PROVE  hero' \in [Names -> Heroes] /\ \A m \in Names : Good(hero'[m])
<1>1. CASE hero' = hero
  BY <1>1 DEF AdventureInv
<1>2. ASSUME NEW n \in Names, EndOfInput(n) \/ Leave(n) \/ Stays(n) \/ Left(n)
      PROVE  hero' = hero
  BY <1>2 DEF EndOfInput, Leave, Stays, Left
<1>3. ASSUME NEW n \in Names, SlipPast(n)
      PROVE  hero' = hero \/ \E h \in Deaths(hero[n]) : Becomes(n, h)
  BY <1>3 DEF SlipPast, Lost
<1> QED BY <1>1, <1>2, <1>3, DiesGood, StanceStepGood, MoveGood, AttackGood, FleeGood,
           TalkGood, TakeGood, DropGood, QuestGood
        DEF Next, vars

\* The records of new players are good, and every step keeps all records good.
THEOREM RecordsStayGood == Spec => []AdventureInv
<1>1. Init => AdventureInv
  <2> SUFFICES ASSUME Init, NEW n \in Names PROVE Good(Fresh) /\ Fresh \in Heroes
    BY DEF Init, AdventureInv
  <2>1. Fresh \in Heroes
    BY WorldFacts, ConstantsAssumption DEF Fresh, Heroes
  <2>2. Fair(Fresh) /\ Rewarded(Fresh)
    BY WorldFacts DEF Fresh, Fair, Rewarded, Completed
  <2>3. Gated(Fresh)
    BY DEF Fresh, Gated, Beyond
  <2>4. Ordered(Fresh)
    BY DEF Fresh, Ordered
  <2> QED BY <2>1, <2>2, <2>3, <2>4 DEF Good
<1>2. AdventureInv /\ [Next]_vars => AdventureInv'
  BY PhaseStep, HeroStep DEF AdventureInv
<1> QED BY <1>1, <1>2, PTL DEF Spec

\* TypeOK of Adventure, for any world: the crew never runs into debt, and no
\* command makes a record that the code could not hold.
THEOREM AdventureTypes == Spec => []TypeOK
<1>1. AdventureInv => TypeOK
  BY DEF AdventureInv, TypeOK
<1> QED BY <1>1, RecordsStayGood, PTL

\* TargetIsFoe, for any world and any companions.
THEOREM FightsAreFair == Spec => []TargetIsFoe
<1>1. AdventureInv => TargetIsFoe
  BY DEF AdventureInv, TargetIsFoe, Good, Fair
<1> QED BY <1>1, RecordsStayGood, PTL

\* RewardOnce, for any quests.
THEOREM RewardsAreGivenOnce == Spec => []RewardOnce
<1>1. AdventureInv => RewardOnce
  BY DEF AdventureInv, RewardOnce, Good, Rewarded
<1> QED BY <1>1, RecordsStayGood, PTL

\* GatesHold, for any map: no way round an enemy is opened by companions,
\* hazards, deaths or the secret exits of endings.
THEOREM NobodySlipsPast == Spec => []GatesHold
<1>1. AdventureInv => GatesHold
  BY DEF AdventureInv, GatesHold, Good, Gated
<1> QED BY <1>1, RecordsStayGood, PTL

\* EndingsInOrder, for any endings: rewards, deaths and quests asked for again
\* undo nothing that an ending was given for.
THEOREM EndingsComeInOrder == Spec => []EndingsInOrder
<1>1. AdventureInv => EndingsInOrder
  BY DEF AdventureInv, EndingsInOrder, Good, Ordered
<1> QED BY <1>1, RecordsStayGood, PTL

\* LeavingIsStill, with any companions: what a save has written is what the
\* player leaves with.
THEOREM SnapshotsStayTrue == Spec => LeavingIsStill
<1>1. AdventureInv /\ [Next]_vars =>
         [\A n \in Names : Exiting(n) => hero'[n] = hero[n]]_vars
  <2> SUFFICES ASSUME AdventureInv, Next, NEW n \in Names, Exiting(n)
               PROVE  hero'[n] = hero[n]
    OBVIOUS
  <2>1. hero \in [Names -> Heroes] /\ ~Commands(n) /\ phase[n] \notin {"away", "playing", "ending"}
    BY DEF AdventureInv, Exiting, Commands
  <2>2. ASSUME NEW m \in Names, NEW h, Becomes(m, h), Commands(m) \/ phase[m] = "away"
        PROVE  hero'[n] = hero[n]
    BY <2>1, <2>2 DEF Becomes, Commands
  <2>3. ASSUME NEW m \in Names, NEW e \in NPCs, Attack(m, e)
        PROVE  hero'[n] = hero[n]
    <3>1. Commands(m)
      BY <2>3 DEF Attack
    <3>2. CASE AttackWins(m, e)
      BY <2>1, <3>1, <3>2 DEF AttackWins, Companions
    <3>3. CASE hero' = hero \/ \E h : Becomes(m, h)
      BY <2>2, <3>1, <3>3
    <3> QED BY <2>3, <3>2, <3>3 DEF Attack, AttackUnwinnable, AttackUnprepared, AttackPerson,
               AttackEnemy, AttackHits, Dies, Lost
  <2>4. ASSUME NEW m \in Names, NEW e \in NPCs, Flee(m, e) \/ Talk(m, e)
        PROVE  hero' = hero \/ (Commands(m) /\ \E h : Becomes(m, h))
    BY <2>4 DEF Flee, Talk, Dies, Lost
  <2>5. ASSUME NEW m \in Names, NEW i \in Items, Take(m, i) \/ Drop(m, i)
        PROVE  Commands(m) /\ \E h : Becomes(m, h)
    BY <2>5 DEF Take, Drop
  <2>6. ASSUME NEW m \in Names, NEW q \in Quests, Quest(m, q)
        PROVE  Commands(m) /\ \E h : Becomes(m, h)
    BY <2>6 DEF Quest
  <2>7. ASSUME NEW m \in Names, NEW r \in Rooms, Move(m, r)
        PROVE  hero' = hero \/ (Commands(m) /\ \E h : Becomes(m, h))
    BY <2>7 DEF Move, Lost
  <2>8. ASSUME NEW m \in Names,
               \/ Enter(m) \/ EndOfInput(m) \/ Leave(m) \/ Stays(m) \/ Left(m)
               \/ SlipPast(m) \/ FleeRefused(m) \/ Defend(m)
        PROVE  hero' = hero \/ ((Commands(m) \/ phase[m] = "away") /\ \E h : Becomes(m, h))
    BY <2>8 DEF Enter, EndOfInput, Leave, Stays, Left, SlipPast, FleeRefused, Defend, Lost
  <2> QED BY <2>2, <2>3, <2>4, <2>5, <2>6, <2>7, <2>8 DEF Next
<1> QED BY <1>1, RecordsStayGood, PTL DEF Spec, LeavingIsStill

-------------------------------------------------------------------------------
(* Objectives that are met count, as long as every response fits and no    *)
(* quest asks for a trophy, which an ending gives without a look at the    *)
(* quests.                                                                 *)

NoQuestForTrophy ==
    \A q \in Quests, i \in Items :
        World.quest[q].type = "collect_item" /\ World.quest[q].target = i =>
            ~World.item[i].rewardOnly

\* MetIsCounted of one record.
Met(h) == \A q \in Quests : InProgress(h, q) /\ AlreadyMet(h, q) => h.progress[q] > 0

\* No objective is met from h to k that was not met before.
NothingNew(h, k) ==
    /\ k.inv \subseteq h.inv /\ k.beaten \subseteq h.beaten
    /\ k.status = h.status /\ k.progress = h.progress

\* A bag may hold any items, and any quest may be accepted.
LEMMA FieldsTyped ==
    ASSUME NEW h \in Heroes
    PROVE  /\ \A bag \in SUBSET Items : [h EXCEPT !.inv = bag] \in Heroes
           /\ \A q \in Quests : [h EXCEPT !.status[q] = "active"] \in Heroes
<1>1. ASSUME NEW bag \in SUBSET Items PROVE [h EXCEPT !.inv = bag] \in Heroes
  BY DEF Heroes
<1>2. ASSUME NEW q \in Quests PROVE [h EXCEPT !.status[q] = "active"] \in Heroes
  <2> DEFINE status == [h.status EXCEPT ![q] = "active"]
  <2>1. /\ status \in [Quests -> {"none", "active", "completed"}]
        /\ [h EXCEPT !.status[q] = "active"] = [h EXCEPT !.status = status]
    BY DEF Heroes
  <2> HIDE DEF status
  <2> QED BY <2>1 DEF Heroes
<1> QED BY <1>1, <1>2

LEMMA NothingNewMet ==
    ASSUME NEW h, Met(h), NEW k, NothingNew(h, k) PROVE Met(k)
BY DEF Met, NothingNew, InProgress, AlreadyMet

LEMMA DeathsNothingNew ==
    ASSUME NEW h \in Heroes, NEW k \in Deaths(h) PROVE NothingNew(h, k)
<1>1. h.inv \in SUBSET Items
  BY DEF Heroes
<1>2. PICK kept \in SUBSET h.inv : k = Respawned(h, kept)
  BY <1>1 DEF Deaths
<1> QED BY <1>2 DEF Respawned, NothingNew, Heroes

LEMMA SpendCrewNothingNew ==
    ASSUME NEW h \in Heroes, NEW amount PROVE NothingNew(h, SpendCrew(h, amount))
BY DEF Heroes, SpendCrew, NothingNew

\* Where quests make progress, what is met in them has been counted.
LEMMA AdvancedMet ==
    ASSUME NEW h \in Heroes, NEW Q \in SUBSET Quests,
           \A q \in Quests \ Q : InProgress(h, q) /\ AlreadyMet(h, q) => h.progress[q] > 0
    PROVE  Met(Advanced(h, Q))
<1> DEFINE k == Advanced(h, Q)
           done == {q \in Q : h.progress[q] + 1 >= World.quest[q].count}
<1>1. /\ h.progress \in [Quests -> Nat]
      /\ h.status \in [Quests -> {"none", "active", "completed"}]
  BY DEF Heroes
<1>2. /\ k.inv = h.inv /\ k.beaten = h.beaten
      /\ k.progress = [q \in Quests |-> IF q \in Q THEN h.progress[q] + 1 ELSE h.progress[q]]
      /\ k.status = [q \in Quests |-> IF q \in done THEN "completed" ELSE h.status[q]]
  BY DEF Heroes, Advanced
<1> HIDE DEF k
<1> SUFFICES ASSUME NEW q \in Quests, InProgress(k, q), AlreadyMet(k, q)
             PROVE  k.progress[q] > 0
  BY DEF Met, k
<1>3. CASE q \in Q
  BY <1>1, <1>2, <1>3
<1>4. CASE q \notin Q
  <2>1. h.status[q] = k.status[q] /\ h.progress[q] = k.progress[q]
    BY <1>1, <1>2, <1>4
  <2>2. InProgress(h, q) /\ AlreadyMet(h, q)
    BY <1>2, <2>1 DEF InProgress, AlreadyMet
  <2> QED BY <1>4, <2>1, <2>2
<1> QED BY <1>3, <1>4

\* An item that is taken, and an enemy that is beaten, is credited at once.
LEMMA TakenMet ==
    ASSUME NEW h \in Heroes, Met(h), NEW i \in Items,
           NEW k \in Heroes, k = [h EXCEPT !.inv = @ \cup {i}]
    PROVE  Met(Credited(k, "collect_item", i))
<1> DEFINE Q == {q \in Quests : /\ World.quest[q].type = "collect_item"
                                /\ World.quest[q].target = i /\ InProgress(k, q)}
<1>1. /\ k.inv = h.inv \cup {i} /\ k.beaten = h.beaten
      /\ k.progress = h.progress /\ k.status = h.status
  BY DEF Heroes
<1>2. \A q \in Quests \ Q : InProgress(k, q) /\ AlreadyMet(k, q) => k.progress[q] > 0
  BY <1>1 DEF Met, InProgress, AlreadyMet
<1>3. Met(Advanced(k, Q))
  <2> HIDE DEF Q
  <2>1. Q \in SUBSET Quests
    BY DEF Q
  <2> QED BY <1>2, <2>1, AdvancedMet
<1> QED BY <1>3 DEF Credited

LEMMA SharedMet ==
    ASSUME NEW h \in Heroes, Met(h), NEW e \in NPCs
    PROVE  Met(Shared(h, e))
<1> DEFINE k == [h EXCEPT !.beaten = @ \cup {e}, !.target = None]
           Q == {q \in Quests : /\ World.quest[q].type = "defeat_npc"
                                /\ World.quest[q].target = e /\ InProgress(k, q)}
<1>1. /\ k.inv = h.inv /\ k.beaten = h.beaten \cup {e}
      /\ k.progress = h.progress /\ k.status = h.status
  BY DEF Heroes
<1>2. k \in Heroes
  <2>1. h.beaten \cup {e} \in SUBSET NPCs
    BY DEF Heroes
  <2> QED BY <2>1 DEF Heroes
<1>3. \A q \in Quests : World.quest[q].type \in {"collect_item", "defeat_npc"}
  BY WorldAssumption
<1> HIDE DEF k
<1>4. \A q \in Quests \ Q : InProgress(k, q) /\ AlreadyMet(k, q) => k.progress[q] > 0
  BY <1>1, <1>3 DEF Met, InProgress, AlreadyMet
<1>5. Met(Advanced(k, Q))
  <2> HIDE DEF Q
  <2>1. Q \in SUBSET Quests
    BY DEF Q
  <2> QED BY <1>2, <1>4, <2>1, AdvancedMet
<1> QED BY <1>5 DEF Shared, Credited, k

\* A trophy is no objective.
LEMMA EndedMet ==
    ASSUME NoQuestForTrophy, NEW h \in Heroes, Met(h), NEW x \in Endings
    PROVE  Met(Ended(h, x))
<1> DEFINE w == World.ending[x].reward
           k == [h EXCEPT !.endings = @ \cup {x}, !.inv = @ \cup ({w} \ {None})]
<1>1. /\ k.inv = h.inv \cup ({w} \ {None}) /\ k.beaten = h.beaten
      /\ k.progress = h.progress /\ k.status = h.status
  BY DEF Heroes
<1>2. w # None => w \in Items /\ World.item[w].rewardOnly
  BY WorldFacts, ValidAssumption
<1> HIDE DEF k, w
<1>3. Met(k)
  <2> SUFFICES ASSUME NEW q \in Quests, InProgress(k, q), AlreadyMet(k, q)
               PROVE  k.progress[q] > 0
    BY DEF Met
  <2>1. World.quest[q].type = "collect_item" => World.quest[q].target \in h.inv
    BY <1>1, <1>2 DEF AlreadyMet, NoQuestForTrophy
  <2>2. InProgress(h, q) /\ AlreadyMet(h, q)
    BY <1>1, <2>1 DEF InProgress, AlreadyMet
  <2> QED BY <1>1, <2>2 DEF Met
<1> QED BY <1>3 DEF Ended, k, w

\* The quest that is accepted counts what is met already.
LEMMA QuestMet ==
    ASSUME NEW h \in Heroes, Met(h), NEW q \in Quests,
           NEW k \in Heroes, k = [h EXCEPT !.status[q] = "active"]
    PROVE  Met(IF h.status[q] = "none" /\ AlreadyMet(k, q)
               THEN Advanced(k, {q}) ELSE k) \/ Completed(h, q)
<1>1. /\ k.inv = h.inv /\ k.beaten = h.beaten /\ k.progress = h.progress
      /\ k.status = [h.status EXCEPT ![q] = "active"]
      /\ h.status \in [Quests -> {"none", "active", "completed"}]
  BY DEF Heroes
<1>2. \A p \in Quests \ {q} : InProgress(k, p) /\ AlreadyMet(k, p) => k.progress[p] > 0
  BY <1>1 DEF Met, InProgress, AlreadyMet
<1>3. CASE h.status[q] = "none" /\ AlreadyMet(k, q)
  <2>1. {q} \in SUBSET Quests
    OBVIOUS
  <2>2. Met(Advanced(k, {q}))
    BY <1>2, <2>1, AdvancedMet
  <2> QED BY <1>3, <2>2
<1>4. CASE ~AlreadyMet(k, q)
  BY <1>2, <1>4 DEF Met
<1>5. CASE h.status[q] = "active"
  <2>1. InProgress(k, q) /\ AlreadyMet(k, q) => k.progress[q] > 0
    BY <1>1, <1>5 DEF Met, InProgress, AlreadyMet
  <2>2. Met(k)
    BY <1>2, <2>1 DEF Met
  <2> QED BY <1>5, <2>2
<1> QED BY <1>1, <1>3, <1>4, <1>5 DEF Completed

\* A command that meets nothing new.
LEMMA BecomesMet ==
    ASSUME AdventureInv, MetIsCounted, NEW n \in Names, NEW h, Becomes(n, h), Met(h)
    PROVE  MetIsCounted'
<1>1. \A m \in Names : Met(hero[m])
  BY DEF MetIsCounted, Met
<1>2. \A m \in Names : Met(hero'[m])
  BY <1>1 DEF AdventureInv, Becomes
<1> QED BY <1>2 DEF MetIsCounted, Met, InProgress, AlreadyMet

\* Every command but a QUEST whose answer is lost counts what it meets.
LEMMA StepMet ==
    ASSUME NoQuestForTrophy, AdventureInv, MetIsCounted, [Next]_vars,
           \A n \in Names, q \in Quests : Quest(n, q) => ~Unanswered(n)
    PROVE  MetIsCounted'
<1>1. /\ hero \in [Names -> Heroes]
      /\ \A m \in Names : hero[m] \in Heroes /\ Met(hero[m]) /\ Good(hero[m])
  BY DEF AdventureInv, MetIsCounted, Met
<1>2. hero' = hero => MetIsCounted'
  BY DEF MetIsCounted, InProgress, AlreadyMet
<1>3. ASSUME NEW n \in Names, NEW h, NothingNew(hero[n], h), Becomes(n, h)
      PROVE  MetIsCounted'
  BY <1>1, <1>3, NothingNewMet, BecomesMet
<1>4. ASSUME NEW n \in Names, \E h \in Deaths(hero[n]) : Becomes(n, h)
      PROVE  MetIsCounted'
  BY <1>1, <1>3, <1>4, DeathsNothingNew
<1>5. ASSUME NEW n \in Names,
             \/ Enter(n) \/ EndOfInput(n) \/ Leave(n) \/ Stays(n) \/ Left(n)
             \/ SlipPast(n) \/ FleeRefused(n) \/ Defend(n)
      PROVE  MetIsCounted'
  <2>1. CASE Enter(n) \/ FleeRefused(n) \/ Defend(n)
    <3>1. \A b \in BOOLEAN : NothingNew(hero[n], [hero[n] EXCEPT !.guarding = b])
      BY <1>1 DEF NothingNew, Heroes
    <3>2. NothingNew(hero[n], StandDown(hero[n]))
      BY <1>1 DEF NothingNew, Heroes, StandDown
    <3> QED BY <1>3, <2>1, <3>1, <3>2 DEF Enter, FleeRefused, Defend
  <2>2. CASE EndOfInput(n) \/ Leave(n) \/ Stays(n) \/ Left(n) \/ SlipPast(n)
    BY <1>2, <1>4, <2>2 DEF EndOfInput, Leave, Stays, Left, SlipPast, Lost
  <2> QED BY <1>5, <2>1, <2>2
<1>6. ASSUME NEW n \in Names, NEW r \in Rooms, Move(n, r)
      PROVE  MetIsCounted'
  <2> DEFINE k == Moved(hero[n], r)
  <2>1. k \in Heroes /\ NothingNew(hero[n], k)
    <3>1. Good(k)
      BY <1>1, <1>6, MovedGood DEF Move
    <3>2. NothingNew(hero[n], k)
      BY <1>1 DEF Moved, NothingNew, Heroes
    <3> QED BY <3>1, <3>2 DEF Good
  <2>2. ASSUME NEW h \in PastHazard(k), Becomes(n, h) PROVE NothingNew(hero[n], h)
    <3> HIDE DEF k
    <3>1. NothingNew(k, h)
      <4>1. h \in Deaths(k) \/ h = k \/ h = SpendCrew(k, World.hazard[k.room].loss)
        <5>1. k.room \in Rooms
          BY <2>1 DEF Heroes
        <5>2. World.hazard[k.room].type \in Hazards
          BY <5>1, WorldFacts
        <5> QED BY <2>2, <5>2 DEF PastHazard, Hazards
      <4> QED BY <2>1, <4>1, DeathsNothingNew, SpendCrewNothingNew DEF NothingNew
    <3> QED BY <2>1, <3>1 DEF NothingNew
  <2> HIDE DEF k
  <2> QED BY <1>2, <1>3, <1>6, <2>2 DEF Move, Lost, k
<1>7. ASSUME NEW n \in Names, NEW e \in NPCs, Attack(n, e)
      PROVE  MetIsCounted'
  <2>1. CASE AttackUnwinnable(n, e)
    <3> DEFINE h == [SpendCrew(hero[n], Npc(e).crewLoss) EXCEPT !.target = None]
    <3>1. NothingNew(hero[n], h)
      BY <1>1 DEF SpendCrew, NothingNew, Heroes
    <3> HIDE DEF h
    <3> QED BY <1>3, <2>1, <3>1 DEF AttackUnwinnable, h
  <2>2. CASE AttackUnprepared(n, e) \/ AttackPerson(n, e) \/ Dies(n)
    BY <1>2, <1>4, <2>2 DEF AttackUnprepared, AttackPerson, Dies, Lost
  <2>3. CASE AttackWins(n, e)
    <3>1. \A m \in Names : hero'[m] = hero[m] \/ hero'[m] = Shared(hero[m], e)
      BY <1>1, <2>3 DEF AttackWins
    <3>2. \A m \in Names : Met(hero'[m])
      BY <1>1, <3>1, SharedMet
    <3> QED BY <3>2 DEF MetIsCounted, Met, InProgress, AlreadyMet
  <2>4. CASE AttackHits(n, e)
    <3>1. NothingNew(hero[n], [hero[n] EXCEPT !.target = e, !.guarding = FALSE])
      BY <1>1 DEF NothingNew, Heroes
    <3> QED BY <1>3, <2>4, <3>1 DEF AttackHits
  <2> QED BY <1>7, <2>1, <2>2, <2>3, <2>4 DEF Attack, AttackEnemy
<1>8. ASSUME NEW n \in Names, NEW e \in NPCs, Flee(n, e)
      PROVE  MetIsCounted'
  <2> DEFINE h == [StandDown(hero[n]) EXCEPT !.fled = @ \cup {e}]
             k == [hero[n] EXCEPT !.guarding = FALSE,
                                  !.target = IF Engaged(hero[n]) THEN e ELSE None]
  <2>1. NothingNew(hero[n], h) /\ NothingNew(hero[n], k)
    BY <1>1 DEF NothingNew, Heroes, StandDown
  <2>2. Becomes(n, h) \/ Becomes(n, k) \/ \E d \in Deaths(hero[n]) : Becomes(n, d)
    BY <1>8 DEF Flee, Dies
  <2> HIDE DEF h, k
  <2> QED BY <1>3, <1>4, <2>1, <2>2
<1>9. ASSUME NEW n \in Names, NEW e \in NPCs, Talk(n, e)
      PROVE  MetIsCounted'
  <2>1. CASE Npc(e).ending # None /\ Becomes(n, Ended(hero[n], Npc(e).ending))
    <3>1. Npc(e).ending \in Endings
      BY <2>1, WorldAssumption DEF Npc
    <3>2. Met(Ended(hero[n], Npc(e).ending))
      BY <1>1, <3>1, EndedMet
    <3> QED BY <2>1, <3>2, BecomesMet
  <2> QED BY <1>2, <1>4, <1>9, <2>1 DEF Talk, Lost
<1>10. ASSUME NEW n \in Names, NEW i \in Items, Take(n, i)
       PROVE  MetIsCounted'
  <2> DEFINE bag == [hero[n] EXCEPT !.inv = @ \cup {i}]
             taken == Credited(bag, "collect_item", i)
  <2>1. bag \in Heroes /\ Met(taken)
    <3> DEFINE more == hero[n].inv \cup {i}
    <3>1. more \in SUBSET Items /\ bag = [hero[n] EXCEPT !.inv = more]
      BY <1>1 DEF Heroes
    <3>2. bag \in Heroes
      <4> HIDE DEF more, bag
      <4>1. hero[n] \in Heroes
        BY <1>1
      <4> QED BY <3>1, <4>1, FieldsTyped
    <3>3. bag = [hero[n] EXCEPT !.inv = @ \cup {i}]
      OBVIOUS
    <3> HIDE DEF bag
    <3> QED BY <1>1, <3>2, <3>3, TakenMet
  <2>2. taken \in Heroes
    <3>1. /\ hero[n].inv \cup {i} \in SUBSET Items /\ hero[n].endings \in SUBSET Endings
          /\ bag = [hero[n] EXCEPT !.endings = hero[n].endings, !.inv = hero[n].inv \cup {i}]
      BY <1>1 DEF Heroes
    <3>2. Good(bag)
      BY <1>1, <3>1, BagGood, SameEndings
    <3> QED BY <3>2, CreditedGood DEF Good
  <2>3. \E h \in Deaths(taken) \cup {taken} : Becomes(n, h)
    BY <1>10 DEF Take
  <2> HIDE DEF taken
  <2> QED BY <2>1, <2>2, <2>3, DeathsNothingNew, NothingNewMet, BecomesMet
<1>11. ASSUME NEW n \in Names, NEW i \in Items, Drop(n, i)
       PROVE  MetIsCounted'
  <2> DEFINE dropped == [hero[n] EXCEPT !.inv = @ \ {i}]
  <2>1. /\ NothingNew(hero[n], dropped)
        /\ NothingNew(hero[n], SpendCrew(dropped, WindsCrewLoss))
    BY <1>1 DEF NothingNew, SpendCrew, Heroes
  <2>2. Becomes(n, dropped) \/ Becomes(n, SpendCrew(dropped, WindsCrewLoss))
    BY <1>11 DEF Drop
  <2> HIDE DEF dropped
  <2> QED BY <1>3, <2>1, <2>2
<1>12. ASSUME NEW n \in Names, NEW q \in Quests, Quest(n, q)
       PROVE  MetIsCounted'
  <2> DEFINE k == [hero[n] EXCEPT !.status[q] = "active"]
             r == IF hero[n].status[q] = "none" /\ AlreadyMet(k, q)
                  THEN Advanced(k, {q}) ELSE k
  <2>1. k \in Heroes
    <3>1. hero[n] \in Heroes
      BY <1>1
    <3> QED BY <3>1, FieldsTyped
  <2>2. Met(r)
    BY <1>1, <1>12, <2>1, QuestMet DEF Quest
  <2>3. Becomes(n, r)
    BY <1>12 DEF Quest
  <2> HIDE DEF r
  <2> QED BY <2>2, <2>3, BecomesMet
<1> QED BY <1>2, <1>5, <1>6, <1>7, <1>8, <1>9, <1>10, <1>11, <1>12 DEF Next, vars

\* MetIsCounted is lost in one way only: a QUEST of an objective that is met
\* already, whose answer did not fit.  (AdventureUnanswered shows that one.)
THEOREM OnlyLostAnswersForget ==
    ASSUME NoQuestForTrophy
    PROVE  Spec => [][MetIsCounted /\ ~MetIsCounted' =>
                         \E n \in Names, q \in Quests : Quest(n, q) /\ Unanswered(n)]_vars
<1>1. AdventureInv /\ [Next]_vars =>
         [MetIsCounted /\ ~MetIsCounted' =>
             \E n \in Names, q \in Quests : Quest(n, q) /\ Unanswered(n)]_vars
  BY StepMet
<1> QED BY <1>1, RecordsStayGood, PTL DEF Spec

\* MetIsCounted, for any world without a quest for a trophy, as long as every
\* response fits: victories that are shared, items that are dropped and taken
\* again, and enemies that come back leave no objective met and uncounted.
THEOREM ObjectivesCount ==
    ASSUME NoQuestForTrophy, ~RepliesFail
    PROVE  Spec => []MetIsCounted
<1>1. Init => MetIsCounted
  BY DEF Init, Fresh, MetIsCounted, InProgress
<1>2. AdventureInv /\ MetIsCounted /\ [Next]_vars => MetIsCounted'
  BY StepMet DEF Unanswered
<1> QED BY <1>1, <1>2, RecordsStayGood, PTL DEF Spec
===============================================================================
