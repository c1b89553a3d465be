-------------------------------- MODULE Vitals --------------------------------
(***************************************************************************)
(* Hit points and time.  No timer heals a player: regenLocked settles what *)
(* is due whenever a command looks at the player.  The model has one       *)
(* player, and keeps the age of lastRegen instead of a clock.              *)
(*                                                                         *)
(* ideal is a history variable: the player as it would be if regenLocked   *)
(* ran at every instant, with the same blows, items and rewards.           *)
(***************************************************************************)
EXTENDS FiniteSets, Integers, FiniteSetsExt, Functions

CONSTANTS
    MaxPlayerHP, MinPlayerMaxHP, RespawnHP,
    RegenInterval, RegenAmount,
    Items,
    Effect,         \* [Items -> [maxHP, regen, counter : Int]]: Item.Effects
    Blessing,       \* [regen, counter : Int]: what the endings add for good
    Trophies,       \* items with RewardOnly: a death takes none of them
    QuestGain,      \* questMaxHPGain of a quest
    MaxQuests,      \* how many quests there are
    MaxAllyBonus, AllyReduction, GuardReduction,
    MaxIncrease, MaxReduction,
    Counters,       \* what the dice of a counter may show
    MaxIdle         \* bound: how long nobody looks at the player

ASSUME NumbersAssumption ==
    /\ MaxPlayerHP \in Nat \ {0} /\ MinPlayerMaxHP \in Nat \ {0}
    /\ RespawnHP \in 1 .. MinPlayerMaxHP
    /\ RegenInterval \in Nat \ {0} /\ RegenAmount \in Nat
    /\ QuestGain \in Nat \ {0} /\ MaxQuests \in Nat /\ MaxIdle \in Nat
    /\ MaxAllyBonus \in Nat /\ AllyReduction \in Nat /\ GuardReduction \in Nat
    /\ MaxIncrease \in Nat /\ MaxReduction \in 0 .. 99
    /\ Counters \subseteq Nat \ {0} /\ IsFiniteSet(Counters)

ASSUME EffectsAssumption ==
    /\ IsFiniteSet(Items)
    /\ Effect \in [Items -> [maxHP : Int, regen : Int, counter : Int]]
    /\ Blessing \in [regen : Int, counter : Int]
    /\ Trophies \subseteq Items

VARIABLES
    hp,         \* player.HP
    since,      \* now - player.lastRegen
    pack,       \* player.Inventory
    blessed,    \* an ending with a blessing is in player.Endings
    gained,     \* quests rewarded: MaxHPBonus is QuestGain times this
    ideal       \* [hp, since] of a player who is looked at all the time

vars == <<hp, since, pack, blessed, gained, ideal>>

TypeOK ==
    /\ hp \in Int /\ since \in 0 .. MaxIdle
    /\ pack \subseteq Items /\ blessed \in BOOLEAN /\ gained \in 0 .. MaxQuests
    /\ ideal \in [hp : Int, since : Nat]

-------------------------------------------------------------------------------
(* What the numbers are.                                                   *)

Max2(a, b) == IF a > b THEN a ELSE b
Min2(a, b) == IF a < b THEN a ELSE b

ItemTotal(effect) == SumFunction([i \in pack |-> Effect[i][effect]])

Total(effect) == ItemTotal(effect) + IF blessed THEN Blessing[effect] ELSE 0

MaxHP == Max2(MinPlayerMaxHP, MaxPlayerHP + gained * QuestGain + ItemTotal("maxHP"))

\* Mutant: a slow-down turns into bleeding.
RateMutant == RegenAmount + Total("regen")

Rate == Max2(0, RegenAmount + Total("regen"))

\* Mutant: the rest of an interval is thrown away.
RestMutant(t) == 0

\* What lastRegen moves forward by whole intervals leaves.
Rest(t) == t % RegenInterval

\* regenLocked, for a player who has h points and was settled t ago.
Regen(h, t) ==
    LET full   == MaxHP
        capped == Min2(h, full)
        healed == capped + (t \div RegenInterval) * Rate
    IN  IF capped >= full THEN [hp |-> capped, since |-> 0]
        ELSE IF t < RegenInterval THEN [hp |-> capped, since |-> t]
        ELSE IF healed >= full THEN [hp |-> full, since |-> 0]
        ELSE [hp |-> healed, since |-> Rest(t)]

\* Mutant: a perfect parry.
ReduceCounterMutant(c, percent) ==
    (c * (100 - Max2(-MaxIncrease, percent))) \div 100

ReduceCounter(c, percent) ==
    LET p == Max2(-MaxIncrease, Min2(percent, MaxReduction))
    IN  IF p = 0 THEN c ELSE Max2(1, (c * (100 - p)) \div 100)

-------------------------------------------------------------------------------
(* Commands.                                                               *)

Now == Regen(hp, since)

\* The player, and its ideal, have f[points] after what is due was settled.
Becomes(f) ==
    /\ hp' = f[Now.hp]
    /\ since' = Now.since
    /\ ideal' = LET settled == Regen(ideal.hp, ideal.since)
                IN  [settled EXCEPT !.hp = f[@]]

Settled == [h \in Int |-> h]

Filled == [h \in Int |-> MaxHP']

Respawned == [h \in Int |-> RespawnHP]

Init ==
    /\ hp = MaxPlayerHP /\ since = 0
    /\ pack = {} /\ blessed = FALSE /\ gained = 0
    /\ ideal = [hp |-> MaxPlayerHP, since |-> 0]

\* STATUS, and any other command that changes the player's record without
\* touching what follows.
Look ==
    /\ Becomes(Settled)
    /\ UNCHANGED <<pack, blessed, gained>>

\* respawnPlayerLocked: belongings are lost, or kept by companions or because
\* the files could not be written.
Die ==
    /\ Becomes(Respawned)
    /\ pack' \in {pack, pack \cap Trophies}
    /\ UNCHANGED <<blessed, gained>>

\* The counter of an enemy that an ATTACK with some allies, or a failed FLEE
\* without, left standing.  percent is what protects the player.
Countered(c, percent) ==
    LET damage == ReduceCounter(c, percent)
        hit == [h \in Int |-> IF h - damage <= 0 THEN RespawnHP ELSE h - damage]
    IN  /\ Becomes(hit)
        /\ pack' \in IF Now.hp - damage <= 0 THEN {pack, pack \cap Trophies} ELSE {pack}
        /\ UNCHANGED <<blessed, gained>>

Protection(allies, guarding) ==
    allies * AllyReduction + Total("counter") + IF guarding THEN GuardReduction ELSE 0

Fight ==
    \E c \in Counters, allies \in 0 .. MaxAllyBonus, guarding \in BOOLEAN :
        Countered(c, Protection(allies, guarding))

\* The item may complete a quest, and it may be deadly (the lotus, the cattle).
Take(i) ==
    /\ i \notin pack
    /\ gained' \in {gained, Min2(gained + 1, MaxQuests)}
    /\ \/ /\ pack' = pack \cup {i}
          /\ \/ gained' = gained /\ Becomes(Settled)
             \/ gained' # gained /\ Becomes(Filled)
       \/ /\ pack' \in {pack \cup {i}, pack \cap Trophies}
          /\ Becomes(Respawned)
    /\ UNCHANGED blessed

Drop(i) ==
    /\ i \in pack
    /\ Becomes(Settled)
    /\ pack' = pack \ {i}
    /\ UNCHANGED <<blessed, gained>>

\* talkEndingLocked: the trophy is given again whenever the ending is told.
Ending ==
    /\ Becomes(Settled)
    /\ blessed' = TRUE
    /\ \E won \in SUBSET Trophies : pack' = pack \cup won
    /\ UNCHANGED gained

\* advanceQuestLocked: in a command of the player's own, or when an ally shares
\* a victory with a player who is not looked at.
Reward ==
    /\ gained < MaxQuests
    /\ gained' = gained + 1
    /\ UNCHANGED <<pack, blessed>>
    /\ \/ Becomes(Filled)
       \/ /\ hp' = MaxHP'
          /\ ideal' = [ideal EXCEPT !.hp = MaxHP']
          /\ UNCHANGED since

\* QUIT and CONNECT: the record is saved as it is, and settled from now on.
Reconnect ==
    /\ since' = 0
    /\ ideal' = [hp |-> hp, since |-> 0]
    /\ UNCHANGED <<hp, pack, blessed, gained>>

Command ==
    \/ Look
    \/ Die
    \/ Fight
    \/ \E i \in Items \ Trophies : Take(i)
    \/ \E i \in Items : Drop(i)
    \/ Ending
    \/ Reward

\* Time passes; the ideal player is looked at.
Pass ==
    /\ since < MaxIdle
    /\ since' = since + 1
    /\ ideal' = Regen(ideal.hp, ideal.since + 1)
    /\ UNCHANGED <<hp, pack, blessed, gained>>

Next == Command \/ Reconnect \/ Pass

Spec == Init /\ [][Next]_vars

-------------------------------------------------------------------------------
(* Properties.                                                             *)

\* How often a player is looked at changes nothing: what regenLocked gives a
\* player it has not settled for long is what it would have had if it had run
\* at every instant, whatever items came and went in between.
LooksDoNotMatter == Now = Regen(ideal.hp, ideal.since)

\* STATUS never shows a dead player, or more points than the maximum: not even
\* a cursed player who has just died.
ShowsLivingPlayer == Now.hp \in 1 .. MaxHP

\* A counter that does not kill costs at least one point, and at most half as
\* much again as the dice can show, whatever allies, stance, items and blessings
\* add up to.
CountersHurt ==
    [][Fight => \/ hp' = RespawnHP
                \/ Now.hp - hp' \in 1 .. (Max(Counters) * (100 + MaxIncrease)) \div 100]_vars
===============================================================================
