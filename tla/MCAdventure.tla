------------------------------ MODULE MCAdventure ------------------------------
(* Two small worlds for TLC, cut from data/world.json: the bull field of the *)
(* Argonauts, where two enemies stand in one room, and a voyage with every   *)
(* kind of hazard, person and ending.                                        *)
EXTENDS Adventure, TLC

Symmetry == Permutations(Names)

Calm == [type |-> "none", item |-> None, loss |-> 0, min |-> 0]

Item(r) == [room |-> r, rewardOnly |-> FALSE, obtainable |-> TRUE]

Trophy == [room |-> None, rewardOnly |-> TRUE, obtainable |-> FALSE]

Person(r) ==
    [room |-> r, role |-> "dialogue", mighty |-> FALSE, guide |-> FALSE,
     unwinnable |-> FALSE, crewLoss |-> 0, fleeAccurate |-> FALSE, fleeOnce |-> FALSE,
     mythItem |-> None, mythQuest |-> None, ending |-> None]

Enemy(r) == [Person(r) EXCEPT !.role = "enemy"]

\* The bulls need the ointment; the way on leads through their field, and the king who sends
\* the heroes there is met before it.
BullField ==
    [start |-> "hall",
     exits |-> ("hall" :> {"field"} @@ "field" :> {"hall", "grove"} @@ "grove" :> {"hall"}),
     secrets |-> [r \in Rooms |-> {}],
     hazard |-> [r \in Rooms |-> Calm],
     item |-> ("ointment" :> Item("hall")),
     npc |-> ("bulls" :> [Enemy("field") EXCEPT !.mythItem = "ointment"] @@
              "earthborn" :> [Enemy("field") EXCEPT !.fleeOnce = TRUE] @@
              "aeetes" :> [Person("hall") EXCEPT !.role = "quest_giver", !.mighty = TRUE]),
     quest |-> ("bronze_bulls" :> [giver |-> "aeetes", type |-> "defeat_npc",
                                   target |-> "bulls", count |-> 1]),
     ending |-> <<>>]

Rough(t, i, l, m) == [type |-> t, item |-> i, loss |-> l, min |-> m]

\* A ring: out through the harbour, home through the palace; the loom opens
\* after the last ending.
Voyage ==
    [start |-> "hall",
     exits |-> ("hall" :> {"harbor"} @@ "harbor" :> {"hall", "isle"} @@
                "isle" :> {"garden", "sirens"} @@ "garden" :> {} @@
                "sirens" :> {"strait"} @@ "strait" :> {"palace"} @@
                "palace" :> {"hall"} @@ "loom" :> {"hall"}),
     secrets |-> [r \in Rooms |->
                     IF r = "hall" THEN {[room |-> "loom", endings |-> {"final"}]} ELSE {}],
     hazard |-> ("isle" :> Rough("crew_cost", None, 1, 0) @@
                 "garden" :> Rough("lethal", None, 0, 0) @@
                 "sirens" :> Rough("item_gate", "beeswax", 0, 0) @@
                 "strait" :> Rough("crew_gate", None, 1, 2) @@ [r \in Rooms |-> Calm]),
     item |-> ("beeswax" :> Item("isle") @@ "winds" :> Item("isle") @@
               "cattle" :> Item("strait") @@ "bow" :> Item("palace") @@
               "branch" :> Trophy @@ "thread" :> Trophy),
     npc |-> ("laestrygonian" :> [Enemy("isle") EXCEPT !.unwinnable = TRUE, !.crewLoss = 2,
                                                       !.fleeAccurate = TRUE] @@
              "antinous" :> [Enemy("palace") EXCEPT !.mythItem = "bow"] @@
              "eumaeus" :> [Person("palace") EXCEPT !.role = "quest_giver"] @@
              "penelope" :> [Person("palace") EXCEPT !.ending = "odyssey"] @@
              "circe" :> [Person("sirens") EXCEPT !.mighty = TRUE, !.mythItem = "beeswax"] @@
              "moirai" :> [Person("hall") EXCEPT !.mighty = TRUE, !.guide = TRUE,
                                            !.ending = "final"] @@
              "eurylochus" :> [Person("strait") EXCEPT !.role = "quest_giver"]),
     quest |-> ("suitors_end" :> [giver |-> "eumaeus", type |-> "defeat_npc",
                                  target |-> "antinous", count |-> 1] @@
                "sacred_cattle" :> [giver |-> "eurylochus", type |-> "collect_item",
                                    target |-> "cattle", count |-> 1]),
     ending |-> ("odyssey" :> [items |-> {"bow"}, quests |-> {"suitors_end"},
                               endings |-> {}, reward |-> "branch"] @@
                 "final" :> [items |-> {}, quests |-> {}, endings |-> {"odyssey"},
                             reward |-> "thread"])]
===============================================================================
