SPECIFICATION Spec
CONSTANTS
    Names = {alice}
    Rooms = {"hall", "harbor", "isle", "garden", "sirens", "strait", "palace", "loom"}
    Items = {"beeswax", "winds", "cattle", "bow", "branch", "thread"}
    NPCs = {"laestrygonian", "antinous", "eumaeus", "penelope", "circe", "moirai",
            "eurylochus"}
    Quests = {"suitors_end", "sacred_cattle"}
    Endings = {"odyssey", "final"}
    World <- Voyage
    Harbor = "harbor"
    Ithaca = "palace"
    Deadly = {"cattle"}
    Winds = "winds"
    StartingCrew = 3
    WindsCrewLoss = 2
    None = "none"
    RepliesFail = TRUE
INVARIANTS TypeOK EndingsInOrder
