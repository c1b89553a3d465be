SPECIFICATION Spec
CONSTANTS
    Names = {alice, bob}
    Rooms = {"hall", "field", "grove"}
    Items = {"ointment"}
    NPCs = {"bulls", "earthborn", "aeetes"}
    Quests = {"bronze_bulls"}
    Endings = {}
    World <- BullField
    Harbor = "none"
    Ithaca = "none"
    Deadly = {}
    Winds = "none"
    StartingCrew = 0
    WindsCrewLoss = 0
    None = "none"
    RepliesFail = FALSE
INVARIANTS TargetIsFoe RewardOnce MetIsCounted GatesHold
PROPERTIES LeavingIsStill
SYMMETRY Symmetry
