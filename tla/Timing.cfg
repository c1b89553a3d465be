SPECIFICATION TimingSpec
CONSTANTS
    MaxPlayerHP = 6
    MinPlayerMaxHP = 2
    RespawnHP = 2
    RegenInterval = 2
    RegenAmount = 1
    trophy = trophy
    curse = curse
    Items <- TwoItems
    Effect <- Effects
    Blessing <- Gift
    Trophies = {trophy}
    QuestGain = 1
    MaxQuests = 1
    MaxAllyBonus = 3
    AllyReduction = 20
    GuardReduction = 50
    MaxIncrease = 50
    MaxReduction = 80
    Counters = {1, 3}
    MaxIdle = 5
    Window = 2
    MaxPerWindow = 1
    WarnInterval = 3
    MaxBurst = 3
INVARIANTS LooksDoNotMatter ShowsLivingPlayer
PROPERTIES CountersHurt WarnsWhenDue
