SPECIFICATION FairSpec
CONSTANTS
    Conns = {c1, c2}
    Names = {alice, bob}
    hall = hall
    lair = hall
    Rooms = {hall}
    Start = hall
    Unique = {teeth}
    Renewable = {}
    Lethal = {}
    Home <- MCHome
    Nobody = Nobody
    NoName = NoName
    NoItem = NoItem
    Nowhere = Nowhere
    ConcurrentConnects = TRUE
INVARIANTS OneSession
PROPERTIES HandlersReturn GoneAreRemoved
CHECK_DEADLOCK FALSE
