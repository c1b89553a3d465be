SPECIFICATION Spec
CONSTANTS
    Conns = {c1, c2}
    Names = {alice}
    hall = hall
    lair = lair
    Rooms = {hall, lair}
    Start = hall
    Unique = {teeth}
    Renewable = {}
    Lethal = {}
    Home <- MCHome
    Nobody = Nobody
    NoName = NoName
    NoItem = NoItem
    Nowhere = Nowhere
    ConcurrentConnects = TRUE
INVARIANTS ExistsOnce
CHECK_DEADLOCK FALSE
