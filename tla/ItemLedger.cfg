SPECIFICATION Spec
CONSTANTS
    Conns = {c1, c2}
    Names = {alice, bob}
    hall = hall
    lair = lair
    Rooms = {hall, lair}
    Start = hall
    Unique = {teeth}
    Renewable = {cattle}
    Lethal = {cattle}
    Home <- MCHome
    Nobody = Nobody
    NoName = NoName
    NoItem = NoItem
    Nowhere = Nowhere
    ConcurrentConnects = FALSE
INVARIANTS ExistsOnce RestartAccepted FloorSurvives TakesTracked NothingComesBack
PROPERTIES KeepsPromise
SYMMETRY Symmetry
