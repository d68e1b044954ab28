SPECIFICATION FairCache
CONSTANTS
    Goroutines = {g1, g2, g3}
    Pols = {p}
    WindowSizes = {1, 2}
    Nil = Nil
INVARIANTS
    MapGuarded
    OwnTables
PROPERTIES
    CallsReturn
