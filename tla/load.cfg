SPECIFICATION LiveSpec
CHECK_DEADLOCK FALSE
CONSTANTS
    t1 = t1
    t2 = t2
    Threads = {t1, t2}
    Worlds <- AllWorlds
    MaxLost = 1
INVARIANTS
    TypeOK
    ResultsAreRight
    StuckOnlyByCycle
PROPERTIES
    ImplementsLoadOnce
    LoadsReturn
