SPECIFICATION FairSpec
CONSTANTS
    c1 = c1
    c2 = c2
    r1 = r1
    r2 = r2
    Callers <- MCTwoCallers
    Rooms <- MCOneRoom
    Concurrent = TRUE
    Capacity = 2
    MaxEvents = 2
INVARIANTS
    OneWorkerPerLane
    RequestOrder
    ReturnsWhenAllDone
PROPERTY
    ServedLaneDrains
CHECK_DEADLOCK FALSE
