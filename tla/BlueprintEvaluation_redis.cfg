\* Two instances share the Redis queue; anything may fail.
CONSTANTS
    a = a
    b = b
    e1 = e1
    e2 = e2
    e3 = e3
    Nobody = Nobody
    Instance <- TwoInstances
    Event <- TwoEvents
    MaxNodes = 2
    Capacity = 1
    Adapter = "redis"
    Gated = TRUE
    MayFail = TRUE
    MayCrash = TRUE
SPECIFICATION Spec
SYMMETRY Symmetry
INVARIANTS NodesRunInOrder PendingCanResume
PROPERTIES SettledIsFinal
