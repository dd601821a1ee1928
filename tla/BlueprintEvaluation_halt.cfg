\* The Redis queue, without failures of any kind.
CONSTANTS
    a = a
    b = b
    e1 = e1
    e2 = e2
    e3 = e3
    Nobody = Nobody
    Instance <- OneInstance
    Event <- OneEvent
    MaxNodes = 2
    Capacity = 1
    Adapter = "redis"
    Gated = FALSE
    MayFail = FALSE
    MayCrash = FALSE
SPECIFICATION FairSpec
PROPERTIES PendingIsSettled
CHECK_DEADLOCK FALSE
