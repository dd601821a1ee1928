\* In memory: the instance's own queue is the bottleneck, crashes included.
CONSTANTS
    a = a
    b = b
    e1 = e1
    e2 = e2
    e3 = e3
    Nobody = Nobody
    Instance <- OneInstance
    Event <- ThreeEvents
    MaxNodes = 3
    Capacity = 2
    Adapter = "mpsc"
    Gated = TRUE
    MayFail = FALSE
    MayCrash = TRUE
SPECIFICATION FairSpec
PROPERTIES PendingIsSettled
