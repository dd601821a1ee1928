CONSTANTS
    a = a
    b = b
    Instance <- MCInstance
    Nobody = Nobody
    TTL = 9
    RetryInterval = 3
    MaxLatency = 1
    MaxStray = 1
    Faults <- AnyFault
SPECIFICATION FairSpec
INVARIANTS
    LeaderHoldsLease
PROPERTIES
    LeaseEndsByExpiryOrRelease
    ImplementsLeaderLease
    VacancyIsFilled
    UnheldLeaseEnds
