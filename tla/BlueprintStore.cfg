\* Two processes use the same cache.
CONSTANTS
    request = request
    task = task
    memory = memory
    order1 = order1
    Absent = Absent
    Process <- TwoProcesses
    Cache <- OneCache
    CacheOf <- UseOne
    Revision <- OneRevision
    TTL = 2
    MaxLatency = 1
SPECIFICATION FairSpec
INVARIANTS BoundedStaleness
PROPERTIES  CachesConverge
