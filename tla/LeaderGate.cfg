CONSTANTS
    a = a
    b = b
    Instance <- MCInstance
    Nobody = Nobody
    TTL = 9
    RetryInterval = 3
    MaxLatency = 1
    MaxStray = 1
    Faults <- OnlyCrashes
SPECIFICATION GateSpec
SYMMETRY Symmetry
INVARIANTS
    OneInstanceProcesses
