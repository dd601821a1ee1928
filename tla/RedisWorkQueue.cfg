\* Two workers, three items of which one is malformed, any three failures.
CONSTANTS
    v = v
    w = w
    x = x
    y = y
    z = z
    NoItem = NoItem
    Worker <- TwoWorkers
    Item <- ThreeItems
    Malformed <- LastMalformed
    RecoverOnStart = TRUE
    MaxFaults = 3
SPECIFICATION FairSpec
INVARIANTS  NoConcurrentDelivery
PROPERTIES ImplementsReliableQueue 
