\* The adapter as the binary uses it: nobody recovers the worker lists.
CONSTANTS
    v = v
    w = w
    x = x
    y = y
    z = z
    NoItem = NoItem
    Worker <- TwoWorkers
    Item <- TwoItems
    Malformed = {}
    RecoverOnStart = FALSE
    MaxFaults = 2
SPECIFICATION FairSpec
PROPERTIES AtLeastOnce
