SPECIFICATION ServicesSpec
CONSTANTS
    blueprint1 = blueprint1
    blueprint2 = blueprint2
    worker1 = worker1
    Blueprint <- TwoBlueprints
    EntryNode <- SomeEntries
    Commit <- TwoCommits
    Worker <- OneWorker
    Instances = 2
    InstanceId = 0
    Strategy = "did"
    HashOf <- HashOfDid
    MaxCacheSize = 2
    ReloadCapacity = 1
    MaxEdits = 2
    Stream <- FourEvents
    Workers = 2
    Buffer = 1
    Collections <- Posts
    Deniable <- Bob
    Unreliable = FALSE
    MaxBreaks = 1
    Node = {n1, n2}
    Item = {1, 2, 3}
    PageSize = 1
    MaxWrites = 2
    Caller = {c1, c2}
    Uri = {"x"}
    Authority = "a"
    Limits <- SomeLimits
    MaxTime = 2
    MaxCalls = 4
    DidSpelling <- SomeDids
    CollectionSpelling <- SomeNsids
    CheckedNode <- SomeNodes
    MaxChain = 2
    Handler = {h1, h2}
    Shape <- SomeShapes
    MaxBirths = 4
    MaxRequests = 2
    Client = {p1, p2}
    Version = {"v1"}
    NodeTTL = 1
    MaxDelay = 1
    Author = {"u1", "u2"}
    Form <- SomeForms
    Given <- SomeGiven
    Requester = {"r1"}
    Publisher = {"u1", "u2"}
    Lifetimes = {2, 4}
    Margin = 1
    Floor = 3
    Early = 1
    Hurried = 0
    MaxRetries = 2
    MaxClock = 4
    Environment <- SomeEnvironments
    Login = {l1}
    Visit = {w1, w2}
    Checker = {k1, k2}
    RequestLife = 2
    TokenLives = {1, 3}
    CookieMargin = 1
    Remembered = 2
    MaxReply = 1
    MaxMoment = 4
    Resolver = {r1, r2}
    MemoryTTL = 1
    MaxHour = 3
INVARIANTS
    
    EveryMatchIsSubmitted
    EventsAccountedFor
    OvertakingIsBounded
    
    
    
    ObjectsNeverPanic
    
    
    InstanceIsWhole
    AuthGetsThrough
    
    
    WhoAsksIsKnown
    
PROPERTIES
    HandlerGetsThrough
    FailureStopsTheService
CHECK_DEADLOCK FALSE
