SPECIFICATION Spec
CONSTANTS
    MaxLifecycle = 3
    MaxProcesses = 2
    MaxTicks = 3
    MaxProcCrashes = 1
    HardSamples = 2
    Invs = {i1}
    Bodies = {1, 6}
    Window = 3
    HighWater = 2
    Quota = 5
    MaxRequests = 2
    MaxServerCrashes = 1
    BCalls = {c1, c2}
    MaxInflight = 2
    MaxOutbox = 1
    MaxQueued = 1
    MaxStreams = 1
    Chunks = 2
    NoCall = NoCall
INVARIANTS
    AnswersSound
    BackendsAccounted
    StreamsSound
    PackagesSafe
PROPERTIES
    CallsSettled
    LifecycleDrains
    StreamsEnd
CHECK_DEADLOCK FALSE
