SPECIFICATION Spec
CONSTANTS
    a = a
    b = b
    FPlugins = {p1}
    MaxVersion = 2
    MaxRestarts = 1
    MaxSyncs = 3
    MaxFrames = 3
    NoFrame = NoFrame
    GPlugins = {a, b}
    Grantable <- MCGrantable
    MaxConsumer = 1
    MaxHost = 2
    MaxWorkers = 1
    MaxSpawns = 2
    MaxConns = 2
    MaxGrantSteps = 5
INVARIANTS
    FramesSound
    GrantsGovern
PROPERTIES
    RemovalsDue
CHECK_DEADLOCK FALSE
