SPECIFICATION Spec
CONSTANTS
    Calls = {c1, c2}
    Deadlined = {c1}
    Window = 4
    MaxBuffered = 6
    MaxTotal = 6
    Sizes <- MCSizes
    MaxPort = 3
    MaxAppends = 3
    NoRow = NoRow
    PerEvent = 3
    InFlight = 2
    MaxEvents = 5
    MaxResumes = 1
    NoSub = NoSub
    NWindows = 3
    MaxStirs = 4
INVARIANTS
    SessionSound
    CommitWholeUnlessOverlapped
    RelaySound
PROPERTIES
    CallsEndOnce
    DraftsEnd
    DeliveryRestarts
    RolesSettle
CHECK_DEADLOCK FALSE
